-------------------------- MODULE ContentApproval --------------------------
(***************************************************************************)
(* How a content gets published: educators write versions of it, approvers *)
(* decide about a version or, for contents imported from the prototype,    *)
(* about a batch that freezes the versions of a whole category; readers    *)
(* and the assistant see what is published, and the imported drafts while  *)
(* the pilot flag allows it.                                               *)
(*                                                                         *)
(* An action is one transaction of the API, made by a member whose request *)
(* was authenticated before (Memberships).  All contents are of one type   *)
(* and one category: a batch of another category meets none of these rows. *)
(***************************************************************************)
EXTENDS Memberships

CONSTANTS
    Items,          \* content_items
    Imported,       \* those the importer made: version 1 is extracted, pilot
    MaxVersions,    \* bound on the versions of an item
    MaxRows,        \* bound on the versions of all items
    MaxBatches,     \* bound on content_approval_batches
    Required,       \* required_approvals: 2 for price and legal, else 1
    Nobody          \* no membership: the author of an imported version

ASSUME ContentApprovalAssumption ==
    /\ Imported \subseteq Items
    /\ MaxVersions \in Nat \ {0}
    /\ {MaxRows, MaxBatches} \subseteq Nat
    /\ Required \in {1, 2}
    /\ Nobody \notin Members

Versions == 1..MaxVersions
Batches == 1..MaxBatches
ReviewStatus == {"none", "draft", "in_review", "approved", "rejected"}
VersionRows ==
    [review: ReviewStatus, extracted: BOOLEAN, published: BOOLEAN,
     author: Members \cup {Nobody}, approver: Members \cup {Nobody}]
BatchRows ==
    [status: {"none", "in_review", "approved", "rejected"},
     items: SUBSET (Items \X Versions),
     submitter: Members \cup {Nobody}, approvals: SUBSET Members]

VARIABLES
    version,    \* item and number -> content_versions row
    current,    \* item -> current_version_id; 0 for none
    shown,      \* item -> published_version_id; 0 for none
    batch,      \* batch -> its row, items and decisions
    gated,      \* feature flag content_approval
    pilot,      \* feature flag pilot_content_ai
    answer,     \* the assistant's answer being written: what it read
    waived      \* history: versions published when no approval was required

itemVars == <<version, current, shown, waived>>
vars == <<memberVars, itemVars, batch, gated, pilot, answer>>

TypeOK ==
    /\ MembersTypeOK
    /\ version \in [Items \X Versions -> VersionRows]
    /\ {current, shown} \subseteq [Items -> 0..MaxVersions]
    /\ batch \in [Batches -> BatchRows]
    /\ {gated, pilot} \subseteq BOOLEAN
    /\ answer \in [asked: BOOLEAN, known: SUBSET (Items \X Versions), usesPilot: BOOLEAN]
    /\ waived \subseteq Items \X Versions

NoVersion ==
    [review |-> "none", extracted |-> FALSE, published |-> FALSE, author |-> Nobody, approver |-> Nobody]
NewVersion(m) == [NoVersion EXCEPT !.review = "draft", !.author = m]
NoAnswer == [asked |-> FALSE, known |-> {}, usesPilot |-> FALSE]
NoBatch == [status |-> "none", items |-> {}, submitter |-> Nobody, approvals |-> {}]

Init ==
    /\ MembersInit
    /\ version = [r \in Items \X Versions |->
           IF r[1] \in Imported /\ r[2] = 1
           THEN [NewVersion(Nobody) EXCEPT !.extracted = TRUE] ELSE NoVersion]
    /\ current = [i \in Items |-> IF i \in Imported THEN 1 ELSE 0]
    /\ shown = [i \in Items |-> 0]
    /\ batch = [b \in Batches |-> NoBatch]
    /\ gated = TRUE /\ pilot = TRUE
    /\ answer = NoAnswer
    /\ waived = {}

-----------------------------------------------------------------------------
(* Versions of an item.                                                    *)

RowLeft == Cardinality({r \in Items \X Versions: version[r].review # "none"}) < MaxRows

CreateContent(m, i) ==
    /\ Holds(m, "educator")
    /\ RowLeft
    /\ current[i] = 0
    /\ version' = [version EXCEPT ![<<i, 1>>] = NewVersion(m)]
    /\ current' = [current EXCEPT ![i] = 1]
    /\ Answered(m)
    /\ UNCHANGED <<shown, waived, batch, gated, pilot, answer>>

\* The next number must be free: a published older version may have moved
\* current back, and then the INSERT is refused.
UpdateContent(m, i) ==
    LET next == current[i] + 1 IN
    /\ Holds(m, "educator")
    /\ current[i] # 0
    /\ RowLeft
    /\ next \in Versions /\ version[<<i, next>>].review = "none"
    /\ version' = [version EXCEPT ![<<i, next>>] = NewVersion(m)]
    /\ current' = [current EXCEPT ![i] = next]
    /\ Answered(m)
    /\ UNCHANGED <<shown, waived, batch, gated, pilot, answer>>

Unpublished(i, v) == version[<<i, v>>].review # "none" /\ ~version[<<i, v>>].published

\* Mutant of NeedsApproval: an imported version is published like any other.
NeedsFlagOnly(i, v) == gated /\ version[<<i, v>>].review # "approved"

\* publishContent: the flag, or the version's origin, asks for an approval.
NeedsApproval(i, v) ==
    (gated \/ version[<<i, v>>].extracted) /\ version[<<i, v>>].review # "approved"

SubmitVersion(m, i, v) ==
    /\ Holds(m, "educator")
    /\ Unpublished(i, v)
    /\ NeedsApproval(i, v)
    /\ version[<<i, v>>].review # "in_review"
    /\ version' = [version EXCEPT ![<<i, v>>].review = "in_review"]
    /\ Answered(m)
    /\ UNCHANGED <<current, shown, waived, batch, gated, pilot, answer>>

PublishVersion(m, i, v) ==
    LET row == version[<<i, v>>] IN
    /\ \E role \in Roles: Holds(m, role)
    /\ Unpublished(i, v)
    /\ ~NeedsApproval(i, v)
    /\ version' = [version EXCEPT ![<<i, v>>] =
           [row EXCEPT !.review = "approved", !.published = TRUE,
                       !.approver = IF row.approver = Nobody THEN m ELSE row.approver]]
    /\ waived' = IF row.review = "approved" THEN waived ELSE waived \cup {<<i, v>>}
    /\ current' = [current EXCEPT ![i] = v]
    /\ shown' = [shown EXCEPT ![i] = v]
    /\ Answered(m)
    /\ UNCHANGED <<batch, gated, pilot, answer>>

\* Mutant of Decidable: an author's own version is approved.
DecidableByAnyone(m, i, v, approved) == gated /\ version[<<i, v>>].review = "in_review"

\* decideApproval: nobody approves a version of their own.
Decidable(m, i, v, approved) ==
    /\ gated
    /\ version[<<i, v>>].review = "in_review"
    /\ approved => version[<<i, v>>].author # m

DecideApproval(m, i, v, approved) ==
    LET row == version[<<i, v>>] IN
    /\ Holds(m, "content_approver")
    /\ Decidable(m, i, v, approved)
    /\ version' = [version EXCEPT ![<<i, v>>] =
           [row EXCEPT !.review = IF approved THEN "approved" ELSE "rejected",
                       !.approver = IF approved THEN m ELSE Nobody,
                       !.extracted = row.extracted /\ ~approved]]
    /\ Answered(m)
    /\ UNCHANGED <<current, shown, waived, batch, gated, pilot, answer>>

-----------------------------------------------------------------------------
(* Batches of imported versions.                                           *)

\* What a batch of the category takes: imported, never published, untouched.
Eligible(i) ==
    /\ i \in Imported /\ shown[i] = 0
    /\ version[<<i, current[i]>>].review = "draft" /\ version[<<i, current[i]>>].extracted

Open(b) == batch[b].status = "in_review"

\* createApprovalBatch; the index admits one open batch of a category.
CreateBatch(m, b) ==
    /\ Holds(m, "content_approver")
    /\ gated
    /\ \A c \in Batches: ~Open(c) /\ (c < b => batch[c].status # "none")
    /\ batch[b].status = "none"
    /\ \E i \in Items: Eligible(i)
    /\ batch' = [batch EXCEPT ![b] =
           [NoBatch EXCEPT !.status = "in_review", !.submitter = m,
                           !.items = {<<i, current[i]>> : i \in {j \in Items: Eligible(j)}}]]
    /\ Answered(m)
    /\ UNCHANGED <<itemVars, gated, pilot, answer>>

\* Every frozen version is still its item's current draft.
Intact(b) ==
    \A r \in batch[b].items: current[r[1]] = r[2] /\ version[r].review = "draft"

\* Who may decide: not who submitted, nor an author, nor twice.
MayDecide(m, b) ==
    /\ Holds(m, "content_approver")
    /\ Open(b)
    /\ batch[b].submitter # m
    /\ \A r \in batch[b].items: version[r].author # m
    /\ m \notin batch[b].approvals

\* The batch is set to invalidated and the error thrown next undoes it.
DecideStaleBatch(m, b) ==
    /\ Holds(m, "content_approver")
    /\ Open(b) /\ batch[b].submitter # m
    /\ ~Intact(b)
    /\ Answered(m)
    /\ UNCHANGED <<itemVars, batch, gated, pilot, answer>>

\* Mutant of Enough: the approval at hand is counted twice.
EnoughByTwo(m, b) == Cardinality(batch[b].approvals) + 2 >= Required

Enough(m, b) == Cardinality(batch[b].approvals \cup {m}) >= Required

ApproveBatch(m, b) ==
    /\ MayDecide(m, b)
    /\ Intact(b)
    /\ ~Enough(m, b)
    /\ batch' = [batch EXCEPT ![b].approvals = @ \cup {m}]
    /\ Answered(m)
    /\ UNCHANGED <<itemVars, gated, pilot, answer>>

\* The approval that completes the batch publishes all of it.
PublishBatch(m, b) ==
    LET moves(i) == \E r \in batch[b].items: r[1] = i
        frozen(i) == (CHOOSE r \in batch[b].items: r[1] = i)[2]
    IN
    /\ MayDecide(m, b)
    /\ Intact(b)
    /\ Enough(m, b)
    /\ batch' = [batch EXCEPT ![b].status = "approved", ![b].approvals = @ \cup {m}]
    /\ version' = [r \in Items \X Versions |->
           IF r \in batch[b].items
           THEN [version[r] EXCEPT !.review = "approved", !.approver = m, !.published = TRUE, !.extracted = FALSE]
           ELSE version[r]]
    /\ current' = [i \in Items |-> IF moves(i) THEN frozen(i) ELSE current[i]]
    /\ shown' = [i \in Items |-> IF moves(i) THEN frozen(i) ELSE shown[i]]
    /\ Answered(m)
    /\ UNCHANGED <<waived, gated, pilot, answer>>

RejectBatch(m, b) ==
    /\ MayDecide(m, b)
    /\ Intact(b)
    /\ batch' = [batch EXCEPT ![b].status = "rejected"]
    /\ version' = [r \in Items \X Versions |->
           IF r \in batch[b].items THEN [version[r] EXCEPT !.review = "rejected"] ELSE version[r]]
    /\ Answered(m)
    /\ UNCHANGED <<current, shown, waived, gated, pilot, answer>>

-----------------------------------------------------------------------------
(* Readers, and the assistant that answers from what a reader may see.     *)

\* Mutant of Pointer: readers get the working version of what is published.
PointerToCurrent(i) == current[i]

\* Which version of an item a reader gets; 0 for none.
Pointer(i) ==
    IF shown[i] # 0 THEN shown[i] ELSE IF i \in Imported THEN current[i] ELSE 0

\* assist: published versions and, behind the flag, extracted drafts.
Groundable(i) ==
    /\ Pointer(i) # 0
    /\ LET row == version[<<i, Pointer(i)>>] IN
       IF shown[i] # 0 THEN TRUE ELSE pilot /\ row.review = "draft" /\ row.extracted

\* assist reads the contents in one transaction ...
AskAssistant ==
    LET found == {i \in Items: Groundable(i)} IN
    /\ ~answer.asked
    /\ answer' = [asked |-> TRUE, known |-> {<<i, Pointer(i)>> : i \in found},
                  usesPilot |-> \E i \in found: shown[i] = 0]
    /\ UNCHANGED <<memberVars, itemVars, batch, gated, pilot>>

\* ... and gives, when the model is done, an answer that cites some of them.
GiveAnswer ==
    /\ answer.asked
    /\ answer' = NoAnswer
    /\ UNCHANGED <<memberVars, itemVars, batch, gated, pilot>>

\* updateFeatureFlag.
SetFlag(g, p) ==
    /\ <<g, p>> # <<gated, pilot>> /\ (g = gated \/ p = pilot)
    /\ Change
    /\ gated' = g /\ pilot' = p
    /\ UNCHANGED <<account, roles, busy, caps, itemVars, batch, answer>>

-----------------------------------------------------------------------------
\* A request that is refused: no row, another state, no capability.
Refused(m) ==
    /\ m \in busy
    /\ Answered(m)
    /\ UNCHANGED <<itemVars, batch, gated, pilot, answer>>

VersionSteps ==
    \E m \in Members, i \in Items:
        \/ CreateContent(m, i) \/ UpdateContent(m, i)
        \/ \E v \in Versions:
              \/ SubmitVersion(m, i, v) \/ PublishVersion(m, i, v)
              \/ \E approved \in BOOLEAN: DecideApproval(m, i, v, approved)

BatchSteps ==
    \E m \in Members, b \in Batches:
        \/ CreateBatch(m, b) \/ DecideStaleBatch(m, b)
        \/ ApproveBatch(m, b) \/ PublishBatch(m, b) \/ RejectBatch(m, b)

Next ==
    \/ MemberSteps /\ UNCHANGED <<itemVars, batch, gated, pilot, answer>>
    \/ VersionSteps
    \/ BatchSteps
    \/ AskAssistant
    \/ GiveAnswer
    \/ \E g, p \in BOOLEAN: SetFlag(g, p)
    \/ \E m \in Members: Refused(m)

Spec == Init /\ [][Next]_vars

-----------------------------------------------------------------------------
(* Properties.                                                             *)

\* A version published under an approval was approved by somebody other than
\* its author, and what was imported is never published without one, whatever
\* flags and roles change between the steps (publishContent, decideApproval,
\* decideApprovalBatch).
FourEyes ==
    /\ \A r \in Items \X Versions:
          version[r].published /\ r \notin waived =>
              version[r].approver # Nobody /\ version[r].approver # version[r].author
    /\ \A i \in Imported: <<i, 1>> \notin waived

\* A batch takes effect as a whole, by as many members as it requires, none of
\* whom submitted it; what they saw is what is published
\* (createApprovalBatch, decideApprovalBatch).
BatchIsPublishedAsApproved ==
    \A b \in Batches: batch[b].status = "approved" =>
        /\ \A r \in batch[b].items: version[r].published /\ version[r].approver \in batch[b].approvals
        /\ Cardinality(batch[b].approvals) >= Required
        /\ batch[b].submitter \notin batch[b].approvals

\* No handler ever changes a published version, which the database would
\* refuse, and a reader who got one version is never sent back to a draft
\* (immutable_published_content, enforce_content_availability_integrity).
PublishedIsFinal ==
    [][/\ \A r \in Items \X Versions: version[r].published => version'[r] = version[r]
       /\ \A i \in Items: shown[i] # 0 => shown'[i] # 0 /\ version'[<<i, shown'[i]>>].published]_vars

\* An answer that does not say it used unapproved content cites only versions
\* that were approved and published, whatever was edited or published while
\* the model was writing it (assist).
AnswersAreApproved ==
    answer.asked /\ ~answer.usesPilot => \A r \in answer.known: version[r].published

\* Refuted (content_current.cfg): the comment of current_version_id says it is
\* the latest version, but publishing an older one moves it back.
CurrentIsLatest ==
    \A i \in Items: \A v \in Versions: version[<<i, v>>].review # "none" => v <= current[i]

\* Refuted (content_stale_batch.cfg): whoever decides about a batch whose
\* versions changed is told to make it again, but the batch stays open and
\* the index refuses another one.
ToldBatchIsClosed ==
    [][\A m \in Members, b \in Batches: DecideStaleBatch(m, b) => batch'[b].status # "in_review"]_vars
=============================================================================
