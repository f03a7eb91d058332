--------------------------- MODULE ApprovalProofs ---------------------------
(***************************************************************************)
(* What people approve and confirm: the contents of ContentApproval, for   *)
(* any number of members, contents, versions and batches and any set of    *)
(* roles given to them; then the texts of ConfirmedTexts, for any number   *)
(* of documents, jobs and chunks.                                          *)
(***************************************************************************)
EXTENDS ContentApproval, ConfirmedTexts, FiniteSetTheorems, TLAPS

USE ContentApprovalAssumption, MembershipsAssumption
    DEF ContentApprovalAssumption, MembershipsAssumption, itemVars, memberVars

(***************************************************************************)
(* Versions.  A row that is approved was approved by somebody else, unless *)
(* its publication needed no approval; an imported row that is not         *)
(* approved says so.                                                       *)
(***************************************************************************)
Row(r) ==
    /\ version[r] \in VersionRows
    /\ version[r].published => version[r].review = "approved"
    /\ r \in waived => version[r].published
    /\ version[r].review = "approved" /\ r \notin waived =>
           version[r].approver # Nobody /\ version[r].approver # version[r].author

ImportedRow(i) ==
    /\ current[i] # 0
    /\ <<i, 1>> \notin waived
    /\ version[<<i, 1>>].review # "approved" => version[<<i, 1>>].extracted

Item(i) ==
    /\ current[i] = 0 => \A v \in Versions: version[<<i, v>>].review = "none"
    /\ shown[i] # 0 => shown[i] \in Versions /\ version[<<i, shown[i]>>].published

Rows ==
    /\ version \in [Items \X Versions -> VersionRows]
    /\ {current, shown} \subseteq [Items -> 0..MaxVersions]
    /\ waived \subseteq Items \X Versions
    /\ \A r \in Items \X Versions: Row(r)
    /\ \A i \in Imported: ImportedRow(i)
    /\ \A i \in Items: Item(i)

LEMMA RowsInit == Init => Rows
<1> SUFFICES ASSUME Init PROVE Rows
  OBVIOUS
<1> DEFINE old == [NewVersion(Nobody) EXCEPT !.extracted = TRUE]
<1>1. NoVersion \in VersionRows /\ NoVersion.review = "none" /\ NoVersion.published = FALSE
  BY DEF NoVersion, VersionRows, ReviewStatus
<1>2. old \in VersionRows /\ old.review = "draft" /\ old.published = FALSE /\ old.extracted
  BY DEF NewVersion, NoVersion, VersionRows, ReviewStatus
<1>3. version = [r \in Items \X Versions |-> IF r[1] \in Imported /\ r[2] = 1 THEN old ELSE NoVersion]
  BY DEF Init
<1> HIDE DEF old
<1>4. \A r \in Items \X Versions: Row(r)
  BY <1>1, <1>2, <1>3 DEF Row, Init
<1>5. \A i \in Imported: ImportedRow(i)
  BY <1>2, <1>3 DEF Init, ImportedRow, Versions
<1>6. \A i \in Items: Item(i)
  <2>1. ASSUME NEW i \in Items, current[i] = 0, NEW v \in Versions PROVE version[<<i, v>>].review = "none"
    BY <1>1, <1>3, <2>1 DEF Init
  <2> QED
    BY <2>1 DEF Init, Item
<1>7. version \in [Items \X Versions -> VersionRows]
  BY <1>1, <1>2, <1>3
<1>8. current \in [Items -> 0..MaxVersions] /\ shown \in [Items -> 0..MaxVersions] /\ waived = {}
  BY DEF Init
<1> QED
  BY <1>4, <1>5, <1>6, <1>7, <1>8 DEF Rows

\* A step that writes one row which was not published.
Writes(r, new) ==
    /\ version' = [version EXCEPT ![r] = new]
    /\ new \in VersionRows
    /\ new.published => new.review = "approved"
    /\ ~version[r].published

LEMMA RowsWritten ==
    ASSUME Rows, NEW r \in Items \X Versions, NEW new, Writes(r, new),
           UNCHANGED <<waived, shown>>, current' \in [Items -> 0..MaxVersions],
           \A i \in Items: current'[i] = 0 => current[i] = 0 /\ i # r[1],
           new.review = "approved" => new.approver # Nobody /\ new.approver # new.author,
           r[1] \in Imported /\ r[2] = 1 /\ new.review # "approved" => new.extracted
    PROVE Rows'
<1>1. \A q \in Items \X Versions: version'[q] = IF q = r THEN new ELSE version[q]
  BY DEF Writes, Rows
<1>2. \A q \in Items \X Versions: Row(q)'
  BY <1>1 DEF Writes, Rows, Row
<1>3. \A i \in Imported: ImportedRow(i)'
  <2>1. ASSUME NEW i \in Imported PROVE ImportedRow(i)'
    <3>1. <<i, 1>> \in Items \X Versions
      BY DEF Versions
    <3>2. ImportedRow(i)
      BY DEF Rows
    <3> QED
      BY <1>1, <3>1, <3>2 DEF ImportedRow, Rows
  <2> QED
    BY <2>1
<1>4. \A i \in Items: Item(i)'
  <2>1. ASSUME NEW i \in Items PROVE Item(i)'
    <3>1. Item(i)
      BY DEF Rows
    <3>2. ASSUME current'[i] = 0, NEW v \in Versions PROVE version'[<<i, v>>].review = "none"
      BY <1>1, <3>1, <3>2 DEF Item
    <3>3. shown'[i] # 0 => shown'[i] \in Versions /\ version'[<<i, shown'[i]>>].published
      BY <1>1, <3>1 DEF Item, Writes
    <3> QED
      BY <3>2, <3>3 DEF Item
  <2> QED
    BY <2>1
<1>5. version' \in [Items \X Versions -> VersionRows]
  BY DEF Rows, Writes
<1> QED
  BY <1>2, <1>3, <1>4, <1>5 DEF Rows

LEMMA NewVersionRow ==
    ASSUME NEW m \in Members
    PROVE /\ NewVersion(m) \in VersionRows
          /\ NewVersion(m).review = "draft"
          /\ NewVersion(m).published = FALSE
  BY DEF NewVersion, NoVersion, VersionRows, ReviewStatus

LEMMA RowsCreate ==
    ASSUME Rows, NEW m \in Members, NEW i \in Items, CreateContent(m, i) PROVE Rows'
<1>1. <<i, 1>> \in Items \X Versions /\ Item(i) /\ Row(<<i, 1>>)
  BY DEF Versions, Rows
<1>2. /\ current[i] = 0 /\ current' = [current EXCEPT ![i] = 1] /\ UNCHANGED <<waived, shown>>
      /\ version' = [version EXCEPT ![<<i, 1>>] = NewVersion(m)]
  BY DEF CreateContent
<1>3. ~version[<<i, 1>>].published /\ i \notin Imported
  BY <1>1, <1>2 DEF Item, Row, Versions, Rows, ImportedRow
<1>4. Writes(<<i, 1>>, NewVersion(m))
  BY <1>2, <1>3, NewVersionRow DEF Writes
<1>5. current' \in [Items -> 0..MaxVersions] /\ \A j \in Items: current'[j] = 0 => current[j] = 0 /\ j # i
  BY <1>2 DEF Rows
<1> QED
  BY <1>1, <1>2, <1>3, <1>4, <1>5, NewVersionRow, RowsWritten

LEMMA RowsUpdate ==
    ASSUME Rows, NEW m \in Members, NEW i \in Items, UpdateContent(m, i) PROVE Rows'
<1> DEFINE next == current[i] + 1
<1>1. /\ current[i] # 0 /\ next \in Versions /\ version[<<i, next>>].review = "none"
      /\ current' = [current EXCEPT ![i] = next] /\ UNCHANGED <<waived, shown>>
      /\ version' = [version EXCEPT ![<<i, next>>] = NewVersion(m)]
  BY DEF UpdateContent
<1>2. current[i] \in 0..MaxVersions
  BY DEF Rows
<1>3. next # 1 /\ next # 0
  BY <1>1, <1>2
<1> HIDE DEF next
<1>4. <<i, next>> \in Items \X Versions /\ Row(<<i, next>>)
  BY <1>1 DEF Rows
<1>5. Writes(<<i, next>>, NewVersion(m))
  BY <1>1, <1>4, NewVersionRow DEF Writes, Row
<1>6. current' \in [Items -> 0..MaxVersions] /\ \A j \in Items: current'[j] = 0 => current[j] = 0 /\ j # i
  BY <1>1, <1>3 DEF Rows, Versions
<1> QED
  BY <1>1, <1>3, <1>4, <1>5, <1>6, NewVersionRow, RowsWritten

LEMMA RowsSubmit ==
    ASSUME Rows, NEW m \in Members, NEW i \in Items, NEW v \in Versions, SubmitVersion(m, i, v)
    PROVE Rows'
<1> DEFINE r == <<i, v>>
           new == [version[r] EXCEPT !.review = "in_review"]
<1>1. r \in Items \X Versions /\ version[r] \in VersionRows /\ Row(r)
  BY DEF Rows
<1>2. /\ version[r].review # "approved" /\ ~version[r].published
      /\ version' = [version EXCEPT ![r] = new] /\ UNCHANGED <<waived, shown, current>>
  BY DEF SubmitVersion, NeedsApproval, Unpublished
<1>3. ASSUME NEW old \in VersionRows
      PROVE LET x == [old EXCEPT !.review = "in_review"] IN
            /\ x \in VersionRows /\ x.review = "in_review"
            /\ x.published = old.published /\ x.extracted = old.extracted
  BY DEF VersionRows, ReviewStatus
<1>4. /\ new \in VersionRows /\ new.review = "in_review"
      /\ new.published = version[r].published /\ new.extracted = version[r].extracted
  BY <1>1, <1>3
<1>5. i \in Imported /\ v = 1 => version[r].extracted
  BY <1>2 DEF Rows, ImportedRow
<1>6. current' \in [Items -> 0..MaxVersions]
      /\ \A j \in Items: current'[j] = 0 => current[j] = 0 /\ j # i
  <2>1. current[i] # 0
    BY <1>1 DEF SubmitVersion, Unpublished, Rows, Item
  <2> QED
    BY <1>2, <2>1 DEF Rows
<1> HIDE DEF new
<1>7. Writes(r, new)
  BY <1>2, <1>4 DEF Writes
<1> QED
  BY <1>1, <1>2, <1>4, <1>5, <1>6, <1>7, RowsWritten

LEMMA RowsDecide ==
    ASSUME Rows, NEW m \in Members, NEW i \in Items, NEW v \in Versions, NEW approved \in BOOLEAN,
           DecideApproval(m, i, v, approved)
    PROVE Rows'
<1> DEFINE r == <<i, v>>
           new == [version[r] EXCEPT !.review = IF approved THEN "approved" ELSE "rejected",
                                     !.approver = IF approved THEN m ELSE Nobody,
                                     !.extracted = version[r].extracted /\ ~approved]
<1>1. r \in Items \X Versions /\ version[r] \in VersionRows /\ Row(r)
  BY DEF Rows
<1>2. /\ version[r].review = "in_review"
      /\ approved => version[r].author # m
      /\ version' = [version EXCEPT ![r] = new]
      /\ UNCHANGED <<waived, shown, current>>
  <2>1. version' = [version EXCEPT ![r] = new]
    BY DEF DecideApproval
  <2>2. /\ version[r].review = "in_review"
        /\ approved => version[r].author # m
        /\ UNCHANGED <<waived, shown, current>>
    BY DEF DecideApproval, Decidable
  <2> QED
    BY <2>1, <2>2
<1>3. ASSUME NEW old \in VersionRows
      PROVE LET x == [old EXCEPT !.review = IF approved THEN "approved" ELSE "rejected",
                                 !.approver = IF approved THEN m ELSE Nobody,
                                 !.extracted = old.extracted /\ ~approved] IN
            /\ x \in VersionRows /\ x.published = old.published /\ x.author = old.author
            /\ x.review = IF approved THEN "approved" ELSE "rejected"
            /\ x.approver = IF approved THEN m ELSE Nobody
            /\ ~approved => x.extracted = old.extracted
  BY DEF VersionRows, ReviewStatus
<1>4. /\ new \in VersionRows /\ new.published = version[r].published /\ new.author = version[r].author
      /\ new.review = IF approved THEN "approved" ELSE "rejected"
      /\ new.approver = IF approved THEN m ELSE Nobody
      /\ ~approved => new.extracted = version[r].extracted
  BY <1>1, <1>3
<1>5. i \in Imported /\ v = 1 => version[r].extracted
  BY <1>2 DEF Rows, ImportedRow
<1>6. current' \in [Items -> 0..MaxVersions]
      /\ \A j \in Items: current'[j] = 0 => current[j] = 0 /\ j # i
  <2>1. current[i] # 0
    BY <1>1, <1>2 DEF Rows, Item
  <2> QED
    BY <1>2, <2>1 DEF Rows
<1> HIDE DEF new
<1>7. Writes(r, new)
  BY <1>1, <1>2, <1>4 DEF Writes, Row
<1>8. new.review = "approved" => new.approver # Nobody /\ new.approver # new.author
  BY <1>2, <1>4
<1> QED
  BY <1>1, <1>2, <1>4, <1>5, <1>6, <1>7, <1>8, RowsWritten

LEMMA RowsPublish ==
    ASSUME Rows, NEW m \in Members, NEW i \in Items, NEW v \in Versions, PublishVersion(m, i, v)
    PROVE Rows'
<1> DEFINE r == <<i, v>>
           old == version[r]
           new == [old EXCEPT !.review = "approved", !.published = TRUE,
                              !.approver = IF old.approver = Nobody THEN m ELSE old.approver]
<1>1. r \in Items \X Versions /\ old \in VersionRows /\ Row(r)
  BY DEF Rows
<1>2. /\ version' = [version EXCEPT ![r] = new]
      /\ current' = [current EXCEPT ![i] = v]
      /\ shown' = [shown EXCEPT ![i] = v]
      /\ waived' = IF old.review = "approved" THEN waived ELSE waived \cup {r}
  BY DEF PublishVersion
<1>3. ~old.published /\ (old.review # "approved" => ~old.extracted)
  BY DEF PublishVersion, Unpublished, NeedsApproval
<1>4. ASSUME NEW x \in VersionRows
      PROVE LET y == [x EXCEPT !.review = "approved", !.published = TRUE,
                               !.approver = IF x.approver = Nobody THEN m ELSE x.approver] IN
            /\ y \in VersionRows /\ y.published /\ y.author = x.author /\ y.review = "approved"
            /\ x.approver # Nobody => y.approver = x.approver
  BY DEF VersionRows, ReviewStatus
<1>5. /\ new \in VersionRows /\ new.published /\ new.author = old.author /\ new.review = "approved"
      /\ old.approver # Nobody => new.approver = old.approver
  BY <1>1, <1>4
<1> HIDE DEF new, r
<1>6. \A q \in Items \X Versions: version'[q] = IF q = r THEN new ELSE version[q]
  BY <1>2 DEF Rows
<1>7. \A q \in Items \X Versions: Row(q)'
  <2>1. Row(r)'
    BY <1>1, <1>2, <1>3, <1>5, <1>6 DEF Row
  <2>2. ASSUME NEW q \in Items \X Versions, q # r PROVE Row(q)'
    BY <1>2, <1>6, <2>2 DEF Row, Rows
  <2> QED
    BY <2>1, <2>2
<1>8. \A j \in Imported: ImportedRow(j)'
  <2>1. ASSUME NEW j \in Imported PROVE ImportedRow(j)'
    <3>1. <<j, 1>> \in Items \X Versions
      BY DEF Versions
    <3>2. ImportedRow(j) /\ j \in Items
      BY DEF Rows
    <3>3. current'[j] # 0
      BY <1>2, <3>2 DEF ImportedRow, Rows, Versions
    <3>4. <<j, 1>> \notin waived'
      BY <1>2, <1>3, <3>2 DEF ImportedRow
    <3>5. version'[<<j, 1>>].review # "approved" => version'[<<j, 1>>].extracted
      BY <1>5, <1>6, <3>1, <3>2 DEF ImportedRow
    <3> QED
      BY <3>3, <3>4, <3>5 DEF ImportedRow
  <2> QED
    BY <2>1
<1>9. \A j \in Items: Item(j)'
  <2>1. ASSUME NEW j \in Items PROVE Item(j)'
    <3>1. Item(j) /\ Row(r)
      BY <1>1 DEF Rows
    <3>2. CASE j = i
      BY <1>1, <1>2, <1>5, <1>6, <3>2 DEF Item, Rows, Versions, r
    <3>3. CASE j # i
      <4>1. \A w \in Versions: version'[<<j, w>>] = version[<<j, w>>]
        BY <1>6, <3>3 DEF r
      <4> QED
        BY <1>2, <3>1, <3>3, <4>1 DEF Item, Rows
    <3> QED
      BY <3>2, <3>3
  <2> QED
    BY <2>1
<1>10. /\ version' \in [Items \X Versions -> VersionRows]
       /\ current' \in [Items -> 0..MaxVersions] /\ shown' \in [Items -> 0..MaxVersions]
       /\ waived' \subseteq Items \X Versions
  BY <1>1, <1>2, <1>5 DEF Rows, Versions
<1> QED
  BY <1>7, <1>8, <1>9, <1>10 DEF Rows

(***************************************************************************)
(* Batches.  Who approved is kept with what was frozen; a batch that took  *)
(* effect has its versions published.                                      *)
(***************************************************************************)
Taken(b) ==
    /\ \A r \in batch[b].items: version[r].published /\ version[r].approver \in batch[b].approvals
    /\ Cardinality(batch[b].approvals) >= Required

BatchRow(b) ==
    /\ batch[b].submitter \notin batch[b].approvals
    /\ batch[b].status = "approved" => Taken(b)

Frozen ==
    /\ batch \in [Batches -> BatchRows]
    /\ \A b \in Batches: BatchRow(b)

LEMMA RowsPublishBatch ==
    ASSUME Rows, Frozen, NEW m \in Members, NEW b \in Batches, PublishBatch(m, b)
    PROVE Rows'
<1> DEFINE items == batch[b].items
           frozen(i) == (CHOOSE r \in items: r[1] = i)[2]
           moves(i) == \E r \in items: r[1] = i
           new(r) == [version[r] EXCEPT !.review = "approved", !.approver = m, !.published = TRUE,
                                        !.extracted = FALSE]
<1>1. items \subseteq Items \X Versions
  BY DEF Frozen, BatchRows
<1>2. /\ \A r \in items: current[r[1]] = r[2] /\ version[r].review = "draft"
      /\ \A r \in items: version[r].author # m
  BY DEF PublishBatch, Intact, MayDecide
<1>3. /\ version' = [r \in Items \X Versions |-> IF r \in items THEN new(r) ELSE version[r]]
      /\ current' = [i \in Items |-> IF moves(i) THEN frozen(i) ELSE current[i]]
      /\ shown' = [i \in Items |-> IF moves(i) THEN frozen(i) ELSE shown[i]]
      /\ waived' = waived
  BY DEF PublishBatch
<1>4. ASSUME NEW x \in VersionRows
      PROVE LET y == [x EXCEPT !.review = "approved", !.approver = m, !.published = TRUE,
                               !.extracted = FALSE] IN
            /\ y \in VersionRows /\ y.published /\ y.author = x.author /\ y.review = "approved"
            /\ y.approver = m
  BY DEF VersionRows, ReviewStatus
<1>5. \A r \in items: /\ new(r) \in VersionRows /\ new(r).published /\ new(r).review = "approved"
                       /\ new(r).author = version[r].author /\ new(r).approver = m
  BY <1>1, <1>4 DEF Rows
<1> HIDE DEF new
<1>6. \A i \in Items: moves(i) => frozen(i) = current[i] /\ <<i, current[i]>> \in items
  <2>1. ASSUME NEW i \in Items, moves(i) PROVE frozen(i) = current[i] /\ <<i, current[i]>> \in items
    <3>1. PICK r \in items: r[1] = i
      BY <2>1
    <3>2. (CHOOSE q \in items: q[1] = i) \in items /\ (CHOOSE q \in items: q[1] = i)[1] = i
      BY <3>1
    <3>3. r = <<i, current[i]>>
      BY <1>1, <1>2, <3>1
    <3> QED
      BY <1>2, <3>1, <3>2, <3>3
  <2> QED
    BY <2>1
<1> HIDE DEF items, frozen, moves
<1>7. /\ \A i \in Items: current'[i] = current[i]
      /\ \A i \in Items: shown'[i] = IF moves(i) THEN current[i] ELSE shown[i]
      /\ \A i \in Items: moves(i) => <<i, current[i]>> \in items /\ current[i] \in Versions
  BY <1>1, <1>3, <1>6
<1>8. \A q \in Items \X Versions: version'[q] = IF q \in items THEN new(q) ELSE version[q]
  BY <1>3
<1>9. \A q \in Items \X Versions: Row(q)'
  BY <1>2, <1>3, <1>5, <1>8 DEF Row, Rows
<1>10. \A i \in Imported: ImportedRow(i)'
  <2>1. ASSUME NEW i \in Imported PROVE ImportedRow(i)'
    <3>1. <<i, 1>> \in Items \X Versions /\ ImportedRow(i) /\ i \in Items
      BY DEF Versions, Rows
    <3> QED
      BY <1>3, <1>5, <1>7, <1>8, <3>1 DEF ImportedRow
  <2> QED
    BY <2>1
<1>11. \A i \in Items: Item(i)'
  <2>1. ASSUME NEW i \in Items PROVE Item(i)'
    <3>1. Item(i)
      BY DEF Rows
    <3>2. CASE moves(i)
      BY <1>5, <1>7, <1>8, <3>2 DEF Item, Versions
    <3>3. CASE ~moves(i)
      <4>1. current[i] = 0 => \A v \in Versions: <<i, v>> \notin items
        BY <1>1, <1>2 DEF Versions
      <4> QED
        BY <1>5, <1>7, <1>8, <3>1, <3>3, <4>1 DEF Item
    <3> QED
      BY <3>2, <3>3
  <2> QED
    BY <2>1
<1>12. /\ version' \in [Items \X Versions -> VersionRows]
       /\ current' \in [Items -> 0..MaxVersions] /\ shown' \in [Items -> 0..MaxVersions]
  BY <1>3, <1>5, <1>6, <1>7 DEF Rows, Versions
<1> QED
  BY <1>3, <1>9, <1>10, <1>11, <1>12 DEF Rows

LEMMA RowsRejectBatch ==
    ASSUME Rows, Frozen, NEW m \in Members, NEW b \in Batches, RejectBatch(m, b)
    PROVE Rows'
<1> DEFINE items == batch[b].items
           new(r) == [version[r] EXCEPT !.review = "rejected"]
<1>1. items \subseteq Items \X Versions
  BY DEF Frozen, BatchRows
<1>2. \A r \in items: current[r[1]] = r[2] /\ version[r].review = "draft"
  BY DEF RejectBatch, Intact
<1>3. /\ version' = [r \in Items \X Versions |-> IF r \in items THEN new(r) ELSE version[r]]
      /\ UNCHANGED <<current, shown, waived>>
  BY DEF RejectBatch
<1>4. ASSUME NEW x \in VersionRows
      PROVE LET y == [x EXCEPT !.review = "rejected"] IN
            /\ y \in VersionRows /\ y.published = x.published /\ y.review = "rejected"
            /\ y.extracted = x.extracted
  BY DEF VersionRows, ReviewStatus
<1>5. \A r \in items: /\ new(r) \in VersionRows /\ new(r).review = "rejected"
                       /\ new(r).published = version[r].published
                       /\ new(r).extracted = version[r].extracted
  BY <1>1, <1>4 DEF Rows
<1> HIDE DEF new, items
<1>6. \A q \in Items \X Versions: version'[q] = IF q \in items THEN new(q) ELSE version[q]
  BY <1>3
<1>7. \A q \in Items \X Versions: Row(q)'
  BY <1>2, <1>3, <1>5, <1>6 DEF Row, Rows
<1>8. \A i \in Imported: ImportedRow(i)'
  <2>1. ASSUME NEW i \in Imported PROVE ImportedRow(i)'
    <3>1. <<i, 1>> \in Items \X Versions /\ ImportedRow(i)
      BY DEF Versions, Rows
    <3> QED
      BY <1>2, <1>3, <1>5, <1>6, <3>1 DEF ImportedRow
  <2> QED
    BY <2>1
<1>9. \A i \in Items: Item(i)'
  <2>1. ASSUME NEW i \in Items PROVE Item(i)'
    <3>1. Item(i)
      BY DEF Rows
    <3>2. current[i] = 0 => \A v \in Versions: <<i, v>> \notin items
      BY <1>1, <1>2 DEF Versions
    <3>3. \A v \in Versions: version'[<<i, v>>].published = version[<<i, v>>].published
      BY <1>5, <1>6
    <3> QED
      BY <1>3, <1>6, <3>1, <3>2, <3>3 DEF Item
  <2> QED
    BY <2>1
<1>10. version' \in [Items \X Versions -> VersionRows]
  BY <1>3, <1>5 DEF Rows
<1> QED
  BY <1>3, <1>7, <1>8, <1>9, <1>10 DEF Rows

(***************************************************************************)
(* What every step keeps of published versions.                            *)
(***************************************************************************)
Final ==
    /\ \A r \in Items \X Versions: version[r].published => version'[r] = version[r]
    /\ \A i \in Items: shown[i] # 0 => shown'[i] # 0 /\ version'[<<i, shown'[i]>>].published

LEMMA UnchangedItems ==
    ASSUME Rows, UNCHANGED itemVars PROVE Rows' /\ Final
<1>1. Rows'
  BY DEF Rows, Row, ImportedRow, Item
<1>2. Final
  BY DEF Rows, Item, Final
<1> QED
  BY <1>1, <1>2

\* A version that was not published is rewritten, and no pointer is lost.
LEMMA FinalWritten ==
    ASSUME Rows, NEW r \in Items \X Versions, NEW new, ~version[r].published,
           version' = [version EXCEPT ![r] = new],
           \A i \in Items: shown'[i] = shown[i] \/ (<<i, shown'[i]>> = r /\ shown'[i] # 0 /\ new.published)
    PROVE Final
<1>1. \A q \in Items \X Versions: version'[q] = IF q = r THEN new ELSE version[q]
  BY DEF Rows
<1>2. ASSUME NEW i \in Items, shown[i] # 0
      PROVE shown'[i] # 0 /\ version'[<<i, shown'[i]>>].published
  <2>1. shown[i] \in Versions /\ version[<<i, shown[i]>>].published
    BY <1>2 DEF Rows, Item
  <2> QED
    BY <1>1, <1>2, <2>1
<1> QED
  BY <1>1, <1>2 DEF Final

LEMMA VersionStepsKeep ==
    ASSUME Rows, VersionSteps PROVE Rows' /\ Final /\ batch' = batch /\ UNCHANGED <<answer>>
<1>1. PICK m \in Members, i \in Items:
        \/ CreateContent(m, i) \/ UpdateContent(m, i)
        \/ \E v \in Versions:
              \/ SubmitVersion(m, i, v) \/ PublishVersion(m, i, v)
              \/ \E approved \in BOOLEAN: DecideApproval(m, i, v, approved)
  BY DEF VersionSteps
<1>2. CASE CreateContent(m, i)
  <2>1. <<i, 1>> \in Items \X Versions /\ Item(i) /\ Row(<<i, 1>>)
    BY DEF Versions, Rows
  <2>2. /\ version' = [version EXCEPT ![<<i, 1>>] = NewVersion(m)] /\ UNCHANGED <<shown, batch, answer>>
        /\ current[i] = 0
    BY <1>2 DEF CreateContent
  <2>3. ~version[<<i, 1>>].published
    BY <2>1, <2>2 DEF Item, Row, Versions
  <2> QED
    BY <1>2, <2>1, <2>2, <2>3, RowsCreate, FinalWritten
<1>3. CASE UpdateContent(m, i)
  <2> DEFINE next == current[i] + 1
  <2>1. /\ next \in Versions /\ version[<<i, next>>].review = "none"
        /\ version' = [version EXCEPT ![<<i, next>>] = NewVersion(m)] /\ UNCHANGED <<shown, batch, answer>>
    BY <1>3 DEF UpdateContent
  <2> HIDE DEF next
  <2>2. <<i, next>> \in Items \X Versions /\ Row(<<i, next>>)
    BY <2>1 DEF Rows
  <2>3. ~version[<<i, next>>].published
    BY <2>1, <2>2 DEF Row
  <2> QED
    BY <1>3, <2>1, <2>2, <2>3, RowsUpdate, FinalWritten
<1>4. ASSUME NEW v \in Versions, SubmitVersion(m, i, v) PROVE Rows' /\ Final /\ UNCHANGED <<batch, answer>>
  <2> DEFINE new == [version[<<i, v>>] EXCEPT !.review = "in_review"]
  <2>1. /\ ~version[<<i, v>>].published /\ UNCHANGED <<shown, batch, answer>>
        /\ version' = [version EXCEPT ![<<i, v>>] = new]
    BY <1>4 DEF SubmitVersion, Unpublished
  <2> HIDE DEF new
  <2> QED
    BY <1>4, <2>1, RowsSubmit, FinalWritten
<1>5. ASSUME NEW v \in Versions, PublishVersion(m, i, v) PROVE Rows' /\ Final /\ UNCHANGED <<batch, answer>>
  <2> DEFINE old == version[<<i, v>>]
             new == [old EXCEPT !.review = "approved", !.published = TRUE,
                                !.approver = IF old.approver = Nobody THEN m ELSE old.approver]
  <2>1. /\ ~version[<<i, v>>].published /\ shown' = [shown EXCEPT ![i] = v] /\ UNCHANGED <<batch, answer>>
        /\ version' = [version EXCEPT ![<<i, v>>] = new]
    BY <1>5 DEF PublishVersion, Unpublished
  <2>2. new.published
    BY DEF Rows, VersionRows
  <2> HIDE DEF new, old
  <2>3. \A j \in Items: shown'[j] = shown[j]
                          \/ (<<j, shown'[j]>> = <<i, v>> /\ shown'[j] # 0 /\ new.published)
    BY <2>1, <2>2 DEF Rows, Versions
  <2> QED
    BY <1>5, <2>1, <2>3, RowsPublish, FinalWritten
<1>6. ASSUME NEW v \in Versions, NEW approved \in BOOLEAN, DecideApproval(m, i, v, approved)
      PROVE Rows' /\ Final /\ UNCHANGED <<batch, answer>>
  <2> DEFINE old == version[<<i, v>>]
             new == [old EXCEPT !.review = IF approved THEN "approved" ELSE "rejected",
                                !.approver = IF approved THEN m ELSE Nobody,
                                !.extracted = old.extracted /\ ~approved]
  <2>1. /\ version' = [version EXCEPT ![<<i, v>>] = new]
        /\ UNCHANGED <<shown, batch, answer>>
    BY <1>6 DEF DecideApproval
  <2>2. version[<<i, v>>].review = "in_review" /\ Row(<<i, v>>)
    BY <1>6 DEF DecideApproval, Decidable, Rows
  <2>3. ~version[<<i, v>>].published
    BY <2>2 DEF Row
  <2> HIDE DEF new, old
  <2> QED
    BY <1>6, <2>1, <2>3, RowsDecide, FinalWritten
<1> QED
  BY <1>1, <1>2, <1>3, <1>4, <1>5, <1>6

\* Deciding about a batch rewrites drafts, and drafts are not published.
LEMMA FinalBatch ==
    ASSUME Rows, NEW items \in SUBSET (Items \X Versions),
           \A r \in items: version[r].review = "draft" /\ current[r[1]] = r[2],
           \A r \in Items \X Versions: r \notin items => version'[r] = version[r],
           \A i \in Items: shown'[i] = shown[i]
                            \/ (<<i, shown'[i]>> \in items /\ version'[<<i, shown'[i]>>].published)
    PROVE Final
<1>1. \A r \in Items \X Versions: version[r].published => version'[r] = version[r]
  BY DEF Rows, Row
<1>2. ASSUME NEW i \in Items, shown[i] # 0
      PROVE shown'[i] # 0 /\ version'[<<i, shown'[i]>>].published
  <2>1. shown[i] \in Versions /\ version[<<i, shown[i]>>].published
    BY <1>2 DEF Rows, Item
  <2>2. CASE shown'[i] = shown[i]
    BY <1>1, <1>2, <2>1, <2>2
  <2>3. CASE <<i, shown'[i]>> \in items /\ version'[<<i, shown'[i]>>].published
    BY <2>3 DEF Versions
  <2> QED
    BY <2>2, <2>3
<1> QED
  BY <1>1, <1>2 DEF Final

-----------------------------------------------------------------------------
LEMMA FrozenInit == Init => Frozen
<1>1. NoBatch \in BatchRows /\ NoBatch.submitter \notin NoBatch.approvals /\ NoBatch.status = "none"
  BY DEF NoBatch, BatchRows
<1> QED
  BY <1>1 DEF Init, Frozen, BatchRow

\* Batches that a step leaves alone: what they published is final.
LEMMA FrozenKept ==
    ASSUME Frozen, Final, NEW b \in Batches, batch'[b] = batch[b] PROVE BatchRow(b)'
<1>1. batch[b].items \subseteq Items \X Versions /\ BatchRow(b)
  BY DEF Frozen, BatchRows
<1> QED
  BY <1>1 DEF BatchRow, Taken, Final

\* A step that rewrites the row of one batch.
LEMMA FrozenWritten ==
    ASSUME Frozen, Final, NEW b \in Batches, NEW new \in BatchRows, batch' = [batch EXCEPT ![b] = new],
           new.submitter \notin new.approvals, new.status = "approved" => Taken(b)'
    PROVE Frozen'
<1>1. batch'[b] = new /\ \A c \in Batches: c # b => batch'[c] = batch[c]
  BY DEF Frozen
<1>2. \A c \in Batches: BatchRow(c)'
  BY <1>1, FrozenKept DEF BatchRow
<1> QED
  BY <1>2 DEF Frozen

LEMMA BatchStepsKeep ==
    ASSUME Rows, Frozen, BatchSteps PROVE Rows' /\ Frozen' /\ Final /\ UNCHANGED <<answer>>
<1>1. PICK m \in Members, b \in Batches:
        \/ CreateBatch(m, b) \/ DecideStaleBatch(m, b)
        \/ ApproveBatch(m, b) \/ PublishBatch(m, b) \/ RejectBatch(m, b)
  BY DEF BatchSteps
<1> DEFINE row == batch[b]
<1>2. row \in BatchRows /\ row.items \in SUBSET (Items \X Versions) /\ BatchRow(b)
  BY DEF Frozen, BatchRows
<1> HIDE DEF row
<1>3. CASE CreateBatch(m, b)
  <2> DEFINE items == {<<i, current[i]>> : i \in {j \in Items: Eligible(j)}}
             new == [NoBatch EXCEPT !.status = "in_review", !.submitter = m, !.items = items]
  <2>1. items \subseteq Items \X Versions
    <3>1. ASSUME NEW i \in Items, Eligible(i) PROVE current[i] \in Versions
      <4>1. ImportedRow(i) /\ current[i] \in 0..MaxVersions
        BY <3>1 DEF Rows, Eligible
      <4> QED
        BY <4>1 DEF ImportedRow, Versions
    <3> QED
      BY <3>1
  <2>2. batch' = [batch EXCEPT ![b] = new] /\ UNCHANGED itemVars /\ UNCHANGED <<answer>>
    BY <1>3 DEF CreateBatch
  <2> HIDE DEF items
  <2>3. new \in BatchRows /\ new.submitter \notin new.approvals /\ new.status = "in_review"
    BY <2>1 DEF NoBatch, BatchRows
  <2> HIDE DEF new
  <2>4. Rows' /\ Final
    BY <2>2, UnchangedItems
  <2> QED
    BY <2>2, <2>3, <2>4, FrozenWritten
<1>4. CASE DecideStaleBatch(m, b)
  <2>1. UNCHANGED itemVars /\ UNCHANGED <<batch, answer>>
    BY <1>4 DEF DecideStaleBatch
  <2>2. Rows' /\ Final
    BY <2>1, UnchangedItems
  <2> QED
    BY <2>1, <2>2, FrozenKept DEF Frozen
<1>5. CASE ApproveBatch(m, b)
  <2> DEFINE new == [row EXCEPT !.approvals = row.approvals \cup {m}]
  <2>1. UNCHANGED itemVars /\ UNCHANGED <<answer>> /\ batch' = [batch EXCEPT ![b] = new]
    BY <1>5 DEF ApproveBatch, row
  <2>2. row.submitter # m /\ row.status = "in_review"
    BY <1>5 DEF ApproveBatch, MayDecide, Open, row
  <2>3. new \in BatchRows /\ new.submitter \notin new.approvals /\ new.status = "in_review"
    BY <1>2, <2>2 DEF BatchRows, BatchRow, row
  <2> HIDE DEF new
  <2>4. Rows' /\ Final
    BY <2>1, UnchangedItems
  <2> QED
    BY <2>1, <2>3, <2>4, FrozenWritten
<1>6. CASE PublishBatch(m, b)
  <2> DEFINE new == [row EXCEPT !.status = "approved", !.approvals = row.approvals \cup {m}]
             frozen(i) == (CHOOSE r \in row.items: r[1] = i)[2]
             moves(i) == \E r \in row.items: r[1] = i
             published(r) == [version[r] EXCEPT !.review = "approved", !.approver = m, !.published = TRUE,
                                                !.extracted = FALSE]
  <2>1. /\ batch' = [batch EXCEPT ![b] = new]
        /\ version' = [r \in Items \X Versions |-> IF r \in row.items THEN published(r) ELSE version[r]]
        /\ shown' = [i \in Items |-> IF moves(i) THEN frozen(i) ELSE shown[i]]
        /\ UNCHANGED <<answer>>
    BY <1>6 DEF PublishBatch, row
  <2>2. /\ row.submitter # m
        /\ \A r \in row.items: current[r[1]] = r[2] /\ version[r].review = "draft"
        /\ Enough(m, b)
    BY <1>6 DEF PublishBatch, MayDecide, Intact, row
  <2>3. /\ new \in BatchRows /\ new.submitter \notin new.approvals
        /\ new.items = row.items /\ new.approvals = row.approvals \cup {m}
    BY <1>2, <2>2 DEF BatchRows, BatchRow, row
  <2>4. \A r \in row.items: published(r).published /\ published(r).approver = m
    BY <1>2 DEF Rows, VersionRows
  <2> HIDE DEF published, new
  <2>5. \A r \in row.items: version'[r].published /\ version'[r].approver = m
    BY <1>2, <2>1, <2>4
  <2>6. batch'[b] = new
    BY <2>1 DEF Frozen
  <2>7. Taken(b)'
    BY <2>2, <2>3, <2>5, <2>6 DEF Taken, Enough, row
  <2>8. \A i \in Items: shown'[i] = shown[i]
                        \/ (<<i, shown'[i]>> \in row.items /\ version'[<<i, shown'[i]>>].published)
    <3>1. ASSUME NEW i \in Items, moves(i) PROVE <<i, frozen(i)>> \in row.items
      <4>1. (CHOOSE r \in row.items: r[1] = i) \in row.items /\ (CHOOSE r \in row.items: r[1] = i)[1] = i
        BY <3>1
      <4> QED
        BY <1>2, <4>1
    <3> HIDE DEF moves, frozen
    <3> QED
      BY <2>1, <2>5, <3>1
  <2>9. \A r \in Items \X Versions: r \notin row.items => version'[r] = version[r]
    BY <2>1
  <2>10. Final
    BY <1>2, <2>2, <2>8, <2>9, FinalBatch
  <2>11. Rows'
    BY <1>6, RowsPublishBatch
  <2> QED
    BY <2>1, <2>3, <2>7, <2>10, <2>11, FrozenWritten
<1>7. CASE RejectBatch(m, b)
  <2> DEFINE new == [row EXCEPT !.status = "rejected"]
             rejected(r) == [version[r] EXCEPT !.review = "rejected"]
  <2>1. /\ batch' = [batch EXCEPT ![b] = new]
        /\ version' = [r \in Items \X Versions |-> IF r \in row.items THEN rejected(r) ELSE version[r]]
        /\ UNCHANGED <<shown, answer>>
    BY <1>7 DEF RejectBatch, row
  <2>2. \A r \in row.items: current[r[1]] = r[2] /\ version[r].review = "draft"
    BY <1>7 DEF RejectBatch, Intact, row
  <2>3. new \in BatchRows /\ new.submitter \notin new.approvals /\ new.status = "rejected"
    BY <1>2 DEF BatchRows, BatchRow, row
  <2> HIDE DEF rejected, new
  <2>4. Final
    BY <1>2, <2>1, <2>2, FinalBatch
  <2>5. Rows'
    BY <1>7, RowsRejectBatch
  <2> QED
    BY <2>1, <2>3, <2>4, <2>5, FrozenWritten
<1> QED
  BY <1>1, <1>3, <1>4, <1>5, <1>6, <1>7

(***************************************************************************)
(* The answer being written: what it read as published stays published.    *)
(***************************************************************************)
Cited ==
    answer.asked /\ ~answer.usesPilot =>
        \A r \in answer.known: r \in Items \X Versions /\ version[r].published

LEMMA CitedKept == Cited /\ Final /\ answer' = answer => Cited'
  BY DEF Cited, Final

LEMMA CitedAsked == ASSUME Rows, AskAssistant PROVE Cited'
<1> DEFINE found == {i \in Items: Groundable(i)}
<1>1. /\ answer' = [asked |-> TRUE, known |-> {<<i, Pointer(i)>> : i \in found},
                    usesPilot |-> \E i \in found: shown[i] = 0]
      /\ UNCHANGED itemVars
  BY DEF AskAssistant
<1>2. answer'.known = {<<i, Pointer(i)>> : i \in found} /\ answer'.usesPilot = (\E i \in found: shown[i] = 0)
  BY <1>1
<1>3. ASSUME ~answer'.usesPilot, NEW r \in answer'.known PROVE r \in Items \X Versions /\ version[r].published
  <2>1. PICK i \in found: r = <<i, Pointer(i)>>
    BY <1>2, <1>3
  <2>2. shown[i] # 0 /\ i \in Items /\ Item(i)
    BY <1>2, <1>3 DEF Rows
  <2> QED
    BY <2>1, <2>2 DEF Pointer, Item
<1> QED
  BY <1>1, <1>3 DEF Cited

-----------------------------------------------------------------------------
IInv == Rows /\ Frozen /\ Cited

LEMMA StepsKeep == ASSUME IInv, [Next]_vars PROVE IInv' /\ Final
<1> USE DEF IInv
<1>1. ASSUME UNCHANGED itemVars, UNCHANGED <<batch>>, answer' = answer \/ Cited' PROVE IInv' /\ Final
  <2>1. Rows' /\ Final
    BY <1>1, UnchangedItems
  <2>2. Frozen'
    BY <1>1, <2>1, FrozenKept DEF Frozen
  <2> QED
    BY <1>1, <2>1, <2>2, CitedKept
<1>2. CASE VersionSteps
  <2>1. Rows' /\ Final /\ UNCHANGED <<batch, answer>>
    BY <1>2, VersionStepsKeep
  <2> QED
    BY <2>1, FrozenKept, CitedKept DEF Frozen
<1>3. CASE BatchSteps
  <2>1. Rows' /\ Frozen' /\ Final /\ UNCHANGED <<answer>>
    BY <1>3, BatchStepsKeep
  <2> QED
    BY <2>1, CitedKept
<1>4. CASE MemberSteps /\ UNCHANGED <<itemVars, batch, gated, pilot, answer>>
  BY <1>1, <1>4
<1>5. CASE AskAssistant
  <2>1. UNCHANGED itemVars /\ UNCHANGED <<batch>>
    BY <1>5 DEF AskAssistant
  <2> QED
    BY <1>1, <1>5, <2>1, CitedAsked
<1>6. CASE GiveAnswer
  <2>1. UNCHANGED itemVars /\ UNCHANGED <<batch>> /\ answer' = NoAnswer
    BY <1>6 DEF GiveAnswer
  <2>2. Cited'
    BY <2>1 DEF Cited, NoAnswer
  <2> QED
    BY <1>1, <2>1, <2>2
<1>7. ASSUME NEW g \in BOOLEAN, NEW p \in BOOLEAN, SetFlag(g, p) PROVE IInv' /\ Final
  <2>1. UNCHANGED itemVars /\ UNCHANGED <<batch, answer>>
    BY <1>7 DEF SetFlag
  <2> QED
    BY <1>1, <2>1
<1>8. ASSUME NEW m \in Members, Refused(m) PROVE IInv' /\ Final
  <2>1. UNCHANGED itemVars /\ UNCHANGED <<batch, answer>>
    BY <1>8 DEF Refused
  <2> QED
    BY <1>1, <2>1
<1>9. CASE UNCHANGED vars
  <2>1. UNCHANGED itemVars /\ UNCHANGED <<batch, answer>>
    BY <1>9 DEF vars
  <2> QED
    BY <1>1, <2>1
<1> QED
  BY <1>2, <1>3, <1>4, <1>5, <1>6, <1>7, <1>8, <1>9 DEF Next

LEMMA StartsWell == Init => IInv
<1>1. Init => Cited
  BY DEF Init, NoAnswer, Cited
<1> QED
  BY <1>1, RowsInit, FrozenInit DEF IInv

LEMMA AlwaysKept == Spec => []IInv
  BY StartsWell, StepsKeep, PTL DEF Spec

\* Whatever the requests, flags and roles that change between them: nothing is
\* published under an approval by its author, and nothing imported without one
\* (publishContent, decideApproval, decideApprovalBatch).
THEOREM ApprovedByAnother == Spec => []FourEyes
<1>1. Rows => FourEyes
  BY DEF Rows, Row, ImportedRow, FourEyes
<1> QED
  BY <1>1, AlwaysKept, PTL DEF IInv

\* A batch that took effect is published as it was frozen, by as many members
\* as it needs (createApprovalBatch, decideApprovalBatch).
THEOREM BatchesTakeEffectWhole == Spec => []BatchIsPublishedAsApproved
<1>1. Frozen => BatchIsPublishedAsApproved
  BY DEF Frozen, BatchRow, Taken, BatchIsPublishedAsApproved
<1> QED
  BY <1>1, AlwaysKept, PTL DEF IInv

\* No handler changes a published version or takes a reader back to a draft
\* (updateContent, publishContent, decideApproval, decideApprovalBatch).
THEOREM PublishedStays == Spec => PublishedIsFinal
<1>1. IInv /\ [Next]_vars => [Final]_vars
  BY StepsKeep
<1> QED
  BY <1>1, AlwaysKept, PTL DEF Spec, PublishedIsFinal, Final

\* The assistant's answer, given long after its contents were read, cites
\* published versions unless it says otherwise (assist).
THEOREM AnswersCiteApproved == Spec => []AnswersAreApproved
<1>1. Cited => AnswersAreApproved
  BY DEF Cited, AnswersAreApproved
<1> QED
  BY <1>1, AlwaysKept, PTL DEF IInv
-----------------------------------------------------------------------------
USE ConfirmedTextsAssumption DEF ConfirmedTextsAssumption, Jobs, NoLock,
    docVars, textVars, assessVars, jobVars

(***************************************************************************)
(* Types, without the bound on versions.                                   *)
(***************************************************************************)
Versioned == (Documents \cup {Transcript}) \X Nat

TextTypes ==
    /\ ext \in [Documents -> TextStatus]
    /\ extLock \in [Documents -> Nat \ {0}]
    /\ prep \in [Preparers -> PreparationStatus]
    /\ text \in TextStatus
    /\ textLock \in Nat \ {0}
    /\ quality \in Assessments
    /\ assessor \in {"off", "ask"}
    /\ checkpoint \in [Reviewers -> [1..Chunks -> Nat]]
    /\ parts \in [Reviewers -> [1..Chunks -> Nat]]
    /\ review \in [Reviewers -> TextReviewStatus]
    /\ pc \in [Jobs -> JobPc]
    /\ read \in [Jobs -> Versioned]
    /\ madeOf \in [Jobs -> Versioned]

TextTypesRest ==
    <<ext, extLock, prep, textVars, quality, assessor, checkpoint, parts, review, pc, read, madeOf>>

LEMMA VersionedPair ==
    ASSUME NEW d \in Documents \cup {Transcript}, NEW n \in Nat
    PROVE  <<d, n>> \in Versioned
BY DEF Versioned

LEMMA VersionedParts ==
    ASSUME NEW v \in Versioned
    PROVE  v[1] \in Documents \cup {Transcript} /\ v[2] \in Nat
BY DEF Versioned

LEMMA TypesIdle == ASSUME TextTypes, UNCHANGED TextTypesRest PROVE TextTypes'
BY DEF TextTypes, TextTypesRest

LEMMA TypesDocument == ASSUME TextTypes, NEW d \in Documents, DocumentStep(d) PROVE TextTypes'
<1> USE DEF TextTypes, TextStatus, PreparationStatus
<1>1. CASE BeginExtraction(d) \/ FailExtraction(d)
  BY <1>1, TypesIdle DEF BeginExtraction, FailExtraction, TextTypesRest
<1>2. CASE CommitExtraction(d)
  BY <1>2 DEF CommitExtraction
<1>3. CASE UpdateExtraction(d) \/ ConfirmExtraction(d)
  <2>1. extLock' = [extLock EXCEPT ![d] = extLock[d] + 1]
    BY <1>3 DEF UpdateExtraction, ConfirmExtraction
  <2>2. extLock' \in [Documents -> Nat \ {0}]
    BY <2>1
  <2> QED
    BY <1>3, <2>2 DEF UpdateExtraction, ConfirmExtraction
<1>4. CASE RetireDocument(d)
  BY <1>4 DEF RetireDocument
<1> QED
  BY <1>1, <1>2, <1>3, <1>4 DEF DocumentStep

LEMMA TypesPreparation == ASSUME TextTypes, NEW j \in Preparers, PreparationStep(j) PROVE TextTypes'
<1> USE DEF TextTypes, PreparationStatus, JobPc
<1>1. CASE CreatePreparation(j) \/ ConfirmPreparation(j)
  BY <1>1 DEF CreatePreparation, ConfirmPreparation
<1>2. CASE CommitPreparation(j)
  <2>1. Supersede(j) \in [Preparers -> PreparationStatus]
    BY DEF Supersede
  <2> QED
    BY <1>2, <2>1 DEF CommitPreparation
<1>3. ASSUME NEW d \in Documents, ReadExtraction(j, d) PROVE TextTypes'
  <2>1. <<d, extLock[d]>> \in Versioned
    BY VersionedPair
  <2> QED
    BY <1>3, <2>1 DEF ReadExtraction
<1> QED
  BY <1>1, <1>2, <1>3 DEF PreparationStep

LEMMA TypesTranscript == ASSUME TextTypes, TranscriptStep PROVE TextTypes'
<1> USE DEF TextTypes, TextStatus, Assessments
<1>1. CASE Transcribe \/ UpdateTranscript \/ ConfirmTranscript \/ DeleteTranscript \/ ReadQuality
  BY <1>1 DEF Transcribe, UpdateTranscript, ConfirmTranscript, DeleteTranscript, ReadQuality
<1>2. CASE CreateManualTranscript
  BY <1>2 DEF CreateManualTranscript, NotAssessed
<1>3. ASSUME NEW status \in {"assessment_unavailable", "evaluated"}, NEW flagged \in BOOLEAN,
             SaveQuality(status, flagged)
      PROVE  TextTypes'
  BY <1>3 DEF SaveQuality
<1>4. ASSUME NEW decision \in {"continue", "replace"}, AcknowledgeTranscriptQuality(decision)
      PROVE  TextTypes'
  BY <1>4 DEF AcknowledgeTranscriptQuality
<1> QED
  BY <1>1, <1>2, <1>3, <1>4 DEF TranscriptStep

LEMMA TypesReview == ASSUME TextTypes, NEW j \in Reviewers, ReviewStep(j) PROVE TextTypes'
<1> USE DEF TextTypes, JobPc, TextReviewStatus
<1>0. NoParts \in [1..Chunks -> Nat]
  BY DEF NoParts
<1>1. CASE CreateReview(j) \/ CommitReview(j) \/ AcknowledgeReview(j)
  BY <1>1 DEF CreateReview, CommitReview, AcknowledgeReview
<1>2. CASE ReadTranscript(j)
  <2>1. <<Transcript, textLock>> \in Versioned
    BY VersionedPair
  <2> QED
    BY <1>0, <1>2, <2>1 DEF ReadTranscript
<1>3. CASE DeleteReview(j)
  BY <1>0, <1>3 DEF DeleteReview
<1>4. ASSUME NEW c \in 1..Chunks, ReuseChunk(j, c) PROVE TextTypes'
  BY <1>4 DEF ReuseChunk
<1>5. ASSUME NEW c \in 1..Chunks, AskChunk(j, c) PROVE TextTypes'
  <2>1. read[j][2] \in Nat
    BY VersionedParts
  <2> QED
    BY <1>5, <2>1 DEF AskChunk
<1> QED
  BY <1>1, <1>2, <1>3, <1>4, <1>5 DEF ReviewStep

LEMMA TypesJob == ASSUME TextTypes, NEW j \in Jobs, JobStep(j) PROVE TextTypes'
BY DEF TextTypes, JobPc, JobStep, Finish, RunAgain, Fail, RetryJob

LEMMA TextTypesInvariant == TextsSpec => []TextTypes
<1>1. TextsInit => TextTypes
  <2>1. NoText \in Versioned
    BY VersionedPair DEF NoText
  <2> QED
    BY <2>1 DEF TextsInit, TextTypes, TextStatus, PreparationStatus, TextReviewStatus, JobPc,
       Assessments, NotAssessed, NoParts
<1>2. TextTypes /\ [TextsNext]_textsVars => TextTypes'
  BY TypesIdle, TypesDocument, TypesPreparation, TypesTranscript, TypesReview, TypesJob
     DEF TextsNext, textsVars, TextTypesRest
<1> QED
  BY <1>1, <1>2, PTL DEF TextsSpec

(***************************************************************************)
(* Preparations.  A job has read a document's extraction when it asks the  *)
(* model, and what is in force was made of one that is still there.        *)
(***************************************************************************)
InForce(j) == prep[j] \in {"generated", "confirmed"}

PreparedOf(j) ==
    /\ pc[j] = "ask" => read[j][1] \in Documents
    /\ InForce(j) => madeOf[j][1] \in Documents /\ ext[madeOf[j][1]] # "superseded"

Prepared ==
    /\ \A j \in Preparers: PreparedOf(j)
    /\ \A j, k \in Preparers: InForce(j) /\ InForce(k) => j = k

PrepareRest == <<ext, prep, pc, read, madeOf>>

LEMMA PreparedIdle == ASSUME Prepared, UNCHANGED PrepareRest PROVE Prepared'
BY DEF Prepared, PreparedOf, PrepareRest, InForce

LEMMA PreparedDocument ==
    ASSUME TextTypes, Prepared, NEW d \in Documents, DocumentStep(d) PROVE Prepared'
<1> USE DEF TextTypes, Prepared, PreparedOf, InForce, PreparationStatus
<1>1. CASE BeginExtraction(d) \/ FailExtraction(d)
  BY <1>1, PreparedIdle DEF BeginExtraction, FailExtraction, PrepareRest
<1>2. CASE CommitExtraction(d) \/ UpdateExtraction(d) \/ ConfirmExtraction(d)
  BY <1>2 DEF CommitExtraction, UpdateExtraction, ConfirmExtraction
<1>3. CASE RetireDocument(d)
  BY <1>3 DEF RetireDocument
<1> QED
  BY <1>1, <1>2, <1>3 DEF DocumentStep

LEMMA PreparedPreparation ==
    ASSUME TextTypes, Prepared, NEW j \in Preparers, PreparationStep(j) PROVE Prepared'
<1> USE DEF TextTypes, Prepared, PreparedOf, InForce, JobPc
<1>1. CASE CreatePreparation(j) \/ ConfirmPreparation(j)
  BY <1>1 DEF CreatePreparation, ConfirmPreparation
<1>2. CASE CommitPreparation(j)
  <2> USE <1>2 DEF CommitPreparation
  <2>1. CASE prep[j] = "none"
    <3>1. prep' = Supersede(j) /\ madeOf' = [madeOf EXCEPT ![j] = read[j]]
      BY <2>1
    <3>2. \A p \in Preparers: InForce(p)' <=> p = j
      BY <3>1 DEF Supersede
    <3>3. ext[read[j][1]] = "confirmed" /\ read[j][1] \in Documents
      BY DEF SameExtraction
    <3>4. madeOf'[j] = read[j]
      BY <3>1
    <3>5. \A p \in Preparers: pc'[p] = "ask" => read'[p][1] \in Documents
      OBVIOUS
    <3> QED
      BY <3>2, <3>3, <3>4, <3>5
  <2>2. CASE prep[j] # "none"
    BY <2>2
  <2> QED
    BY <2>1, <2>2
<1>3. ASSUME NEW d \in Documents, ReadExtraction(j, d) PROVE Prepared'
  <2>1. read'[j][1] = d /\ \A p \in Preparers \ {j}: read'[p] = read[p] /\ pc'[p] = pc[p]
    BY <1>3 DEF ReadExtraction
  <2>2. UNCHANGED <<ext, prep, madeOf>>
    BY <1>3 DEF ReadExtraction
  <2> QED
    BY <2>1, <2>2
<1> QED
  BY <1>1, <1>2, <1>3 DEF PreparationStep

LEMMA PreparedReview ==
    ASSUME TextTypes, Prepared, NEW j \in Reviewers, ReviewStep(j) PROVE Prepared'
<1>1. \A p \in Preparers: pc'[p] = pc[p] /\ read'[p] = read[p] /\ madeOf'[p] = madeOf[p]
  BY DEF TextTypes, ReviewStep, CreateReview, ReadTranscript, CommitReview, AcknowledgeReview,
     DeleteReview, ReuseChunk, AskChunk
<1>2. UNCHANGED <<ext, prep>>
  BY DEF ReviewStep, CreateReview, ReadTranscript, CommitReview, AcknowledgeReview,
     DeleteReview, ReuseChunk, AskChunk
<1> QED
  BY <1>1, <1>2 DEF Prepared, PreparedOf, InForce

LEMMA PreparedJob == ASSUME TextTypes, Prepared, NEW j \in Jobs, JobStep(j) PROVE Prepared'
BY DEF TextTypes, Prepared, PreparedOf, InForce, JobPc, JobStep, Finish, RunAgain, Fail, RetryJob

LEMMA PreparedInvariant == TextsSpec => []Prepared
<1>1. TextsInit => Prepared
  BY DEF TextsInit, Prepared, PreparedOf, InForce
<1>2. TextTypes /\ Prepared /\ [TextsNext]_textsVars => Prepared'
  <2> SUFFICES ASSUME TextTypes, Prepared, [TextsNext]_textsVars PROVE Prepared'
    OBVIOUS
  <2>1. CASE TranscriptStep
    BY <2>1, PreparedIdle DEF TranscriptStep, Transcribe, CreateManualTranscript, UpdateTranscript,
       ConfirmTranscript, DeleteTranscript, ReadQuality, SaveQuality, AcknowledgeTranscriptQuality,
       PrepareRest
  <2>2. CASE UNCHANGED textsVars
    BY <2>2, PreparedIdle DEF textsVars, PrepareRest
  <2> QED
    BY <2>1, <2>2, PreparedDocument, PreparedPreparation, PreparedReview, PreparedJob DEF TextsNext
<1> QED
  BY <1>1, <1>2, TextTypesInvariant, PTL DEF TextsSpec

\* Whatever preparations were asked for and in whatever order they end, one is
\* in force, and it was made of an extraction that has not been erased.
THEOREM OnePreparationInForce == TextsSpec => []OnePreparation
<1> DEFINE inForce == {j \in Preparers: InForce(j)}
<1>1. Prepared => Cardinality(inForce) <= 1
  <2> SUFFICES ASSUME Prepared PROVE Cardinality(inForce) <= 1
    OBVIOUS
  <2>1. inForce = {} => Cardinality(inForce) = 0
    BY FS_EmptySet
  <2>2. ASSUME NEW j \in inForce PROVE Cardinality(inForce) = 1
    <3>1. inForce = {j}
      BY DEF Prepared
    <3> QED
      BY <3>1, FS_Singleton
  <2> QED
    BY <2>1, <2>2
<1>2. Prepared => \A j \in inForce: ext[madeOf[j][1]] # "superseded"
  BY DEF Prepared, PreparedOf
<1>3. Prepared => OnePreparation
  BY <1>1, <1>2 DEF OnePreparation, InForce
<1> QED
  BY <1>3, PreparedInvariant, PTL

(***************************************************************************)
(* Reviews.  Until a review is made, every piece in its worker's hands is  *)
(* of the text the worker read, and written down as such.                  *)
(***************************************************************************)
OfOneText(j) ==
    /\ pc[j] = "ask" => read[j][2] # NoLock
    /\ pc[j] = "ask" /\ review[j] = "none" => \A c \in 1..Chunks:
          parts[j][c] # NoLock => parts[j][c] = read[j][2] /\ checkpoint[j][c] = read[j][2]
    /\ review[j] \in {"generated", "acknowledged"} =>
          madeOf[j][2] # NoLock /\ \A c \in 1..Chunks: checkpoint[j][c] = madeOf[j][2]

Reviewed == \A j \in Reviewers: OfOneText(j)

ReviewRest == <<checkpoint, parts, review, pc, read, madeOf>>

LEMMA ReviewedIdle == ASSUME Reviewed, UNCHANGED ReviewRest PROVE Reviewed'
BY DEF Reviewed, ReviewRest, OfOneText

LEMMA ReviewedPreparation ==
    ASSUME TextTypes, Reviewed, NEW p \in Preparers, PreparationStep(p) PROVE Reviewed'
<1>1. \A j \in Reviewers: pc'[j] = pc[j] /\ read'[j] = read[j] /\ madeOf'[j] = madeOf[j]
  BY DEF TextTypes, PreparationStep, CreatePreparation, ConfirmPreparation, CommitPreparation,
     ReadExtraction
<1>2. UNCHANGED <<checkpoint, parts, review>>
  BY DEF PreparationStep, CreatePreparation, ConfirmPreparation, CommitPreparation,
     ReadExtraction
<1> QED
  BY <1>1, <1>2 DEF Reviewed, OfOneText

LEMMA ReviewedReview ==
    ASSUME TextTypes, Reviewed, NEW j \in Reviewers, ReviewStep(j) PROVE Reviewed'
<1>0. \A k \in Reviewers \ {j}:
        /\ pc'[k] = pc[k] /\ read'[k] = read[k] /\ madeOf'[k] = madeOf[k]
        /\ parts'[k] = parts[k] /\ checkpoint'[k] = checkpoint[k] /\ review'[k] = review[k]
  BY DEF TextTypes, JobPc, TextReviewStatus, ReviewStep, CreateReview, ReadTranscript, CommitReview,
     AcknowledgeReview, DeleteReview, ReuseChunk, AskChunk
<1>1. \A k \in Reviewers: OfOneText(k)
  BY DEF Reviewed
<1>2. ASSUME NEW k \in Reviewers \ {j} PROVE OfOneText(k)'
  <2>1. /\ pc'[k] = pc[k] /\ read'[k] = read[k] /\ madeOf'[k] = madeOf[k]
        /\ parts'[k] = parts[k] /\ checkpoint'[k] = checkpoint[k] /\ review'[k] = review[k]
    BY <1>0, <1>2
  <2>2. OfOneText(k)
    BY <1>1, <1>2
  <2> QED
    BY <2>1, <2>2 DEF OfOneText
<1> SUFFICES OfOneText(j)'
  BY <1>2 DEF Reviewed
<1> USE <1>1 DEF OfOneText, TextTypes, JobPc, TextReviewStatus
<1>3. CASE CreateReview(j)
  BY <1>3 DEF CreateReview
<1>4. CASE ReadTranscript(j)
  <2>1. read'[j][2] = textLock /\ pc'[j] = "ask"
    BY <1>4 DEF ReadTranscript
  <2>2. \A c \in 1..Chunks: parts'[j][c] = NoLock
    BY <1>4 DEF ReadTranscript, NoParts
  <2>3. UNCHANGED <<review, checkpoint, madeOf>>
    BY <1>4 DEF ReadTranscript
  <2> QED
    BY <2>1, <2>2, <2>3
<1>5. CASE CommitReview(j)
  <2>1. pc'[j] = "done"
    BY <1>5 DEF CommitReview
  <2>2. CASE review[j] = "none"
    <3>1. madeOf'[j] = read[j] /\ checkpoint' = checkpoint
      BY <1>5, <2>2 DEF CommitReview
    <3>2. \A c \in 1..Chunks: checkpoint[j][c] = read[j][2]
      BY <1>5, <2>2 DEF CommitReview
    <3> QED
      BY <1>5, <2>1, <3>1, <3>2 DEF CommitReview
  <2>3. CASE review[j] # "none"
    BY <1>5, <2>1, <2>3 DEF CommitReview
  <2> QED
    BY <2>2, <2>3
<1>6. CASE AcknowledgeReview(j)
  BY <1>6 DEF AcknowledgeReview
<1>7. CASE DeleteReview(j)
  BY <1>7 DEF DeleteReview
<1>8. ASSUME NEW c \in 1..Chunks, ReuseChunk(j, c) PROVE OfOneText(j)'
  BY <1>8 DEF ReuseChunk, NextChunk, Reusable
<1>9. ASSUME NEW c \in 1..Chunks, AskChunk(j, c) PROVE OfOneText(j)'
  BY <1>9, VersionedParts DEF AskChunk, NextChunk
<1> QED
  BY <1>3, <1>4, <1>5, <1>6, <1>7, <1>8, <1>9 DEF ReviewStep

LEMMA ReviewedJob == ASSUME TextTypes, Reviewed, NEW j \in Jobs, JobStep(j) PROVE Reviewed'
BY DEF TextTypes, Reviewed, OfOneText, JobPc, JobStep, Finish, RunAgain, Fail, RetryJob

LEMMA ReviewedInvariant == TextsSpec => []Reviewed
<1>1. TextsInit => Reviewed
  BY DEF TextsInit, Reviewed, OfOneText
<1>2. TextTypes /\ Reviewed /\ [TextsNext]_textsVars => Reviewed'
  <2> SUFFICES ASSUME TextTypes, Reviewed, [TextsNext]_textsVars PROVE Reviewed'
    OBVIOUS
  <2>1. CASE TranscriptStep
    BY <2>1, ReviewedIdle DEF TranscriptStep, Transcribe, CreateManualTranscript, UpdateTranscript,
       ConfirmTranscript, DeleteTranscript, ReadQuality, SaveQuality, AcknowledgeTranscriptQuality,
       ReviewRest
  <2>2. ASSUME NEW d \in Documents, DocumentStep(d) PROVE Reviewed'
    BY <2>2, ReviewedIdle DEF DocumentStep, BeginExtraction, CommitExtraction, FailExtraction,
       UpdateExtraction, ConfirmExtraction, RetireDocument, ReviewRest
  <2>3. CASE UNCHANGED textsVars
    BY <2>3, ReviewedIdle DEF textsVars, ReviewRest
  <2> QED
    BY <2>1, <2>2, <2>3, ReviewedPreparation, ReviewedReview, ReviewedJob DEF TextsNext
<1> QED
  BY <1>1, <1>2, TextTypesInvariant, PTL DEF TextsSpec

\* A review is made of one version of the transcript, the pieces of earlier
\* attempts included, however many attempts, edits and deletions there were.
THEOREM ReviewsAreOfOneText == TextsSpec => []ReviewIsOfOneText
<1>1. Reviewed => ReviewIsOfOneText
  BY DEF Reviewed, OfOneText, ReviewIsOfOneText
<1> QED
  BY <1>1, ReviewedInvariant, PTL

(***************************************************************************)
(* The quality of the transcript.                                          *)
(***************************************************************************)
\* There is an assessment, or one is asked for, of a text that is there.
Assessed == text = "none" => quality = NotAssessed /\ assessor = "off"

LEMMA AssessedInvariant == TextsSpec => []Assessed
<1>1. TextsInit => Assessed
  BY DEF TextsInit, Assessed
<1>2. TextTypes /\ Assessed /\ [TextsNext]_textsVars => Assessed'
  <2> SUFFICES ASSUME TextTypes, Assessed, [TextsNext]_textsVars PROVE Assessed'
    OBVIOUS
  <2> USE DEF Assessed
  <2>1. CASE TranscriptStep
    <3>1. CASE Transcribe \/ CreateManualTranscript \/ UpdateTranscript \/ ConfirmTranscript
               \/ DeleteTranscript
      BY <3>1 DEF Transcribe, CreateManualTranscript, UpdateTranscript, ConfirmTranscript,
         DeleteTranscript
    <3>2. CASE ReadQuality
      BY <3>2 DEF ReadQuality
    <3>3. ASSUME NEW status \in {"assessment_unavailable", "evaluated"}, NEW flagged \in BOOLEAN,
                 SaveQuality(status, flagged)
          PROVE  Assessed'
      BY <3>3 DEF SaveQuality
    <3>4. ASSUME NEW decision \in {"continue", "replace"}, AcknowledgeTranscriptQuality(decision)
          PROVE  Assessed'
      BY <3>4 DEF AcknowledgeTranscriptQuality, Questionable, NotAssessed
    <3> QED
      BY <2>1, <3>1, <3>2, <3>3, <3>4 DEF TranscriptStep
  <2>2. CASE ~TranscriptStep
    <3>1. UNCHANGED <<text, quality, assessor>>
      BY <2>2 DEF TextsNext, textsVars, DocumentStep, BeginExtraction, CommitExtraction,
         FailExtraction, UpdateExtraction, ConfirmExtraction, RetireDocument, PreparationStep,
         CreatePreparation, ConfirmPreparation, CommitPreparation, ReadExtraction, ReviewStep,
         CreateReview, ReadTranscript, CommitReview, AcknowledgeReview, DeleteReview, ReuseChunk,
         AskChunk, JobStep, Finish, RunAgain, Fail, RetryJob
    <3> QED
      BY <3>1
  <2> QED
    BY <2>1, <2>2
<1> QED
  BY <1>1, <1>2, TextTypesInvariant, PTL DEF TextsSpec

\* What a person decided over a warning stands, whatever answers of the model
\* are still on their way.
THEOREM DecisionsStand == TextsSpec => DecisionStands
<1>1. TextTypes /\ Assessed /\ [TextsNext]_textsVars =>
        [quality.decision # "none" =>
            quality'.decision # "none" /\ quality'.status = quality.status
                                       /\ quality'.flagged = quality.flagged]_textsVars
  <2> SUFFICES ASSUME TextTypes, Assessed, TextsNext, quality.decision # "none"
               PROVE  quality'.decision # "none" /\ quality'.status = quality.status
                                                 /\ quality'.flagged = quality.flagged
    OBVIOUS
  <2> USE DEF TextTypes, Assessments
  <2>1. CASE TranscriptStep
    <3>1. CASE Transcribe \/ UpdateTranscript \/ ConfirmTranscript \/ DeleteTranscript \/ ReadQuality
      BY <3>1 DEF Transcribe, UpdateTranscript, ConfirmTranscript, DeleteTranscript, ReadQuality
    <3>2. ~CreateManualTranscript
      BY DEF CreateManualTranscript, Assessed, NotAssessed
    <3>3. ASSUME NEW status \in {"assessment_unavailable", "evaluated"}, NEW flagged \in BOOLEAN,
                 SaveQuality(status, flagged)
          PROVE  quality' = quality
      BY <3>3 DEF SaveQuality, Assessable
    <3>4. ASSUME NEW decision \in {"continue", "replace"}, AcknowledgeTranscriptQuality(decision)
          PROVE  quality'.decision # "none" /\ quality'.status = quality.status
                                            /\ quality'.flagged = quality.flagged
      BY <3>4 DEF AcknowledgeTranscriptQuality
    <3> QED
      BY <2>1, <3>1, <3>2, <3>3, <3>4 DEF TranscriptStep
  <2>2. CASE ~TranscriptStep
    <3>1. UNCHANGED quality
      BY <2>2 DEF TextsNext, DocumentStep, BeginExtraction, CommitExtraction,
         FailExtraction, UpdateExtraction, ConfirmExtraction, RetireDocument, PreparationStep,
         CreatePreparation, ConfirmPreparation, CommitPreparation, ReadExtraction, ReviewStep,
         CreateReview, ReadTranscript, CommitReview, AcknowledgeReview, DeleteReview, ReuseChunk,
         AskChunk, JobStep, Finish, RunAgain, Fail, RetryJob
    <3> QED
      BY <3>1
  <2> QED
    BY <2>1, <2>2
<1> QED
  BY <1>1, TextTypesInvariant, AssessedInvariant, PTL DEF TextsSpec, DecisionStands
=============================================================================
