-------------------- MODULE TransferReconciliationProofs --------------------
(***************************************************************************)
(* CollectionStore.reconcile_internal_transfers for every window, every    *)
(* limit and any number of rows.  Two facts carry the proofs: candidates   *)
(* of a row are never taken away, and a pair is a pair from either side.   *)
(***************************************************************************)
EXTENDS TransferReconciliation, FiniteSetTheorems, TLAPS

Tags == {NoTag, Ambiguous} \cup {MatchedWith(s) : s \in Rows}

LEMMA TagsDiffer ==
  /\ NoTag # Ambiguous
  /\ \A s : /\ MatchedWith(s) # NoTag /\ MatchedWith(s) # Ambiguous
            /\ MatchedWith(s).status = "matched" /\ MatchedWith(s).counterpart = s
  /\ NoTag.status # "matched" /\ Ambiguous.status # "matched"
BY DEF NoTag, Ambiguous, MatchedWith

LEMMA RowTimes ==
  ASSUME TypeOK, NEW r \in Rows
  PROVE  rows[r] \in Row /\ rows[r].at \in Nat
<1>1. rows[r] \in Row
  BY DEF TypeOK, Rows
<1> QED
  BY <1>1, BoundAssumption DEF Row

(* A candidate pair is one from either side, and no row pairs with itself. *)
LEMMA PairsAreMutual ==
  ASSUME TypeOK, NEW r \in Rows, NEW s \in Rows, CandidatePair(r, s)
  PROVE  CandidatePair(s, r) /\ r # s
<1>1. rows[r].at \in Nat /\ rows[s].at \in Nat /\ Window \in Nat
  BY RowTimes, WindowAssumption
<1>2. rows[s].at - rows[r].at \in -Window .. Window
  BY <1>1 DEF CandidatePair
<1> QED
  BY <1>2 DEF CandidatePair

(* What the pairing says, in terms of the candidates. *)
LEMMA PairingCases ==
  ASSUME NEW S, NEW r
  PROVE  \/ Pairing(r, S) = NoTag /\ Candidates(r, S) = {}
         \/ \E s \in S : /\ Pairing(r, S) = MatchedWith(s)
                         /\ Candidates(r, S) = {s} /\ Candidates(s, S) = {r}
         \/ /\ Pairing(r, S) = Ambiguous /\ Candidates(r, S) # {}
            /\ \A s \in S : ~(Candidates(r, S) = {s} /\ Candidates(s, S) = {r})
<1>1. CASE Candidates(r, S) = {}
  BY <1>1 DEF Pairing
<1>2. ASSUME NEW s \in S, Candidates(r, S) = {s}, Candidates(s, S) = {r}
      PROVE  Pairing(r, S) = MatchedWith(s)
  <2>1. (CHOOSE t \in S : t \in Candidates(r, S)) = s
    BY <1>2
  <2> QED
    BY <1>2, <2>1 DEF Pairing
<1>3. CASE /\ Candidates(r, S) # {}
           /\ \A s \in S : ~(Candidates(r, S) = {s} /\ Candidates(s, S) = {r})
  BY <1>3 DEF Pairing
<1> QED
  BY <1>1, <1>2, <1>3

LEMMA PairingIsTag ==
  ASSUME NEW S \in SUBSET Rows, NEW r
  PROVE  Pairing(r, S) \in Tags
BY PairingCases DEF Tags

(* Within the limit every row is read. *)
LEMMA NewestIsAll ==
  ASSUME TypeOK, Len(rows) <= Limit
  PROVE  Newest = Rows
<1> SUFFICES ASSUME NEW r \in Rows
             PROVE  Cardinality({s \in Rows : Newer(s, r)}) < Limit
  BY DEF Newest
<1> DEFINE N == {s \in Rows : Newer(s, r)}
<1>0. Len(rows) \in Nat /\ 1 <= Len(rows)
  BY DEF TypeOK, Rows
<1>1. IsFiniteSet(Rows) /\ Cardinality(Rows) = Len(rows)
  <2>1. IsFiniteSet(1 .. Len(rows)) /\ Cardinality(1 .. Len(rows)) = Len(rows) - 1 + 1
    BY <1>0, FS_Interval
  <2> QED
    BY <1>0, <2>1 DEF Rows
<1>2. IsFiniteSet(Rows \ {r}) /\ Cardinality(Rows \ {r}) = Len(rows) - 1
  BY <1>1, FS_RemoveElement
<1>3. Cardinality(N) <= Cardinality(Rows \ {r}) /\ IsFiniteSet(N)
  <2>1. r \notin N
    <3>1. r \in Nat /\ rows[r].at \in Nat
      BY RowTimes DEF Rows
    <3> QED
      BY <3>1 DEF Newer
  <2>2. N \subseteq Rows \ {r}
    BY <2>1
  <2> QED
    BY <1>2, <2>2, FS_Subset
<1>4. Cardinality(N) \in Nat
  BY <1>3, FS_CardinalityType
<1> QED
  BY <1>0, <1>2, <1>3, <1>4, LimitAssumption

----------------------------------------------------------------------------
LEMMA ReconciliationInvInit == Init => ReconciliationInv
<1> SUFFICES ASSUME Init PROVE ReconciliationInv
  OBVIOUS
<1>1. rows = <<>> /\ tag = <<>> /\ settled = TRUE /\ Len(rows) = 0
  BY DEF Init
<1>2. Rows = {}
  BY <1>1 DEF Rows
<1>3. TypeOK
  BY <1>1, <1>2 DEF TypeOK
<1>4. Newest = {}
  BY <1>2 DEF Newest
<1> QED
  BY <1>2, <1>3, <1>4 DEF ReconciliationInv, TagsHaveCandidates, SettledTagsAgree

(* A new row leaves the old ones' candidates and tags as they are.         *)
LEMMA StageRowFacts ==
  ASSUME TypeOK, StageRow
  PROVE  /\ rows' \in Seq(Row) /\ Rows' = Rows \cup {Len(rows) + 1} /\ Rows \subseteq Rows'
         /\ Len(rows) + 1 \notin Rows /\ settled' = FALSE
         /\ tag' \in [Rows' -> Tags'] /\ tag'[Len(rows) + 1] = NoTag
         /\ \A r \in Rows : rows'[r] = rows[r] /\ tag'[r] = tag[r]
         /\ \A r \in Rows : Candidates(r, Rows) \subseteq Candidates(r, Rows)'
<1>1. PICK row \in Row : rows' = Append(rows, row)
  BY DEF StageRow
<1>2. tag' = Append(tag, NoTag) /\ settled' = FALSE
  BY DEF StageRow
<1>3. rows \in Seq(Row) /\ Len(rows) \in Nat /\ Rows = 1 .. Len(rows)
  BY DEF TypeOK, Rows
<1>4. rows' \in Seq(Row) /\ Len(rows') = Len(rows) + 1
      /\ \A r \in Rows : rows'[r] = rows[r]
  BY <1>1, <1>3
<1>5. Rows' = Rows \cup {Len(rows) + 1} /\ Len(rows) + 1 \notin Rows /\ Rows' = 1 .. (Len(rows) + 1)
  BY <1>3, <1>4 DEF Rows
<1>6. tag \in Seq(Tags) /\ Len(tag) = Len(rows)
  <2>1. tag \in [1 .. Len(rows) -> Tags]
    BY <1>3 DEF TypeOK, Tags
  <2> HIDE DEF Tags
  <2> QED
    BY <1>3, <2>1
<1>7. Tags \subseteq Tags' /\ NoTag \in Tags
  BY <1>5 DEF Tags
<1>8. /\ tag' \in [Rows' -> Tags'] /\ tag'[Len(rows) + 1] = NoTag
      /\ \A r \in Rows : tag'[r] = tag[r]
  <2> HIDE DEF Tags
  <2>1. tag' \in Seq(Tags) /\ Len(tag') = Len(rows) + 1 /\ tag'[Len(rows) + 1] = NoTag
    BY <1>2, <1>3, <1>6, <1>7
  <2>2. \A r \in Rows : tag'[r] = tag[r]
    BY <1>2, <1>3, <1>6
  <2>3. tag' \in [1 .. (Len(rows) + 1) -> Tags]
    BY <2>1
  <2> QED
    BY <1>5, <1>7, <2>1, <2>2, <2>3
<1>9. \A r \in Rows : Candidates(r, Rows) \subseteq Candidates(r, Rows)'
  BY <1>4, <1>5 DEF Candidates, CandidatePair
<1> QED
  BY <1>2, <1>4, <1>5, <1>8, <1>9

LEMMA StageRowInv ==
  ASSUME ReconciliationInv, StageRow PROVE ReconciliationInv'
<1>1. TypeOK /\ TagsHaveCandidates
  BY DEF ReconciliationInv
<1>2. TypeOK'
  BY <1>1, StageRowFacts DEF TypeOK, Tags
<1>3. TagsHaveCandidates'
  <2> SUFFICES ASSUME NEW r \in Rows'
               PROVE  /\ tag'[r] # NoTag => Candidates(r, Rows)' # {}
                      /\ tag'[r].status = "matched"
                           => tag'[r].counterpart \in Candidates(r, Rows)'
    BY DEF TagsHaveCandidates
  <2>1. CASE r \in Rows
    BY <1>1, <2>1, StageRowFacts DEF TagsHaveCandidates
  <2>2. CASE r = Len(rows) + 1
    BY <1>1, <2>2, StageRowFacts, TagsDiffer
  <2> QED
    BY <1>1, <2>1, <2>2, StageRowFacts
<1>4. SettledTagsAgree'
  BY <1>1, StageRowFacts DEF SettledTagsAgree
<1> QED
  BY <1>2, <1>3, <1>4 DEF ReconciliationInv

(* A reconciliation changes tags only, and writes what the pairing says.   *)
LEMMA ReconcileFacts ==
  ASSUME TypeOK, Reconcile
  PROVE  /\ rows' = rows /\ Rows' = Rows /\ Newest' = Newest /\ Newest \subseteq Rows
         /\ settled' = TRUE /\ tag' \in [Rows -> Tags]
         /\ \A r : /\ Candidates(r, Rows)' = Candidates(r, Rows)
                   /\ Pairing(r, Newest)' = Pairing(r, Newest)
         /\ \A r \in Rows : tag'[r] = IF r \in Newest /\ Pairing(r, Newest) # NoTag
                                      THEN Pairing(r, Newest) ELSE tag[r]
<1>1. rows' = rows /\ Rows' = Rows /\ settled' = TRUE
  BY DEF Reconcile, Rows
<1>2. Newest' = Newest /\ Newest \subseteq Rows
  BY <1>1 DEF Newest, Newer
<1>3. \A r \in Rows : Pairing(r, Newest) \in Tags /\ tag[r] \in Tags
  BY <1>2, PairingIsTag DEF TypeOK, Tags
<1>4. tag' = [r \in Rows |-> IF r \in Newest /\ Pairing(r, Newest) # NoTag
                                THEN Pairing(r, Newest) ELSE tag[r]]
  BY DEF Reconcile
<1>5. tag' \in [Rows -> Tags]
  BY <1>3, <1>4
<1>6. ASSUME NEW r
      PROVE  /\ Candidates(r, Rows)' = Candidates(r, Rows)
             /\ Pairing(r, Newest)' = Pairing(r, Newest)
  BY <1>1, <1>2 DEF Candidates, CandidatePair, Pairing
<1> QED
  BY <1>1, <1>2, <1>4, <1>5, <1>6

LEMMA ReconcileInv ==
  ASSUME ReconciliationInv, Reconcile PROVE ReconciliationInv'
<1>1. TypeOK /\ TagsHaveCandidates
  BY DEF ReconciliationInv
<1>2. TypeOK'
  BY <1>1, ReconcileFacts DEF TypeOK, Tags
<1>3. ASSUME NEW r \in Newest, Pairing(r, Newest) # NoTag
      PROVE  /\ Candidates(r, Rows) # {}
             /\ Pairing(r, Newest).status = "matched"
                  => Pairing(r, Newest).counterpart \in Candidates(r, Rows)
  <2>1. Candidates(r, Newest) \subseteq Candidates(r, Rows)
    BY DEF Candidates, Newest
  <2>2. CASE Pairing(r, Newest) = Ambiguous /\ Candidates(r, Newest) # {}
    BY <2>1, <2>2, TagsDiffer
  <2>3. ASSUME NEW s \in Newest, Pairing(r, Newest) = MatchedWith(s), Candidates(r, Newest) = {s}
        PROVE  /\ Candidates(r, Rows) # {}
               /\ Pairing(r, Newest).counterpart \in Candidates(r, Rows)
    BY <2>1, <2>3, TagsDiffer
  <2> QED
    BY <1>3, <2>2, <2>3, PairingCases
<1>4. TagsHaveCandidates'
  <2> SUFFICES ASSUME NEW r \in Rows
               PROVE  /\ tag'[r] # NoTag => Candidates(r, Rows) # {}
                      /\ tag'[r].status = "matched"
                           => tag'[r].counterpart \in Candidates(r, Rows)
    BY <1>1, ReconcileFacts DEF TagsHaveCandidates
  <2>1. CASE r \in Newest /\ Pairing(r, Newest) # NoTag
    BY <1>1, <1>3, <2>1, ReconcileFacts
  <2>2. CASE ~(r \in Newest /\ Pairing(r, Newest) # NoTag)
    <3>1. tag'[r] = tag[r]
      BY <1>1, <2>2, ReconcileFacts
    <3> QED
      BY <1>1, <3>1 DEF TagsHaveCandidates
  <2> QED
    BY <2>1, <2>2
<1>5. SettledTagsAgree'
  BY <1>1, ReconcileFacts DEF SettledTagsAgree
<1> QED
  BY <1>2, <1>4, <1>5 DEF ReconciliationInv

(* What every reconciliation keeps: a tag is only on rows with candidates, *)
(* and after it the tags agree with the pairing of the newest rows.        *)
THEOREM ReconciliationInvariant == Spec => []ReconciliationInv
<1>1. ReconciliationInv /\ [Next]_vars => ReconciliationInv'
  <2> SUFFICES ASSUME ReconciliationInv, [Next]_vars PROVE ReconciliationInv'
    OBVIOUS
  <2>1. CASE UNCHANGED vars
    <3>1. rows' = rows /\ tag' = tag /\ settled' = settled /\ Rows' = Rows
      BY <2>1 DEF vars, Rows
    <3>2. Newest' = Newest
      BY <3>1 DEF Newest, Newer
    <3>3. ASSUME NEW r
          PROVE  /\ Candidates(r, Rows)' = Candidates(r, Rows)
                 /\ Pairing(r, Newest)' = Pairing(r, Newest)
      BY <3>1, <3>2 DEF Candidates, CandidatePair, Pairing
    <3>4. TypeOK'
      BY <3>1 DEF ReconciliationInv, TypeOK
    <3>5. TagsHaveCandidates' /\ SettledTagsAgree'
      BY <3>1, <3>2, <3>3 DEF ReconciliationInv, TagsHaveCandidates, SettledTagsAgree
    <3> QED
      BY <3>4, <3>5 DEF ReconciliationInv
  <2> QED
    BY <2>1, StageRowInv, ReconcileInv DEF Next
<1> QED
  BY <1>1, ReconciliationInvInit, PTL DEF Spec

(* Every tag is none, ambiguous, or a match with a staged row.             *)
THEOREM TypeCorrect == Spec => []TypeOK
<1>1. ReconciliationInv => TypeOK
  BY DEF ReconciliationInv
<1> QED
  BY <1>1, ReconciliationInvariant, PTL

(* Clear of the limit, a row's candidates and theirs are all read, so that *)
(* the pairing of the rows read is the pairing of all rows.                *)
LEMMA ClearRowsAreSeen ==
  ASSUME TypeOK, NEW r \in Rows, ClearOfLimit(r)
  PROVE  /\ r \in Newest /\ Candidates(r, Newest) = Candidates(r, Rows)
         /\ \A s \in Candidates(r, Rows) : Candidates(s, Newest) = Candidates(s, Rows)
         /\ Pairing(r, Newest) = Pairing(r, Rows)
<1>1. Window \in Nat /\ Newest \subseteq Rows /\ \A s \in Rows : rows[s].at \in Nat
  BY RowTimes, WindowAssumption DEF Newest
<1>2. \A s, t \in Rows : CandidatePair(s, t) => rows[s].at - rows[t].at \in -Window .. Window
  BY DEF CandidatePair
<1>3. \A s \in Rows : rows[r].at - rows[s].at <= 2 * Window => s \in Newest
  BY <1>1, WindowAssumption DEF ClearOfLimit
<1>4. r \in Newest
  BY <1>1, <1>3
<1>5. Candidates(r, Newest) = Candidates(r, Rows)
  <2> SUFFICES ASSUME NEW s \in Rows, CandidatePair(r, s) PROVE s \in Newest
    BY <1>1 DEF Candidates
  <2>1. rows[r].at - rows[s].at <= Window
    BY <1>1, <1>2
  <2> QED
    BY <1>1, <1>3, <2>1
<1>6. ASSUME NEW s \in Candidates(r, Rows)
      PROVE  Candidates(s, Newest) = Candidates(s, Rows)
  <2> SUFFICES ASSUME NEW t \in Rows, CandidatePair(s, t) PROVE t \in Newest
    BY <1>1 DEF Candidates
  <2>1. s \in Rows /\ rows[r].at - rows[s].at <= Window /\ rows[s].at - rows[t].at <= Window
    BY <1>1, <1>2, <1>6 DEF Candidates
  <2>2. rows[r].at - rows[t].at <= 2 * Window
    BY <1>1, <2>1
  <2> QED
    BY <1>3, <2>2
<1>7. Pairing(r, Newest) = Pairing(r, Rows)
  <2>1. CASE Candidates(r, Rows) = {}
    BY <1>5, <2>1 DEF Pairing
  <2>2. ASSUME NEW s \in Rows, Candidates(r, Rows) = {s}, Candidates(s, Rows) = {r}
        PROVE  Pairing(r, Newest) = Pairing(r, Rows)
    <3>1. s \in Newest /\ Candidates(r, Newest) = {s} /\ Candidates(s, Newest) = {r}
      BY <1>5, <1>6, <2>2 DEF Candidates
    <3>2. Pairing(r, Newest) = MatchedWith(s)
      BY <3>1, PairingCases
    <3>3. Pairing(r, Rows) = MatchedWith(s)
      BY <2>2, PairingCases
    <3> QED
      BY <3>2, <3>3
  <2>3. CASE /\ Candidates(r, Rows) # {}
             /\ \A s \in Rows : ~(Candidates(r, Rows) = {s} /\ Candidates(s, Rows) = {r})
    <3>1. \A s \in Newest : ~(Candidates(r, Newest) = {s} /\ Candidates(s, Newest) = {r})
      BY <1>1, <1>5, <1>6, <2>3
    <3> QED
      BY <1>5, <2>3, <3>1 DEF Pairing
  <2> QED
    BY <2>1, <2>2, <2>3
<1> QED
  BY <1>4, <1>5, <1>6, <1>7

LEMMA ClearRowsAgree ==
  ASSUME ReconciliationInv, settled, NEW r \in Rows, ClearOfLimit(r)
  PROVE  tag[r] = Pairing(r, Rows)
<1>1. TypeOK /\ TagsHaveCandidates /\ SettledTagsAgree
  BY DEF ReconciliationInv
<1>2. r \in Newest /\ Pairing(r, Newest) = Pairing(r, Rows)
  BY <1>1, ClearRowsAreSeen
<1>3. CASE Pairing(r, Rows) # NoTag
  BY <1>1, <1>2, <1>3 DEF SettledTagsAgree
<1>4. CASE Pairing(r, Rows) = NoTag
  <2>1. Candidates(r, Rows) = {}
    BY <1>4, PairingCases, TagsDiffer
  <2> QED
    BY <1>1, <1>4, <2>1 DEF TagsHaveCandidates
<1> QED
  BY <1>3, <1>4

(* More than two windows after every row that the limit leaves out, the    *)
(* tags are a function of the rows, and matches point to each other.       *)
THEOREM TagsFollowFromRows == Spec => []TagsDependOnRowsOnly
<1>1. ReconciliationInv => TagsDependOnRowsOnly
  <2> SUFFICES ASSUME ReconciliationInv, settled, NEW r \in Rows, ClearOfLimit(r)
               PROVE  /\ tag[r] = Pairing(r, Rows)
                      /\ tag[r].status = "matched"
                           => tag[tag[r].counterpart] = MatchedWith(r)
    BY DEF TagsDependOnRowsOnly
  <2>1. TypeOK /\ SettledTagsAgree
    BY DEF ReconciliationInv
  <2>2. tag[r] = Pairing(r, Rows)
    BY ClearRowsAgree
  <2>3. ASSUME tag[r].status = "matched"
        PROVE  tag[tag[r].counterpart] = MatchedWith(r)
    <3>1. PICK s \in Rows : /\ Pairing(r, Rows) = MatchedWith(s)
                            /\ Candidates(r, Rows) = {s} /\ Candidates(s, Rows) = {r}
      BY <2>2, <2>3, PairingCases, TagsDiffer
    <3>2. s \in Newest /\ r \in Newest /\ Candidates(s, Newest) = {r} /\ Candidates(r, Newest) = {s}
      BY <2>1, <3>1, ClearRowsAreSeen DEF Candidates
    <3>3. Pairing(s, Newest) = MatchedWith(r)
      BY <3>2, PairingCases
    <3>4. tag[s] = MatchedWith(r)
      BY <2>1, <3>2, <3>3, TagsDiffer DEF SettledTagsAgree
    <3> QED
      BY <2>2, <3>1, <3>4, TagsDiffer
  <2> QED
    BY <2>2, <2>3
<1> QED
  BY <1>1, ReconciliationInvariant, PTL

(* A match more than two windows after every row that the limit leaves out *)
(* is one-to-one (db.py:148).                                              *)
ClearMatchesAreOneToOne ==
  settled =>
    \A r \in Rows :
      ClearOfLimit(r) /\ tag[r].status = "matched" =>
        /\ Candidates(r, Rows) = {tag[r].counterpart}
        /\ Candidates(tag[r].counterpart, Rows) = {r}

(* The limit is the only cause of a match that is not one-to-one: every    *)
(* match clear of it is, and so is every match while it covers the rows.   *)
THEOREM OnlyTheLimitSpoilsMatches ==
  Spec => [](ClearMatchesAreOneToOne /\ (Len(rows) <= Limit => MatchesAreOneToOne))
<1>1. ReconciliationInv => ClearMatchesAreOneToOne
  <2> SUFFICES ASSUME ReconciliationInv, settled, NEW r \in Rows, ClearOfLimit(r),
                      tag[r].status = "matched"
               PROVE  /\ Candidates(r, Rows) = {tag[r].counterpart}
                      /\ Candidates(tag[r].counterpart, Rows) = {r}
    BY DEF ClearMatchesAreOneToOne
  <2>1. tag[r] = Pairing(r, Rows)
    BY ClearRowsAgree
  <2>2. PICK s \in Rows : /\ Pairing(r, Rows) = MatchedWith(s)
                          /\ Candidates(r, Rows) = {s} /\ Candidates(s, Rows) = {r}
    BY <2>1, PairingCases, TagsDiffer
  <2> QED
    BY <2>1, <2>2, TagsDiffer
<1>2. ReconciliationInv /\ Len(rows) <= Limit => \A r \in Rows : ClearOfLimit(r)
  BY NewestIsAll DEF ReconciliationInv, ClearOfLimit
<1>3. ReconciliationInv
        => ClearMatchesAreOneToOne /\ (Len(rows) <= Limit => MatchesAreOneToOne)
  BY <1>1, <1>2 DEF ClearMatchesAreOneToOne, MatchesAreOneToOne
<1> QED
  BY <1>3, ReconciliationInvariant, PTL

(* A second reconciliation without new rows changes nothing, whatever the  *)
(* limit.                                                                  *)
THEOREM RepeatingIsHarmless == Spec => RepeatingChangesNothing
<1>1. ReconciliationInv /\ [Next]_vars => [settled /\ settled' => tag' = tag]_vars
  <2> SUFFICES ASSUME ReconciliationInv, [Next]_vars, settled, settled'
               PROVE  tag' = tag
    BY DEF vars
  <2>1. TypeOK /\ SettledTagsAgree
    BY DEF ReconciliationInv
  <2>2. CASE Reconcile
    <3>1. \A r \in Rows : tag'[r] = tag[r]
      BY <2>1, <2>2, ReconcileFacts DEF SettledTagsAgree
    <3>2. tag \in [Rows -> Tags] /\ tag' \in [Rows -> Tags]
      BY <2>1, <2>2, ReconcileFacts DEF TypeOK, Tags
    <3> QED
      BY <3>1, <3>2
  <2> QED
    BY <2>2 DEF Next, StageRow, vars
<1> QED
  BY <1>1, ReconciliationInvariant, PTL DEF Spec, RepeatingChangesNothing

(* A match gives way only to a rival candidate of one of its sides.        *)
THEOREM MatchesGiveWayToRivals == Spec => MatchLostOnlyToRival
<1> DEFINE Rival == \A r \in Rows :
                      tag[r].status = "matched" /\ tag'[r] # tag[r] =>
                        \E s \in Rows \ {r, tag[r].counterpart} :
                          CandidatePair(r, s) \/ CandidatePair(tag[r].counterpart, s)
<1>1. ReconciliationInv /\ [Next]_vars => [Rival]_vars
  <2> SUFFICES ASSUME ReconciliationInv, [Next]_vars,
                      NEW r \in Rows, tag[r].status = "matched", tag'[r] # tag[r]
               PROVE  \E s \in Rows \ {r, tag[r].counterpart} :
                        CandidatePair(r, s) \/ CandidatePair(tag[r].counterpart, s)
    OBVIOUS
  <2> DEFINE c == tag[r].counterpart
  <2>1. TypeOK /\ c \in Rows /\ CandidatePair(r, c) /\ tag[r] = MatchedWith(c)
    <3>1. TypeOK /\ c \in Rows /\ CandidatePair(r, c)
      BY DEF ReconciliationInv, TagsHaveCandidates, Candidates
    <3>2. tag[r] \in {NoTag, Ambiguous} \cup {MatchedWith(s) : s \in Rows}
      BY <3>1 DEF TypeOK
    <3> QED
      BY <3>1, <3>2, TagsDiffer
  <2>2. Reconcile
    BY <2>1, StageRowFacts DEF Next, vars
  <2>3. /\ r \in Newest /\ Newest \subseteq Rows /\ Pairing(r, Newest) # NoTag
        /\ Pairing(r, Newest) # MatchedWith(c)
    BY <2>1, <2>2, ReconcileFacts
  <2> HIDE DEF c
  <2>4. CASE \E s \in Candidates(r, Newest) : s # c
    <3>1. PICK s \in Newest : CandidatePair(r, s) /\ s # c
      BY <2>4 DEF Candidates
    <3>2. s # r /\ s \in Rows
      BY <2>1, <2>3, <3>1, PairsAreMutual
    <3> QED
      BY <3>1, <3>2 DEF c
  <2>5. CASE Candidates(r, Newest) \subseteq {c}
    <3>1. Candidates(r, Newest) = {c} /\ c \in Newest
      BY <2>3, <2>5, PairingCases, TagsDiffer DEF Candidates
    <3>2. CandidatePair(c, r) /\ c # r
      BY <2>1, PairsAreMutual
    <3>3. r \in Candidates(c, Newest)
      BY <2>3, <3>2 DEF Candidates
    <3>4. Candidates(c, Newest) # {r}
      <4> SUFFICES ASSUME Candidates(c, Newest) = {r} PROVE FALSE
        OBVIOUS
      <4>1. PICK s \in Newest : Pairing(r, Newest) = MatchedWith(s) /\ Candidates(r, Newest) = {s}
        BY <2>3, <3>1, PairingCases
      <4> QED
        BY <2>3, <3>1, <4>1
    <3>5. PICK s \in Candidates(c, Newest) : s # r
      BY <3>3, <3>4
    <3>6. s \in Rows /\ CandidatePair(c, s) /\ s # c
      BY <2>1, <2>3, <3>5, PairsAreMutual DEF Candidates
    <3> QED
      BY <3>5, <3>6 DEF c
  <2> QED
    BY <2>4, <2>5
<1> QED
  BY <1>1, ReconciliationInvariant, PTL DEF Spec, MatchLostOnlyToRival

=============================================================================
