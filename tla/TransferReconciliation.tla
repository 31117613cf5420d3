----------------------- MODULE TransferReconciliation -----------------------
(***************************************************************************)
(* The collector's pairing of bank debits with wallet charges: after each  *)
(* completed Drive run CollectionStore.reconcile_internal_transfers reads  *)
(* the newest rows of the source, pairs them with the pure function of     *)
(* reconciliation.py and writes a tag into the staging JSON of each        *)
(* candidate.  Rows arrive in any order of event time, and a tag is only   *)
(* ever overwritten, never removed.                                        *)
(*                                                                         *)
(* A row is its position in `rows`, which is also the order of             *)
(* collection_observation_id.  What _is_candidate_pair compares besides    *)
(* the time (amount, currency, the provider the money goes to) is one key. *)
(***************************************************************************)
EXTENDS Integers, Sequences, FiniteSets

CONSTANTS
  Key,      \* amount, currency and wallet provider of a transfer
  NoKey,    \* a debit that names no funding target
  Window,   \* DEFAULT_WINDOW_MS
  Limit,    \* rows one reconciliation reads (500 in the code)
  MaxTime,  \* bound: event times are 0 .. MaxTime
  MaxRows   \* bound: rows ever staged

ASSUME KeyAssumption == NoKey \notin Key
ASSUME WindowAssumption == Window \in Nat \ {0}
ASSUME LimitAssumption == Limit \in Nat /\ Limit >= 2
ASSUME BoundAssumption == MaxTime \in Nat /\ MaxRows \in Nat

VARIABLES
  rows,    \* account_debit and wallet_charge rows, in insertion order
  tag,     \* normalized_payload.transfer_reconciliation of each row
  settled  \* a reconciliation has run since the last row was staged

vars == <<rows, tag, settled>>

Row == [type : {"account_debit"}, key : Key \cup {NoKey}, at : 0 .. MaxTime]
       \cup [type : {"wallet_charge"}, key : Key, at : 0 .. MaxTime]

NoTag == [status |-> "none", counterpart |-> 0]
Ambiguous == [status |-> "ambiguous", counterpart |-> 0]
MatchedWith(r) == [status |-> "matched", counterpart |-> r]

Rows == 1 .. Len(rows)

TypeOK ==
  /\ rows \in Seq(Row)
  /\ tag \in [Rows -> {NoTag, Ambiguous} \cup {MatchedWith(s) : s \in Rows}]
  /\ settled \in BOOLEAN

----------------------------------------------------------------------------
(* _is_candidate_pair, without the order of its arguments.                 *)
CandidatePair(r, s) ==
  /\ rows[r].type # rows[s].type
  /\ rows[r].key = rows[s].key
  /\ rows[r].at - rows[s].at \in -Window .. Window

Candidates(r, S) == {s \in S : CandidatePair(r, s)}

(* Mutant of Pairing: only the row's own side is looked at.                *)
PairingOneSided(r, S) ==
  IF Candidates(r, S) = {} THEN NoTag
  ELSE IF Cardinality(Candidates(r, S)) = 1
         THEN MatchedWith(CHOOSE s \in S : s \in Candidates(r, S))
         ELSE Ambiguous

(* What reconciliation.reconcile_internal_transfers says of row r among    *)
(* the rows S: matched when each is the other's only candidate, ambiguous  *)
(* when it has candidates and no such match.                               *)
Pairing(r, S) ==
  IF Candidates(r, S) = {} THEN NoTag
  ELSE IF \E s \in S : Candidates(r, S) = {s} /\ Candidates(s, S) = {r}
         THEN MatchedWith(CHOOSE s \in S : s \in Candidates(r, S))
         ELSE Ambiguous

(* ORDER BY event_at DESC, collection_observation_id DESC LIMIT limit.     *)
Newer(s, r) == rows[s].at > rows[r].at \/ (rows[s].at = rows[r].at /\ s > r)
Newest == {r \in Rows : Cardinality({s \in Rows : Newer(s, r)}) < Limit}

----------------------------------------------------------------------------
Init == rows = <<>> /\ tag = <<>> /\ settled = TRUE

(* Mutant of StageRow: the oldest row may make room, and counterparts that *)
(* later rows are tagged with are not renumbered.                          *)
StageRowEvicting ==
  /\ \/ /\ Len(rows) < MaxRows
        /\ \E row \in Row : rows' = Append(rows, row)
        /\ tag' = Append(tag, NoTag)
     \/ /\ rows # <<>>
        /\ rows' = Tail(rows)
        /\ tag' = Tail(tag)
  /\ settled' = FALSE

(* insert_observation of an event that takes part in pairing.              *)
StageRow ==
  /\ Len(rows) < MaxRows
  /\ \E row \in Row : rows' = Append(rows, row)
  /\ tag' = Append(tag, NoTag)
  /\ settled' = FALSE

(* Mutant of Reconcile: rows without a candidate lose their tag.           *)
ReconcileAndClear ==
  /\ tag' = [r \in Rows |-> IF r \in Newest THEN Pairing(r, Newest) ELSE tag[r]]
  /\ settled' = TRUE
  /\ UNCHANGED rows

(* Mutant of Reconcile: rows that are matched are not looked at again.     *)
ReconcileUnmatched ==
  /\ LET unmatched == {r \in Rows : tag[r].status # "matched"}
         S == {r \in unmatched :
                 Cardinality({s \in unmatched : Newer(s, r)}) < Limit}
     IN tag' = [r \in Rows |->
                  IF r \in S /\ Pairing(r, S) # NoTag THEN Pairing(r, S) ELSE tag[r]]
  /\ settled' = TRUE
  /\ UNCHANGED rows

(* CollectionStore.reconcile_internal_transfers, one transaction; a        *)
(* failure changes nothing.                                                *)
Reconcile ==
  /\ tag' = [r \in Rows |->
               IF r \in Newest /\ Pairing(r, Newest) # NoTag
                 THEN Pairing(r, Newest) ELSE tag[r]]
  /\ settled' = TRUE
  /\ UNCHANGED rows

Next == StageRow \/ Reconcile

Spec == Init /\ [][Next]_vars

----------------------------------------------------------------------------
(* The tags after a reconciliation are those of the rows alone wherever    *)
(* the limit is not near, more than two windows after each row it leaves   *)
(* out: neither the order in which late events were staged nor the         *)
(* reconciliations that ran in between matter, and matched rows point to   *)
(* each other.                                                             *)
ClearOfLimit(r) == \A s \in Rows \ Newest : rows[r].at - rows[s].at > 2 * Window
TagsDependOnRowsOnly ==
  settled =>
    \A r \in Rows :
      ClearOfLimit(r) =>
        /\ tag[r] = Pairing(r, Rows)
        /\ tag[r].status = "matched" => tag[tag[r].counterpart] = MatchedWith(r)

(* Running it again without new rows changes nothing, so the retry in a    *)
(* later cycle that main.py counts on is harmless.                         *)
RepeatingChangesNothing == [][settled /\ settled' => tag' = tag]_vars

(* A match is overwritten only when some row is a rival candidate of one   *)
(* of its two sides: rows that slide out of the limit take no match along. *)
MatchLostOnlyToRival ==
  [][\A r \in Rows :
       tag[r].status = "matched" /\ tag'[r] # tag[r] =>
         \E s \in Rows \ {r, tag[r].counterpart} :
           CandidatePair(r, s) \/ CandidatePair(tag[r].counterpart, s)]_vars

(* The claim of the docstrings of reconciliation.py:89 and db.py:148, that *)
(* only one-to-one candidates are matched and candidates in a larger group *)
(* are tagged ambiguous: after a reconciliation a matched row and its      *)
(* counterpart have no other candidate among the staged rows.              *)
MatchesAreOneToOne ==
  settled =>
    \A r \in Rows :
      tag[r].status = "matched" => Candidates(r, Rows) = {tag[r].counterpart}

(* What every step keeps.  A tag, also an old one, is a row's only while   *)
(* it has candidates, and a settled table is one the pairing agrees with.  *)
TagsHaveCandidates ==
  \A r \in Rows :
    /\ tag[r] # NoTag => Candidates(r, Rows) # {}
    /\ tag[r].status = "matched" => tag[r].counterpart \in Candidates(r, Rows)
SettledTagsAgree ==
  settled => \A r \in Newest : Pairing(r, Newest) # NoTag => tag[r] = Pairing(r, Newest)
ReconciliationInv == TypeOK /\ TagsHaveCandidates /\ SettledTagsAgree

=============================================================================
