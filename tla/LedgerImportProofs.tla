------------------------- MODULE LedgerImportProofs -------------------------
(***************************************************************************)
(* LedgerImport's safety for every set of files, mappings and loops:       *)
(* ImportInv is inductive, and the properties of the tables and of the     *)
(* archive follow from it.                                                 *)
(***************************************************************************)
EXTENDS LedgerImport, SequenceTheorems, FiniteSetTheorems, WellFoundedInduction,
        TLAPS

----------------------------------------------------------------------------
(* What a batch makes of its table.                                        *)

LEMMA BatchTyped ==
  ASSUME NEW b \in Batch
  PROVE  /\ Table(b) \in Seq(Row) /\ Table(b) \in Content
         /\ b[2] \in Mapping /\ b[2].format \in Format
         /\ b = <<b[1], b[2]>>
BY InputAssumption DEF Batch, Table

LEMMA ValidRows ==
  ASSUME NEW b \in Batch
  PROVE  /\ DOMAIN Table(b) = 1 .. Len(Table(b)) /\ Len(Table(b)) \in Nat
         /\ IsFiniteSet(DOMAIN Table(b))
         /\ Cardinality(DOMAIN Table(b)) = Len(Table(b))
         /\ IsFiniteSet(Valid(b)) /\ Cardinality(Valid(b)) \in Nat
         /\ Cardinality(Valid(b)) <= Len(Table(b))
         /\ Cardinality(Valid(b)) = Len(Table(b)) => Valid(b) = DOMAIN Table(b)
<1>1. DOMAIN Table(b) = 1 .. Len(Table(b)) /\ Len(Table(b)) \in Nat
  BY BatchTyped
<1>2. /\ IsFiniteSet(1 .. Len(Table(b)))
      /\ Cardinality(1 .. Len(Table(b))) = Len(Table(b))
  <2> SUFFICES ASSUME NEW n \in Nat
               PROVE  IsFiniteSet(1 .. n) /\ Cardinality(1 .. n) = n
    BY <1>1
  <2>1. 1 \in Int /\ n \in Int
    OBVIOUS
  <2>2. IsFiniteSet(1 .. n) /\ Cardinality(1 .. n) = IF 1 > n THEN 0 ELSE n - 1 + 1
    BY <2>1, FS_Interval
  <2> QED
    BY <2>2
<1>3. Valid(b) \in SUBSET (DOMAIN Table(b))
  BY DEF Valid
<1> QED
  BY <1>1, <1>2, <1>3, FS_Subset, FS_CardinalityType

LEMMA RowsTyped ==
  ASSUME NEW b \in Batch, NEW i \in Valid(b)
  PROVE  Fp(b, i) \in Fingerprint /\ Reading(b, i) \in Amount
<1>1. i \in DOMAIN Table(b) /\ Table(b) \in Seq(Row)
  BY BatchTyped DEF Valid
<1>2. Table(b)[i] \in Row
  BY <1>1
<1>3. <<Table(b)[i].cell, b[2].format>> \in Cell \X Format
  BY <1>2, BatchTyped DEF Row
<1>4. Reading(b, i) \in Amount \cup {Malformed}
  BY <1>3, ParseAssumption DEF Reading
<1> QED
  BY <1>2, <1>4 DEF Row, Fp, Valid

LEMMA OutcomeTyped ==
  ASSUME NEW b \in Batch
  PROVE  Outcome(b) \in [status : Status, rows : Nat, errors : Nat]
<1> DEFINE errors == Len(Table(b)) - Cardinality(Valid(b))
<1>1. errors \in Nat /\ Len(Table(b)) \in Nat
  BY ValidRows
<1>2. errors + (IF Reconciled(b) THEN 0 ELSE 1) \in Nat
  BY <1>1
<1>3. (IF ~Reconciled(b) THEN "failed"
       ELSE IF errors > 0 THEN "partial" ELSE "completed") \in Status
  BY DEF Status
<1> QED
  BY <1>1, <1>2, <1>3 DEF Outcome

(* A batch counts as applied exactly when its reconciliation holds.        *)
LEMMA OutcomeStatus ==
  ASSUME NEW b
  PROVE  Outcome(b).status \in {"completed", "partial"} <=> Reconciled(b)
BY DEF Outcome

LEMMA WrittenTyped ==
  ASSUME NEW b \in Batch, NEW f \in Written(b)
  PROVE  /\ f \in Fingerprint /\ Reconciled(b)
         /\ Entry(b, f) \in [amount : Amount, batch : Batch]
         /\ Entry(b, f).batch = b
         /\ \E i \in Valid(b) : Fp(b, i) = f /\ Entry(b, f).amount = Reading(b, i)
<1>1. Reconciled(b) /\ f \in {Fp(b, i) : i \in Valid(b)}
  BY DEF Written
<1> DEFINE j == CHOOSE i \in Valid(b) : Fp(b, i) = f
<1>2. j \in Valid(b) /\ Fp(b, j) = f
  BY <1>1
<1>3. f \in Fingerprint /\ Reading(b, j) \in Amount
  BY <1>2, RowsTyped
<1>4. Entry(b, f) = [amount |-> Reading(b, j), batch |-> b]
  BY DEF Entry
<1> HIDE DEF j
<1>5. /\ Entry(b, f) \in [amount : Amount, batch : Batch]
      /\ Entry(b, f).batch = b /\ Entry(b, f).amount = Reading(b, j)
  BY <1>3, <1>4
<1> QED
  BY <1>1, <1>2, <1>3, <1>5

LEMMA ProvenanceRows ==
  ASSUME NEW b, NEW s \in Provenance(b)
  PROVE  \E i \in DOMAIN Table(b) : s = <<b, i>>
BY DEF Provenance

----------------------------------------------------------------------------
(* The transaction keeps the tables in order.                              *)

LEMMA CommitEffect ==
  ASSUME NEW b, Commit(b)
  PROVE  /\ DOMAIN batches' = DOMAIN batches \cup {b}
         /\ batches'[b] = Outcome(b)
         /\ \A c \in DOMAIN batches \ {b} : batches'[c] = batches[c]
         /\ sourceRows' = sourceRows \cup Provenance(b)
         /\ DOMAIN ledger' = DOMAIN ledger \cup Written(b)
         /\ \A f \in Written(b) : ledger'[f] = Entry(b, f)
         /\ \A f \in DOMAIN ledger \ Written(b) : ledger'[f] = ledger[f]
         /\ batches' = [c \in DOMAIN batches' |-> batches'[c]]
         /\ ledger' = [f \in DOMAIN ledger' |-> ledger'[f]]
BY DEF Commit, Over

LEMMA CommitKeepsTables ==
  ASSUME TablesTyped, BatchesAreOutcomes, EntriesAreWritten,
         NEW b \in Batch, Commit(b), ~(Reconciled(b) /\ Clash(b))
  PROVE  TablesTyped' /\ BatchesAreOutcomes' /\ EntriesAreWritten'
<1>1. /\ DOMAIN batches' = DOMAIN batches \cup {b}
      /\ batches'[b] = Outcome(b)
      /\ \A c \in DOMAIN batches \ {b} : batches'[c] = batches[c]
      /\ sourceRows' = sourceRows \cup Provenance(b)
      /\ DOMAIN ledger' = DOMAIN ledger \cup Written(b)
      /\ \A f \in Written(b) : ledger'[f] = Entry(b, f)
      /\ \A f \in DOMAIN ledger \ Written(b) : ledger'[f] = ledger[f]
      /\ batches' = [c \in DOMAIN batches' |-> batches'[c]]
      /\ ledger' = [f \in DOMAIN ledger' |-> ledger'[f]]
  BY CommitEffect
<1>2. \A c \in DOMAIN batches' : batches'[c] = Outcome(c)
  BY <1>1 DEF BatchesAreOutcomes
<1>3. TablesTyped'
  <2>1. DOMAIN batches' \subseteq Batch
    BY <1>1 DEF TablesTyped
  <2>2. batches' \in [DOMAIN batches' -> [status : Status, rows : Nat, errors : Nat]]
    BY <1>1, <1>2, <2>1, OutcomeTyped
  <2>3. \A s \in sourceRows' :
          \E c \in DOMAIN batches' : \E i \in DOMAIN Table(c) : s = <<c, i>>
    BY <1>1, ProvenanceRows DEF TablesTyped
  <2>4. DOMAIN ledger' \subseteq Fingerprint
    BY <1>1, WrittenTyped DEF TablesTyped
  <2>5. ledger' \in [DOMAIN ledger' -> [amount : Amount, batch : Batch]]
    <3>1. \A f \in DOMAIN ledger' : ledger'[f] \in [amount : Amount, batch : Batch]
      BY <1>1, WrittenTyped DEF TablesTyped
    <3> QED
      BY <1>1, <3>1
  <2> QED
    BY <2>1, <2>2, <2>3, <2>4, <2>5 DEF TablesTyped
<1>4. BatchesAreOutcomes'
  <2> SUFFICES ASSUME NEW c \in DOMAIN batches'
               PROVE  /\ batches'[c] = Outcome(c)
                      /\ Provenance(c) \subseteq sourceRows'
                      /\ Reconciled(c) => ~Clash(c)
                      /\ Written(c) \subseteq DOMAIN ledger'
    BY DEF BatchesAreOutcomes
  <2> QED
    BY <1>1, <1>2 DEF BatchesAreOutcomes
<1>5. EntriesAreWritten'
  <2> SUFFICES ASSUME NEW f \in DOMAIN ledger'
               PROVE  /\ ledger'[f].batch \in DOMAIN batches'
                      /\ f \in Written(ledger'[f].batch)
                      /\ ledger'[f] = Entry(ledger'[f].batch, f)
    BY DEF EntriesAreWritten
  <2>1. CASE f \in Written(b)
    BY <1>1, <2>1, WrittenTyped
  <2>2. CASE f \notin Written(b)
    BY <1>1, <2>2 DEF EntriesAreWritten
  <2> QED
    BY <2>1, <2>2
<1> QED
  BY <1>3, <1>4, <1>5

LEMMA TablesUnchanged ==
  ASSUME TablesTyped, BatchesAreOutcomes, EntriesAreWritten, UNCHANGED tables
  PROVE  TablesTyped' /\ BatchesAreOutcomes' /\ EntriesAreWritten'
BY DEF tables, TablesTyped, BatchesAreOutcomes, EntriesAreWritten

----------------------------------------------------------------------------
(* The loops.                                                              *)

LEMMA FailureCount ==
  ASSUME failures \in 0 .. MaxFailures, Fails
  PROVE  failures' \in 0 .. MaxFailures
BY ImportBounds DEF Fails

(* Files only move between folders.                                        *)
SameFiles ==
  /\ files' \in Seq([content : Content, folder : Folder])
  /\ Len(files') = Len(files)
  /\ \A f \in 1 .. Len(files) : files'[f].content = files[f].content

LEMMA MoveOneFile ==
  ASSUME files \in Seq([content : Content, folder : Folder]),
         NEW f \in 1 .. Len(files), NEW d \in Folder,
         files' = [files EXCEPT ![f].folder = d]
  PROVE  /\ SameFiles
         /\ \A g \in 1 .. Len(files) \ {f} : files'[g] = files[g]
         /\ files'[f].folder = d
<1>1. files[f] \in [content : Content, folder : Folder]
  BY ElementOfSeq
<1>2. [files[f] EXCEPT !.folder = d] \in [content : Content, folder : Folder]
  BY <1>1
<1>3. /\ files' \in Seq([content : Content, folder : Folder])
      /\ Len(files') = Len(files)
      /\ \A g \in 1 .. Len(files) :
           files'[g] = IF g = f THEN [files[f] EXCEPT !.folder = d] ELSE files[g]
  BY <1>2, ExceptSeq
<1>4. \A g \in 1 .. Len(files) : files'[g].content = files[g].content
  BY <1>1, <1>3
<1> QED
  BY <1>1, <1>3, <1>4 DEF SameFiles

LEMMA EndsKeepsLoops ==
  ASSUME LoopsTyped, ImportsItsFile, SuccessIsApplied,
         NEW p \in Run, pc[p] # "idle", NEW s \in BOOLEAN, Ends(p, s),
         UNCHANGED <<files, file, batch>>,
         DOMAIN batches \subseteq DOMAIN batches',
         s => batch[p] \in DOMAIN batches' /\ Reconciled(batch[p])
  PROVE  LoopsTyped' /\ ImportsItsFile' /\ SuccessIsApplied'
<1>1. /\ pc' \in [Run -> {"idle", "check", "normalize", "load", "done"}]
      /\ ok' \in [Run -> BOOLEAN]
      /\ pc'[p] = "done" /\ ok'[p] = s
      /\ \A q \in Run \ {p} : pc'[q] = pc[q] /\ ok'[q] = ok[q]
  BY DEF Ends, LoopsTyped
<1>2. LoopsTyped'
  BY <1>1 DEF LoopsTyped
<1>3. ImportsItsFile'
  BY <1>1 DEF ImportsItsFile
<1>4. SuccessIsApplied'
  BY <1>1 DEF SuccessIsApplied
<1> QED
  BY <1>2, <1>3, <1>4

LEMMA StopsKeepsLoops ==
  ASSUME LoopsTyped, ImportsItsFile, SuccessIsApplied,
         NEW p \in Run, Stops(p), SameFiles, UNCHANGED batches
  PROVE  LoopsTyped' /\ ImportsItsFile' /\ SuccessIsApplied'
<1>1. /\ pc' \in [Run -> {"idle", "check", "normalize", "load", "done"}]
      /\ ok' \in [Run -> BOOLEAN]
      /\ batch' \in [Run -> Batch \cup {NoBatch}]
      /\ pc'[p] = "idle"
      /\ \A q \in Run \ {p} : /\ pc'[q] = pc[q] /\ ok'[q] = ok[q]
                              /\ file'[q] = file[q] /\ batch'[q] = batch[q]
  BY DEF Stops, LoopsTyped
<1>2. file' \in [Run -> 0 .. Len(files')]
  BY DEF Stops, LoopsTyped, SameFiles
<1>3. LoopsTyped'
  BY <1>1, <1>2 DEF LoopsTyped
<1>4. ImportsItsFile'
  BY <1>1 DEF ImportsItsFile, SameFiles
<1>5. SuccessIsApplied'
  BY <1>1 DEF SuccessIsApplied
<1> QED
  BY <1>3, <1>4, <1>5

(* A step of an import that does not end it.                               *)
LEMMA GoesOnKeepsLoops ==
  ASSUME LoopsTyped, ImportsItsFile, SuccessIsApplied,
         NEW p \in Run, pc[p] # "idle", NEW l \in {"normalize", "load"},
         pc' = [pc EXCEPT ![p] = l],
         UNCHANGED <<files, file, batch, ok, batches>>
  PROVE  LoopsTyped' /\ ImportsItsFile' /\ SuccessIsApplied'
<1>1. /\ pc' \in [Run -> {"idle", "check", "normalize", "load", "done"}]
      /\ pc'[p] = l
      /\ \A q \in Run \ {p} : pc'[q] = pc[q]
  BY DEF LoopsTyped
<1>2. LoopsTyped'
  BY <1>1 DEF LoopsTyped
<1>3. ImportsItsFile'
  BY <1>1 DEF ImportsItsFile
<1>4. SuccessIsApplied'
  BY <1>1 DEF SuccessIsApplied
<1> QED
  BY <1>2, <1>3, <1>4

(* No step un-applies a batch, so an archive that does not change stays    *)
(* right.                                                                  *)
LEMMA ArchiveStays ==
  ASSUME ArchivedIsApplied, UNCHANGED files, DOMAIN batches \subseteq DOMAIN batches'
  PROVE  ArchivedIsApplied'
BY DEF ArchivedIsApplied

----------------------------------------------------------------------------
(* ImportInv is inductive.                                                 *)

LEMMA ImportInvInit == Init => ImportInv
<1> SUFFICES ASSUME Init PROVE ImportInv
  OBVIOUS
<1> USE DEF Init
<1>1. DOMAIN batches = {} /\ DOMAIN ledger = {} /\ Len(files) = 0
  OBVIOUS
<1>2. files \in Seq([content : Content, folder : Folder])
  OBVIOUS
<1>3. TypeOK
  BY <1>1, <1>2, ImportBounds DEF TypeOK, TablesTyped, LoopsTyped
<1>4. BatchesAreOutcomes /\ EntriesAreWritten
  BY <1>1 DEF BatchesAreOutcomes, EntriesAreWritten
<1>5. ArchivedIsApplied /\ ImportsItsFile /\ SuccessIsApplied
  BY <1>1 DEF ArchivedIsApplied, ImportsItsFile, SuccessIsApplied
<1> QED
  BY <1>3, <1>4, <1>5 DEF ImportInv

LEMMA ImportInvStep ==
  ASSUME ImportInv, [Next]_vars
  PROVE  ImportInv'
<1> USE DEF ImportInv, TypeOK
<1>0. CASE UNCHANGED vars
  <2>1. TablesTyped' /\ BatchesAreOutcomes' /\ EntriesAreWritten'
    BY <1>0, TablesUnchanged DEF vars
  <2>2. UNCHANGED <<files, processVars, failures, batches>>
    BY <1>0 DEF vars, tables
  <2>3. LoopsTyped' /\ ImportsItsFile' /\ SuccessIsApplied' /\ ArchivedIsApplied'
    BY <2>2 DEF processVars, LoopsTyped, ImportsItsFile, SuccessIsApplied,
                ArchivedIsApplied
  <2> QED
    BY <2>1, <2>2, <2>3
<1>1. CASE FileArrives
  <2>1. PICK c \in Content : files' = Append(files, [content |-> c, folder |-> "raw"])
    BY <1>1 DEF FileArrives
  <2>2. UNCHANGED <<tables, processVars, failures, batches>>
    BY <1>1 DEF FileArrives, tables
  <2>3. [content |-> c, folder |-> "raw"] \in [content : Content, folder : Folder]
    BY DEF Folder
  <2>4. /\ files' \in Seq([content : Content, folder : Folder])
        /\ Len(files) \in Nat /\ Len(files') = Len(files) + 1
        /\ \A f \in 1 .. Len(files) : files'[f] = files[f]
        /\ files'[Len(files) + 1].folder = "raw"
    BY <2>1, <2>3, AppendProperties, LenProperties
  <2>5. TablesTyped' /\ BatchesAreOutcomes' /\ EntriesAreWritten'
    BY <2>2, TablesUnchanged
  <2>6. LoopsTyped'
    <3>1. 0 .. Len(files) \subseteq 0 .. Len(files')
      BY <2>4
    <3> QED
      BY <2>2, <3>1 DEF LoopsTyped, processVars
  <2>7. ArchivedIsApplied'
    <3> SUFFICES ASSUME NEW f \in 1 .. Len(files'), files'[f].folder \in Imported
                 PROVE  \E b \in DOMAIN batches :
                          Table(b) = files'[f].content /\ Reconciled(b)
      BY <2>2 DEF ArchivedIsApplied
    <3>1. f # Len(files) + 1
      BY <2>4 DEF Imported
    <3>2. f \in 1 .. Len(files) /\ files'[f] = files[f]
      BY <2>4, <3>1
    <3> QED
      BY <3>2 DEF ArchivedIsApplied
  <2>8. ImportsItsFile' /\ SuccessIsApplied'
    BY <2>2, <2>4 DEF ImportsItsFile, SuccessIsApplied, processVars
  <2> QED
    BY <2>2, <2>4, <2>5, <2>6, <2>7, <2>8
<1>2. ASSUME NEW p \in Run, DropPick(p)
      PROVE  ImportInv'
  <2>1. PICK f \in 1 .. Len(files), m \in Mapping :
          /\ files[f].folder = "raw"
          /\ file' = [file EXCEPT ![p] = f]
          /\ batch' = [batch EXCEPT ![p] = <<files[f].content, m>>]
    BY <1>2 DEF DropPick
  <2>2. /\ pc' = [pc EXCEPT ![p] = "check"]
        /\ UNCHANGED <<files, tables, ok, failures, batches>>
    BY <1>2 DEF DropPick, tables
  <2>3. files[f].content \in Content /\ Len(files) \in Nat
    <3>1. files \in Seq([content : Content, folder : Folder])
      OBVIOUS
    <3>2. files[f] \in [content : Content, folder : Folder]
      BY <3>1, ElementOfSeq
    <3> QED
      BY <3>1, <3>2, LenProperties
  <2>4. /\ pc'[p] = "check" /\ file'[p] = f /\ batch'[p] = <<files[f].content, m>>
        /\ \A q \in Run \ {p} :
             pc'[q] = pc[q] /\ file'[q] = file[q] /\ batch'[q] = batch[q]
    BY <2>1, <2>2 DEF LoopsTyped
  <2>5. batch'[p] \in Batch /\ f # 0 /\ f \in 0 .. Len(files)
    BY <2>3, <2>4 DEF Batch
  <2>6. LoopsTyped'
    <3>1. /\ pc' \in [Run -> {"idle", "check", "normalize", "load", "done"}]
          /\ ok' \in [Run -> BOOLEAN]
      BY <2>2 DEF LoopsTyped
    <3>2. file' \in [Run -> 0 .. Len(files')]
      BY <2>1, <2>2, <2>5 DEF LoopsTyped
    <3>3. batch' \in [Run -> Batch \cup {NoBatch}]
      BY <2>1, <2>4, <2>5 DEF LoopsTyped
    <3> QED
      BY <2>4, <2>5, <3>1, <3>2, <3>3 DEF LoopsTyped
  <2>7. ImportsItsFile' /\ SuccessIsApplied'
    BY <2>2, <2>4 DEF ImportsItsFile, SuccessIsApplied, Table
  <2>8. TablesTyped' /\ BatchesAreOutcomes' /\ EntriesAreWritten'
    BY <2>2, TablesUnchanged
  <2> QED
    BY <2>2, <2>6, <2>7, <2>8, ArchiveStays
<1>3. ASSUME NEW p \in Run, DropUnmapped(p)
      PROVE  ImportInv'
  <2>1. PICK f \in 1 .. Len(files) :
          /\ files[f].folder = "raw"
          /\ files' = [files EXCEPT ![f].folder = "rejected"]
    BY <1>3 DEF DropUnmapped
  <2>2. UNCHANGED <<tables, processVars, failures, batches>>
    BY <1>3 DEF DropUnmapped, tables
  <2>3. /\ SameFiles /\ files'[f].folder = "rejected"
        /\ \A g \in 1 .. Len(files) \ {f} : files'[g] = files[g]
    BY <2>1, MoveOneFile DEF Folder
  <2>4. TablesTyped' /\ BatchesAreOutcomes' /\ EntriesAreWritten'
    BY <2>2, TablesUnchanged
  <2>5. LoopsTyped' /\ ImportsItsFile' /\ SuccessIsApplied'
    BY <2>2, <2>3 DEF LoopsTyped, ImportsItsFile, SuccessIsApplied, SameFiles,
                      processVars
  <2>6. ArchivedIsApplied'
    BY <2>2, <2>3 DEF ArchivedIsApplied, SameFiles, Imported
  <2> QED
    BY <2>2, <2>3, <2>4, <2>5, <2>6 DEF SameFiles
<1>4. ASSUME NEW p \in Run, Check(p)
      PROVE  ImportInv'
  <2>1. pc[p] = "check" /\ UNCHANGED <<files, tables, file, batch, batches>>
    BY <1>4 DEF Check, tables
  <2>2. TablesTyped' /\ BatchesAreOutcomes' /\ EntriesAreWritten' /\ ArchivedIsApplied'
    BY <2>1, TablesUnchanged, ArchiveStays
  <2>3. failures' \in 0 .. MaxFailures
    BY <1>4, FailureCount DEF Check
  <2>4. \/ pc' = [pc EXCEPT ![p] = "normalize"] /\ UNCHANGED ok
        \/ Ends(p, FALSE)
        \/ /\ Ends(p, TRUE)
           /\ batch[p] \in DOMAIN batches /\ batches[batch[p]].status = "completed"
    BY <1>4 DEF Check
  <2>5. batch[p] \in DOMAIN batches /\ batches[batch[p]].status = "completed"
          => Reconciled(batch[p])
    BY OutcomeStatus DEF BatchesAreOutcomes
  <2>6. LoopsTyped' /\ ImportsItsFile' /\ SuccessIsApplied'
    BY <2>1, <2>4, <2>5, GoesOnKeepsLoops, EndsKeepsLoops
  <2> QED
    BY <2>1, <2>2, <2>3, <2>6
<1>5. ASSUME NEW p \in Run, Normalize(p)
      PROVE  ImportInv'
  <2>1. /\ pc[p] = "normalize"
        /\ UNCHANGED <<files, tables, file, batch, failures, batches>>
    BY <1>5 DEF Normalize, tables
  <2>2. TablesTyped' /\ BatchesAreOutcomes' /\ EntriesAreWritten' /\ ArchivedIsApplied'
    BY <2>1, TablesUnchanged, ArchiveStays
  <2>3. \/ pc' = [pc EXCEPT ![p] = "load"] /\ UNCHANGED ok
        \/ Ends(p, FALSE)
    BY <1>5 DEF Normalize
  <2>4. LoopsTyped' /\ ImportsItsFile' /\ SuccessIsApplied'
    BY <2>1, <2>3, GoesOnKeepsLoops, EndsKeepsLoops
  <2> QED
    BY <2>1, <2>2, <2>4
<1>6. ASSUME NEW p \in Run, Load(p)
      PROVE  ImportInv'
  <2>1. pc[p] = "load" /\ UNCHANGED <<files, file, batch>>
    BY <1>6 DEF Load
  <2>2. batch[p] \in Batch
    BY <2>1 DEF LoopsTyped
  <2>3. failures' \in 0 .. MaxFailures
    BY <1>6, FailureCount DEF Load
  <2>4. CASE /\ ~(Reconciled(batch[p]) /\ Clash(batch[p]))
             /\ Commit(batch[p])
             /\ Ends(p, Reconciled(batch[p])) \/ Ends(p, FALSE)
    <3>1. TablesTyped' /\ BatchesAreOutcomes' /\ EntriesAreWritten'
      BY <2>2, <2>4, CommitKeepsTables
    <3>2. DOMAIN batches' = DOMAIN batches \cup {batch[p]}
      BY <2>4, CommitEffect
    <3>3. Reconciled(batch[p]) \in BOOLEAN
      BY DEF Reconciled
    <3>4. LoopsTyped' /\ ImportsItsFile' /\ SuccessIsApplied'
      BY <2>1, <2>4, <3>2, <3>3, EndsKeepsLoops
    <3> QED
      BY <2>1, <2>3, <3>1, <3>2, <3>4, ArchiveStays
  <2>5. CASE Ends(p, FALSE) /\ UNCHANGED tables
    <3>1. UNCHANGED batches
      BY <2>5 DEF tables
    <3>2. TablesTyped' /\ BatchesAreOutcomes' /\ EntriesAreWritten' /\ ArchivedIsApplied'
      BY <2>1, <2>5, <3>1, TablesUnchanged, ArchiveStays
    <3>3. LoopsTyped' /\ ImportsItsFile' /\ SuccessIsApplied'
      BY <2>1, <2>5, <3>1, EndsKeepsLoops
    <3> QED
      BY <2>1, <2>3, <3>2, <3>3
  <2> QED
    BY <1>6, <2>4, <2>5 DEF Load
<1>7. ASSUME NEW p \in Run, Move(p)
      PROVE  ImportInv'
  <2> DEFINE f == file[p]
             d == IF ok[p] THEN "archive" ELSE "rejected"
  <2>1. pc[p] = "done" /\ Stops(p) /\ UNCHANGED <<tables, failures, batches>>
    BY <1>7 DEF Move, tables
  <2>2. f \in 1 .. Len(files) /\ Table(batch[p]) = files[f].content
    BY <2>1 DEF ImportsItsFile
  <2>3. /\ SameFiles
        /\ \A g \in 1 .. Len(files) \ {f} : files'[g] = files[g]
        /\ files'[f] = files[f] \/ files'[f].folder = d
    <3>1. CASE Present(p)
      <4>1. files' = [files EXCEPT ![f].folder = d] /\ d \in Folder
        BY <1>7, <3>1 DEF Move, Folder
      <4> HIDE DEF d, f
      <4> QED
        BY <2>2, <4>1, MoveOneFile
    <3>2. CASE ~Present(p)
      BY <1>7, <3>2 DEF Move, SameFiles
    <3> QED
      BY <3>1, <3>2
  <2>4. TablesTyped' /\ BatchesAreOutcomes' /\ EntriesAreWritten'
    BY <2>1, TablesUnchanged
  <2>5. LoopsTyped' /\ ImportsItsFile' /\ SuccessIsApplied'
    BY <2>1, <2>3, StopsKeepsLoops
  <2>6. ArchivedIsApplied'
    <3> SUFFICES ASSUME NEW g \in 1 .. Len(files'), files'[g].folder \in Imported
                 PROVE  \E b \in DOMAIN batches :
                          Table(b) = files'[g].content /\ Reconciled(b)
      BY <2>1 DEF ArchivedIsApplied
    <3>1. g \in 1 .. Len(files) /\ files'[g].content = files[g].content
      BY <2>3 DEF SameFiles
    <3>2. CASE files'[g] = files[g]
      BY <3>1, <3>2 DEF ArchivedIsApplied
    <3>3. CASE g = f /\ files'[f].folder = d
      <4>1. ok[p]
        BY <3>3 DEF Imported
      <4>2. batch[p] \in DOMAIN batches /\ Reconciled(batch[p])
        BY <2>1, <4>1 DEF SuccessIsApplied
      <4> QED
        BY <2>2, <3>1, <3>3, <4>2
    <3> QED
      BY <2>3, <3>1, <3>2, <3>3
  <2> QED
    BY <2>1, <2>3, <2>4, <2>5, <2>6 DEF SameFiles
<1>8. ASSUME NEW p \in Run, CallFails(p)
      PROVE  ImportInv'
  <2>1. /\ pc[p] # "idle" /\ Ends(p, FALSE) /\ Fails
        /\ UNCHANGED <<files, tables, file, batch, batches>>
    BY <1>8 DEF CallFails, tables
  <2>2. TablesTyped' /\ BatchesAreOutcomes' /\ EntriesAreWritten' /\ ArchivedIsApplied'
    BY <2>1, TablesUnchanged, ArchiveStays
  <2>3. LoopsTyped' /\ ImportsItsFile' /\ SuccessIsApplied'
    BY <2>1, EndsKeepsLoops
  <2> QED
    BY <2>1, <2>2, <2>3, FailureCount
<1>9. ASSUME NEW p \in Run, Crash(p)
      PROVE  ImportInv'
  <2>1. Stops(p) /\ Fails /\ UNCHANGED <<files, tables, batches>>
    BY <1>9 DEF Crash, tables
  <2>2. TablesTyped' /\ BatchesAreOutcomes' /\ EntriesAreWritten' /\ ArchivedIsApplied'
    BY <2>1, TablesUnchanged, ArchiveStays
  <2>3. SameFiles
    BY <2>1 DEF SameFiles
  <2>4. LoopsTyped' /\ ImportsItsFile' /\ SuccessIsApplied'
    BY <2>1, <2>3, StopsKeepsLoops
  <2> QED
    BY <2>1, <2>2, <2>3, <2>4, FailureCount DEF SameFiles
<1>10. CASE RetentionCleanup
  <2>1. PICK f \in 1 .. Len(files), d \in Folder :
          /\ files' = [files EXCEPT ![f].folder = d]
          /\ files[f].folder \notin Imported => d \notin Imported
    BY <1>10 DEF RetentionCleanup, Folder, Imported
  <2>2. UNCHANGED <<tables, processVars, failures, batches>>
    BY <1>10 DEF RetentionCleanup, tables
  <2>3. /\ SameFiles /\ files'[f].folder = d
        /\ \A g \in 1 .. Len(files) \ {f} : files'[g] = files[g]
    BY <2>1, MoveOneFile
  <2>4. TablesTyped' /\ BatchesAreOutcomes' /\ EntriesAreWritten'
    BY <2>2, TablesUnchanged
  <2>5. LoopsTyped' /\ ImportsItsFile' /\ SuccessIsApplied'
    BY <2>2, <2>3 DEF LoopsTyped, ImportsItsFile, SuccessIsApplied, SameFiles,
                      processVars
  <2>6. ArchivedIsApplied'
    BY <2>1, <2>2, <2>3 DEF ArchivedIsApplied, SameFiles
  <2> QED
    BY <2>2, <2>3, <2>4, <2>5, <2>6 DEF SameFiles
<1> QED
  BY <1>0, <1>1, <1>2, <1>3, <1>4, <1>5, <1>6, <1>7, <1>8, <1>9, <1>10
  DEF Next, DropStep

(* In every reachable state ImportInv holds: a recorded batch is what its  *)
(* content and mapping make of it, every transaction is one its batch      *)
(* writes, and a loop's success means that its batch is applied.           *)
THEOREM ImportInvariant == Spec => []ImportInv
<1>1. Init => ImportInv
  BY ImportInvInit
<1>2. ImportInv /\ [Next]_vars => ImportInv'
  BY ImportInvStep
<1> QED
  BY <1>1, <1>2, PTL DEF Spec

(* The state is well typed.                                                *)
THEOREM TypeCorrect == Spec => []TypeOK
<1>1. ImportInv => TypeOK
  BY DEF ImportInv
<1> QED
  BY <1>1, ImportInvariant, PTL

----------------------------------------------------------------------------
(* What users of the ledger rely on.                                       *)

LEMMA AppliedBatch ==
  ASSUME ImportInv, NEW b \in DOMAIN batches
  PROVE  b \in Batch /\ (Applied(b) <=> Reconciled(b))
BY OutcomeStatus DEF ImportInv, TypeOK, TablesTyped, BatchesAreOutcomes, Applied

(* archive/ only ever holds files whose rows are in the ledger, however    *)
(* many loops run and whatever fails (archive_file after the import's      *)
(* status), and the cleanup deletes no others from it.                     *)
THEOREM ArchivedIsInLedgerHolds == Spec => []ArchivedIsInLedger
<1>1. ImportInv => ArchivedIsInLedger
  <2> SUFFICES ASSUME ImportInv, NEW f \in 1 .. Len(files),
                      files[f].folder \in Imported
               PROVE  \E b \in DOMAIN batches :
                        /\ Table(b) = files[f].content
                        /\ Applied(b)
                        /\ {Fp(b, i) : i \in Valid(b)} \subseteq DOMAIN ledger
    BY DEF ArchivedIsInLedger
  <2>1. PICK b \in DOMAIN batches : Table(b) = files[f].content /\ Reconciled(b)
    BY DEF ImportInv, ArchivedIsApplied
  <2>2. Written(b) \subseteq DOMAIN ledger
    BY DEF ImportInv, BatchesAreOutcomes
  <2>3. {Fp(b, i) : i \in Valid(b)} \subseteq DOMAIN ledger
    BY <2>1, <2>2 DEF Written
  <2> QED
    BY <2>1, <2>3, AppliedBatch
<1> QED
  BY <1>1, ImportInvariant, PTL

LEMMA LeastRow ==
  ASSUME NEW S \in SUBSET Nat, S # {}
  PROVE  \E k \in S : \A j \in S : k <= j
<1>1. IsWellFoundedOn(OpToRel(<, Nat), Nat)
  BY NatLessThanWellFounded
<1>2. PICK k \in S : \A j \in S : ~(<<j, k>> \in OpToRel(<, Nat))
  BY <1>1, WFMin
<1>3. \A j \in S : ~(j < k)
  BY <1>2 DEF OpToRel
<1> QED
  BY <1>3

(* A row whose hash an earlier row of the batch has is kept through the    *)
(* first such row.                                                         *)
LEMMA FirstRowKept ==
  ASSUME NEW b \in Batch, NEW i \in DOMAIN Table(b)
  PROVE  \E k \in DOMAIN Table(b) :
           <<b, k>> \in Provenance(b) /\ Table(b)[k] = Table(b)[i]
<1> DEFINE Same == {k \in DOMAIN Table(b) : Table(b)[k] = Table(b)[i]}
<1>1. DOMAIN Table(b) = 1 .. Len(Table(b)) /\ Len(Table(b)) \in Nat
  BY ValidRows
<1>2. PICK k \in Same : \A j \in Same : k <= j
  <2>1. Same \in SUBSET Nat /\ Same # {}
    BY <1>1
  <2> QED
    BY <2>1, LeastRow
<1>3. \A j \in 1 .. (k - 1) : Table(b)[j] # Table(b)[k]
  BY <1>1, <1>2
<1> QED
  BY <1>1, <1>2, <1>3 DEF Provenance

(* Every transaction comes from a row of an applied batch that is still    *)
(* recorded (source_rows before transactions in emit's SQL).               *)
THEOREM LedgerHasProvenanceHolds == Spec => []LedgerHasProvenance
<1>1. ImportInv => LedgerHasProvenance
  <2> SUFFICES ASSUME ImportInv, NEW f \in DOMAIN ledger
               PROVE  /\ Applied(ledger[f].batch)
                      /\ \E i \in DOMAIN Table(ledger[f].batch) :
                           /\ <<ledger[f].batch, i>> \in sourceRows
                           /\ Fp(ledger[f].batch, i) = f
                           /\ Reading(ledger[f].batch, i) = ledger[f].amount
    BY DEF LedgerHasProvenance
  <2> DEFINE b == ledger[f].batch
  <2>1. b \in DOMAIN batches /\ f \in Written(b) /\ ledger[f] = Entry(b, f)
    BY DEF ImportInv, EntriesAreWritten
  <2>2. b \in Batch
    BY <2>1, AppliedBatch
  <2> HIDE DEF b
  <2>3. PICK i \in Valid(b) : Fp(b, i) = f /\ ledger[f].amount = Reading(b, i)
    BY <2>1, <2>2, WrittenTyped
  <2>4. i \in DOMAIN Table(b)
    BY DEF Valid
  <2>5. PICK k \in DOMAIN Table(b) :
          <<b, k>> \in Provenance(b) /\ Table(b)[k] = Table(b)[i]
    BY <2>2, <2>4, FirstRowKept
  <2>6. <<b, k>> \in sourceRows
    BY <2>1, <2>5 DEF ImportInv, BatchesAreOutcomes
  <2>7. Fp(b, k) = f /\ Reading(b, k) = ledger[f].amount
    BY <2>3, <2>5 DEF Fp, Reading
  <2>8. Applied(b)
    BY <2>1, <2>2, AppliedBatch, WrittenTyped
  <2> QED
    BY <2>5, <2>6, <2>7, <2>8 DEF b
<1> QED
  BY <1>1, ImportInvariant, PTL

(* No row of a recorded batch is lost, and a completed batch counts        *)
(* exactly the rows it keeps (emit's INSERT into source_rows and its final *)
(* UPDATE of the counts).                                                  *)
THEOREM BatchKeepsItsRowsHolds == Spec => []BatchKeepsItsRows
<1>1. ImportInv => BatchKeepsItsRows
  <2> SUFFICES ASSUME ImportInv, NEW b \in DOMAIN batches
               PROVE  LET kept == {i \in DOMAIN Table(b) : <<b, i>> \in sourceRows}
                      IN  /\ \A i \in DOMAIN Table(b) :
                               \E k \in kept : Table(b)[k] = Table(b)[i]
                          /\ batches[b].status = "completed" =>
                               /\ batches[b].rows = Cardinality(kept)
                               /\ batches[b].errors = 0
    BY DEF BatchKeepsItsRows
  <2> DEFINE kept == {i \in DOMAIN Table(b) : <<b, i>> \in sourceRows}
  <2>1. b \in Batch
    BY AppliedBatch
  <2>2. /\ batches[b] = Outcome(b) /\ Provenance(b) \subseteq sourceRows
        /\ Reconciled(b) => ~Clash(b)
    BY DEF ImportInv, BatchesAreOutcomes
  <2>3. \A i \in DOMAIN Table(b) : \E k \in kept : Table(b)[k] = Table(b)[i]
    BY <2>1, <2>2, FirstRowKept
  <2>4. ASSUME batches[b].status = "completed"
        PROVE  batches[b].rows = Cardinality(kept) /\ batches[b].errors = 0
    <3> DEFINE errors == Len(Table(b)) - Cardinality(Valid(b))
    <3>1. /\ Reconciled(b) /\ ~(errors > 0)
          /\ batches[b].rows = Len(Table(b)) /\ batches[b].errors = errors + 0
      BY <2>2, <2>4 DEF Outcome
    <3>2. errors = 0
      BY <2>1, <3>1, ValidRows
    <3>3. Valid(b) = DOMAIN Table(b)
      BY <2>1, <3>2, ValidRows
    <3>4. \A i, j \in DOMAIN Table(b) : i # j => Table(b)[i] # Table(b)[j]
      BY <2>2, <3>1, <3>3 DEF Clash, Fp
    <3>5. \A i \in DOMAIN Table(b) : <<b, i>> \in Provenance(b)
      BY <2>1, <3>4, ValidRows DEF Provenance
    <3>6. kept = DOMAIN Table(b)
      BY <2>2, <3>5
    <3> QED
      BY <2>1, <3>1, <3>2, <3>6, ValidRows
  <2> QED
    BY <2>3, <2>4
<1> QED
  BY <1>1, ImportInvariant, PTL

(* A batch that is recorded and still owns its transactions is not changed *)
(* by another import of it (the ON CONFLICT clauses of emit's SQL).        *)
LEMMA CommitAgain ==
  ASSUME ImportInv, NEW b \in DOMAIN batches, Commit(b),
         \A f \in Written(b) : f \in DOMAIN ledger /\ ledger[f].batch = b
  PROVE  UNCHANGED tables
<1>1. /\ batches[b] = Outcome(b) /\ Provenance(b) \subseteq sourceRows
      /\ batches = [c \in DOMAIN batches |-> batches[c]]
      /\ ledger = [f \in DOMAIN ledger |-> ledger[f]]
  BY DEF ImportInv, TypeOK, TablesTyped, BatchesAreOutcomes
<1>2. \A f \in Written(b) : f \in DOMAIN ledger /\ ledger[f] = Entry(b, f)
  BY DEF ImportInv, EntriesAreWritten
<1>3. /\ DOMAIN batches' = DOMAIN batches \cup {b} /\ batches'[b] = Outcome(b)
      /\ \A c \in DOMAIN batches \ {b} : batches'[c] = batches[c]
      /\ sourceRows' = sourceRows \cup Provenance(b)
      /\ DOMAIN ledger' = DOMAIN ledger \cup Written(b)
      /\ \A f \in Written(b) : ledger'[f] = Entry(b, f)
      /\ \A f \in DOMAIN ledger \ Written(b) : ledger'[f] = ledger[f]
      /\ batches' = [c \in DOMAIN batches' |-> batches'[c]]
      /\ ledger' = [f \in DOMAIN ledger' |-> ledger'[f]]
  BY CommitEffect
<1>4. batches' = batches
  <2>1. DOMAIN batches' = DOMAIN batches
    BY <1>3
  <2>2. \A c \in DOMAIN batches : batches'[c] = batches[c]
    BY <1>1, <1>3
  <2>3. batches' = [c \in DOMAIN batches' |-> batches'[c]]
    BY <1>3
  <2> QED
    BY <1>1, <2>1, <2>2, <2>3
<1>5. sourceRows' = sourceRows
  BY <1>1, <1>3
<1>6. ledger' = ledger
  <2>1. DOMAIN ledger' = DOMAIN ledger
    BY <1>2, <1>3
  <2>2. \A f \in DOMAIN ledger : ledger'[f] = ledger[f]
    BY <1>2, <1>3
  <2>3. ledger' = [f \in DOMAIN ledger' |-> ledger'[f]]
    BY <1>3
  <2> QED
    BY <1>1, <2>1, <2>2, <2>3
<1> QED
  BY <1>4, <1>5, <1>6 DEF tables

(* A second import of a batch changes no table, from a crash between       *)
(* commit and move or from another loop.                                   *)
THEOREM AgainChangesNothingHolds == Spec => AgainChangesNothing
<1> DEFINE Again(p) ==
      /\ pc[p] = "load" /\ pc'[p] = "done"
      /\ batch[p] \in DOMAIN batches
      /\ \A f \in Written(batch[p]) :
           f \in DOMAIN ledger /\ ledger[f].batch = batch[p]
<1>1. ImportInv /\ [Next]_vars => [\A p \in Run : Again(p) => UNCHANGED tables]_vars
  <2> SUFFICES ASSUME ImportInv, Next, NEW p \in Run, Again(p)
               PROVE  UNCHANGED tables
    OBVIOUS
  <2>1. pc \in [Run -> {"idle", "check", "normalize", "load", "done"}]
    BY DEF ImportInv, TypeOK, LoopsTyped
  <2>2. CASE FileArrives \/ RetentionCleanup
    BY <2>2 DEF FileArrives, RetentionCleanup
  <2>3. ASSUME NEW q \in Run, DropStep(q) \/ CallFails(q) \/ Crash(q)
        PROVE  UNCHANGED tables
    <3>1. CASE ~Load(q)
      BY <2>3, <3>1 DEF DropStep, DropPick, DropUnmapped, Check, Normalize, Move,
                        CallFails, Crash
    <3>2. CASE Load(q)
      <4>1. pc'[q] = "done" /\ \A r \in Run \ {q} : pc'[r] = pc[r]
        BY <2>1, <3>2 DEF Load, Ends
      <4>2. q = p
        BY <4>1
      <4>3. Commit(batch[q]) \/ UNCHANGED tables
        BY <3>2 DEF Load
      <4> QED
        BY <4>2, <4>3, CommitAgain
    <3> QED
      BY <3>1, <3>2
  <2> QED
    BY <2>2, <2>3 DEF Next
<1> QED
  BY <1>1, ImportInvariant, PTL DEF Spec, AgainChangesNothing

(* Which transactions exist depends on the recorded batches alone, and so  *)
(* does the amount of one that no two batches read differently: the order  *)
(* of the imports, which loops, retries and hand-made commands decide,     *)
(* matters only between batches that disagree on a transaction.            *)
OrderMattersOnlyForConflicts ==
  /\ DOMAIN ledger = UNION {Written(b) : b \in DOMAIN batches}
  /\ \A b \in DOMAIN batches : \A f \in Written(b) :
       (\A c \in DOMAIN batches :
          f \in Written(c) => Entry(c, f).amount = Entry(b, f).amount)
         => ledger[f].amount = Entry(b, f).amount

(* The order in which batches were imported shows in the ledger only where *)
(* two of them read one transaction differently (ON CONFLICT DO UPDATE by  *)
(* fingerprint in emit's SQL).                                             *)
THEOREM LedgerFollowsFromBatches == Spec => []OrderMattersOnlyForConflicts
<1>1. ImportInv => OrderMattersOnlyForConflicts
  <2> SUFFICES ASSUME ImportInv PROVE OrderMattersOnlyForConflicts
    OBVIOUS
  <2>1. \A b \in DOMAIN batches : Written(b) \subseteq DOMAIN ledger
    BY DEF ImportInv, BatchesAreOutcomes
  <2>2. \A f \in DOMAIN ledger :
          /\ ledger[f].batch \in DOMAIN batches /\ f \in Written(ledger[f].batch)
          /\ ledger[f] = Entry(ledger[f].batch, f)
    BY DEF ImportInv, EntriesAreWritten
  <2>3. DOMAIN ledger = UNION {Written(b) : b \in DOMAIN batches}
    BY <2>1, <2>2
  <2> QED
    BY <2>1, <2>2, <2>3 DEF OrderMattersOnlyForConflicts
<1> QED
  BY <1>1, ImportInvariant, PTL

----------------------------------------------------------------------------
(* The imports implement SerialLedger.                                     *)

(* A batch that comes to its transaction has been read by the normalizer.  *)
LoadsReadable == \A p \in Run : pc[p] = "load" => batch[p] \notin Unreadable

LEMMA LoadsReadableStep ==
  ASSUME ImportInv, LoadsReadable, [Next]_vars
  PROVE  LoadsReadable'
<1> SUFFICES ASSUME NEW p \in Run, pc'[p] = "load"
             PROVE  batch'[p] \notin Unreadable
  BY DEF LoadsReadable
<1>0. /\ pc \in [Run -> {"idle", "check", "normalize", "load", "done"}]
      /\ batch \in [Run -> Batch \cup {NoBatch}]
  BY DEF ImportInv, TypeOK, LoopsTyped
<1>1. CASE UNCHANGED <<pc, batch>>
  BY <1>1 DEF LoadsReadable
<1>2. ASSUME NEW q \in Run, DropStep(q) \/ CallFails(q) \/ Crash(q),
             ~Normalize(q), ~DropUnmapped(q)
      PROVE  pc'[p] = pc[p] /\ batch'[p] = batch[p]
  BY <1>0, <1>2 DEF DropStep, DropPick, Check, Load, Move, CallFails, Crash, Ends,
                    Stops
<1>3. ASSUME NEW q \in Run, Normalize(q)
      PROVE  batch'[p] \notin Unreadable
  <2>1. CASE p = q
    BY <1>0, <1>3, <2>1 DEF Normalize, Ends
  <2>2. CASE p # q
    BY <1>0, <1>3, <2>2 DEF Normalize, Ends, LoadsReadable
  <2> QED
    BY <2>1, <2>2
<1>4. CASE FileArrives \/ RetentionCleanup \/ \E q \in Run : DropUnmapped(q)
  BY <1>1, <1>4 DEF FileArrives, RetentionCleanup, DropUnmapped, processVars
<1>5. CASE UNCHANGED vars
  BY <1>1, <1>5 DEF vars, processVars
<1> QED
  BY <1>2, <1>3, <1>4, <1>5 DEF Next, LoadsReadable

(* What the files' moves do to the contents of a set of folders.           *)
LEMMA FolderUnchanged ==
  ASSUME UNCHANGED files, NEW S
  PROVE  InFolder(S)' = InFolder(S)
BY DEF InFolder

LEMMA ArrivalInFolder ==
  ASSUME files \in Seq([content : Content, folder : Folder]), NEW c \in Content,
         files' = Append(files, [content |-> c, folder |-> "raw"]), NEW S
  PROVE  InFolder(S)' = IF "raw" \in S THEN InFolder(S) \cup {c} ELSE InFolder(S)
<1>1. [content |-> c, folder |-> "raw"] \in [content : Content, folder : Folder]
  BY DEF Folder
<1>2. /\ Len(files) \in Nat /\ Len(files') = Len(files) + 1
      /\ \A f \in 1 .. Len(files) : files'[f] = files[f]
      /\ files'[Len(files) + 1] = [content |-> c, folder |-> "raw"]
  BY <1>1, AppendProperties, LenProperties
<1>3. 1 .. Len(files') = 1 .. Len(files) \cup {Len(files) + 1}
  BY <1>2
<1>4. {g \in 1 .. Len(files') : files'[g].folder \in S} =
        {g \in 1 .. Len(files) : files[g].folder \in S}
          \cup (IF "raw" \in S THEN {Len(files) + 1} ELSE {})
  BY <1>2, <1>3
<1> QED
  BY <1>2, <1>4 DEF InFolder

LEMMA MoveInFolder ==
  ASSUME SameFiles, NEW f \in 1 .. Len(files), NEW S,
         \A g \in 1 .. Len(files) \ {f} : files'[g] = files[g]
  PROVE  /\ (files'[f].folder \in S <=> files[f].folder \in S)
               => InFolder(S)' = InFolder(S)
         /\ files'[f].folder \in S
               => InFolder(S)' = InFolder(S) \cup {files[f].content}
<1>1. /\ 1 .. Len(files') = 1 .. Len(files)
      /\ \A g \in 1 .. Len(files) : files'[g].content = files[g].content
  BY DEF SameFiles
<1>2. {g \in 1 .. Len(files') : files'[g].folder \in S} \ {f} =
        {g \in 1 .. Len(files) : files[g].folder \in S} \ {f}
  BY <1>1
<1>3. InFolder(S)' = {files[g].content :
                        g \in {h \in 1 .. Len(files) : files'[h].folder \in S}}
  BY <1>1 DEF InFolder
<1>4. ASSUME files'[f].folder \in S <=> files[f].folder \in S
      PROVE  InFolder(S)' = InFolder(S)
  <2>1. {g \in 1 .. Len(files) : files'[g].folder \in S} =
          {g \in 1 .. Len(files) : files[g].folder \in S}
    BY <1>4
  <2> QED
    BY <1>3, <2>1 DEF InFolder
<1>5. ASSUME files'[f].folder \in S
      PROVE  InFolder(S)' = InFolder(S) \cup {files[f].content}
  <2>1. {g \in 1 .. Len(files) : files'[g].folder \in S} =
          {g \in 1 .. Len(files) : files[g].folder \in S} \cup {f}
    BY <1>5
  <2> QED
    BY <1>3, <2>1 DEF InFolder
<1> QED
  BY <1>4, <1>5

(* A step that leaves the tables alone and moves one file, perhaps to the  *)
(* archive after an import of it, is an Archive or a stutter.              *)
LEMMA MoveIsAbstract ==
  ASSUME ImportInv, SameFiles, UNCHANGED tables, NEW f \in 1 .. Len(files),
         \A g \in 1 .. Len(files) \ {f} : files'[g] = files[g],
         files'[f].folder \in Imported =>
           \/ files[f].folder \in Imported
           \/ \E b \in DOMAIN batches : Table(b) = files[f].content /\ Applied(b),
         files[f].folder \in Imported => files'[f].folder \in Imported
  PROVE  [Abstract!Next]_(Abstract!vars)
<1>0. UNCHANGED <<batches, ledger>>
  BY DEF tables
<1>1. /\ files[f] \in [content : Content, folder : Folder]
      /\ files'[f] \in [content : Content, folder : Folder]
  BY ElementOfSeq DEF SameFiles, ImportInv, TypeOK
<1>2. InFolder(Folder)' = InFolder(Folder)
  BY <1>1, MoveInFolder
<1>3. {b \in DOMAIN batches : Applied(b)}' = {b \in DOMAIN batches : Applied(b)}
  BY <1>0 DEF Applied
<1>4. CASE files'[f].folder \in Imported <=> files[f].folder \in Imported
  <2>1. InFolder(Imported)' = InFolder(Imported)
    BY <1>4, MoveInFolder
  <2> QED
    BY <1>0, <1>2, <1>3, <2>1 DEF Abstract!vars
<1>5. CASE files'[f].folder \in Imported /\ files[f].folder \notin Imported
  <2>1. InFolder(Imported)' = InFolder(Imported) \cup {files[f].content}
    BY <1>5, MoveInFolder
  <2>2. PICK b \in DOMAIN batches : Table(b) = files[f].content /\ Applied(b)
    BY <1>5
  <2>3. b \in {c \in DOMAIN batches : Applied(c)} /\ b[1] = files[f].content
    BY <2>2 DEF Table
  <2>4. Abstract!Archive(files[f].content)
    BY <1>0, <1>2, <1>3, <2>1, <2>3 DEF Abstract!Archive
  <2> QED
    BY <1>1, <2>4 DEF Abstract!Next
<1> QED
  BY <1>4, <1>5

(* The transaction is an Import, or changes nothing of the ledger when the *)
(* reconciliation failed.                                                  *)
LEMMA CommitIsAbstract ==
  ASSUME ImportInv, NEW b \in Batch \ Unreadable, NEW f \in 1 .. Len(files),
         Table(b) = files[f].content,
         Commit(b), ~(Reconciled(b) /\ Clash(b)), UNCHANGED files
  PROVE  [Abstract!Next]_(Abstract!vars)
<1> DEFINE imported == {c \in DOMAIN batches : Applied(c)}
<1>1. InFolder(Folder)' = InFolder(Folder) /\ InFolder(Imported)' = InFolder(Imported)
  BY FolderUnchanged
<1>2. b[1] \in InFolder(Folder)
  <2>1. files[f] \in [content : Content, folder : Folder]
    BY ElementOfSeq DEF ImportInv, TypeOK
  <2> QED
    BY <2>1 DEF InFolder, Table
<1>3. /\ DOMAIN batches' = DOMAIN batches \cup {b} /\ batches'[b] = Outcome(b)
      /\ \A c \in DOMAIN batches \ {b} : batches'[c] = batches[c]
      /\ DOMAIN ledger' = DOMAIN ledger \cup Written(b)
      /\ \A g \in Written(b) : ledger'[g] = Entry(b, g)
      /\ \A g \in DOMAIN ledger \ Written(b) : ledger'[g] = ledger[g]
      /\ ledger' = [g \in DOMAIN ledger' |-> ledger'[g]]
  BY CommitEffect
<1>4. ledger = [g \in DOMAIN ledger |-> ledger[g]]
  BY DEF ImportInv, TypeOK, TablesTyped
<1>5. Applied(b)' <=> Reconciled(b)
  BY <1>3, OutcomeStatus DEF Applied
<1>6. \A c \in DOMAIN batches \ {b} : Applied(c)' <=> Applied(c)
  BY <1>3 DEF Applied
<1>7. b \in DOMAIN batches => (Applied(b) <=> Reconciled(b))
  BY AppliedBatch
<1>8. CASE Reconciled(b)
  <2>1. imported' = imported \cup {b}
    BY <1>3, <1>5, <1>6, <1>8
  <2>2. b \in DOMAIN Effects /\ Effects[b] = [g \in Written(b) |-> Entry(b, g)]
    BY <1>8 DEF Effects
  <2>3. ledger' = [g \in DOMAIN Effects[b] \cup DOMAIN ledger |->
                     IF g \in DOMAIN Effects[b] THEN Effects[b][g] ELSE ledger[g]]
    BY <1>3, <2>2
  <2>4. Abstract!Import(b)
    BY <1>1, <1>2, <2>1, <2>3 DEF Abstract!Import
  <2> QED
    BY <2>2, <2>4 DEF Abstract!Next
<1>9. CASE ~Reconciled(b)
  <2>1. imported' = imported
    BY <1>3, <1>5, <1>6, <1>7, <1>9
  <2>2. Written(b) = {}
    BY <1>9 DEF Written
  <2>3. ledger' = ledger
    BY <1>3, <1>4, <2>2
  <2> QED
    BY <1>1, <2>1, <2>3 DEF Abstract!vars
<1> QED
  BY <1>8, <1>9

(* The ledger is the outcome of whole imports in some order, the order in  *)
(* which their transactions committed (emit's SQL in one transaction, the  *)
(* loops of import_drop_folder.sh around it).                              *)
THEOREM ImplementsLedgerHolds == Spec => ImplementsLedger
<1>1. Init => Abstract!Init
  <2> SUFFICES ASSUME Init PROVE Abstract!Init
    OBVIOUS
  <2>1. 1 .. Len(files) = {} /\ DOMAIN batches = {} /\ ledger = <<>>
    BY DEF Init
  <2>2. \A S : InFolder(S) = {}
    BY <2>1 DEF InFolder
  <2> QED
    BY <2>1, <2>2 DEF Abstract!Init
<1>2. Init => LoadsReadable
  BY DEF Init, LoadsReadable
<1>3. ImportInv /\ LoadsReadable /\ [Next]_vars => [Abstract!Next]_(Abstract!vars)
  <2> SUFFICES ASSUME ImportInv, LoadsReadable, [Next]_vars
               PROVE  [Abstract!Next]_(Abstract!vars)
    OBVIOUS
  <2>t. /\ files \in Seq([content : Content, folder : Folder])
        /\ ok \in [Run -> BOOLEAN]
    BY DEF ImportInv, TypeOK, LoopsTyped
  <2>s. ASSUME UNCHANGED files, UNCHANGED tables
        PROVE  UNCHANGED Abstract!vars
    <3>1. \A S : InFolder(S)' = InFolder(S)
      BY <2>s, FolderUnchanged
    <3>2. {b \in DOMAIN batches : Applied(b)}' = {b \in DOMAIN batches : Applied(b)}
      BY <2>s DEF Applied, tables
    <3> QED
      BY <2>s, <3>1, <3>2 DEF Abstract!vars, tables
  <2>1. CASE FileArrives
    <3>1. PICK c \in Content :
            files' = Append(files, [content |-> c, folder |-> "raw"])
      BY <2>1 DEF FileArrives
    <3>2. UNCHANGED <<batches, ledger>>
      BY <2>1 DEF FileArrives, tables
    <3>3. /\ InFolder(Folder)' = InFolder(Folder) \cup {c}
          /\ InFolder(Imported)' = InFolder(Imported)
      BY <2>t, <3>1, ArrivalInFolder DEF Folder, Imported
    <3>4. {b \in DOMAIN batches : Applied(b)}' = {b \in DOMAIN batches : Applied(b)}
      BY <3>2 DEF Applied
    <3>5. Abstract!Arrive(c)
      BY <3>2, <3>3, <3>4 DEF Abstract!Arrive
    <3> QED
      BY <3>5 DEF Abstract!Next
  <2>2. CASE RetentionCleanup
    <3>1. PICK f \in 1 .. Len(files), d \in Folder :
            /\ files' = [files EXCEPT ![f].folder = d]
            /\ files[f].folder \in Imported <=> d \in Imported
      BY <2>2 DEF RetentionCleanup, Folder, Imported
    <3>2. /\ SameFiles /\ files'[f].folder = d
          /\ \A g \in 1 .. Len(files) \ {f} : files'[g] = files[g]
      BY <2>t, <3>1, MoveOneFile
    <3>3. UNCHANGED tables
      BY <2>2 DEF RetentionCleanup
    <3> QED
      BY <3>1, <3>2, <3>3, MoveIsAbstract
  <2>3. ASSUME NEW p \in Run, DropUnmapped(p)
        PROVE  [Abstract!Next]_(Abstract!vars)
    <3>1. PICK f \in 1 .. Len(files) :
            /\ files[f].folder = "raw"
            /\ files' = [files EXCEPT ![f].folder = "rejected"]
      BY <2>3 DEF DropUnmapped
    <3>2. /\ SameFiles /\ files'[f].folder = "rejected"
          /\ \A g \in 1 .. Len(files) \ {f} : files'[g] = files[g]
      BY <2>t, <3>1, MoveOneFile DEF Folder
    <3>3. UNCHANGED tables
      BY <2>3 DEF DropUnmapped
    <3> QED
      BY <3>1, <3>2, <3>3, MoveIsAbstract DEF Imported
  <2>4. ASSUME NEW p \in Run, Load(p)
        PROVE  [Abstract!Next]_(Abstract!vars)
    <3>1. pc[p] = "load" /\ UNCHANGED files /\ batch[p] \notin Unreadable
      BY <2>4 DEF Load, LoadsReadable
    <3>2. CASE Commit(batch[p]) /\ ~(Reconciled(batch[p]) /\ Clash(batch[p]))
      <4>1. /\ batch[p] \in Batch \ Unreadable
            /\ file[p] \in 1 .. Len(files)
            /\ Table(batch[p]) = files[file[p]].content
        BY <3>1 DEF ImportInv, TypeOK, LoopsTyped, ImportsItsFile
      <4> QED
        BY <3>1, <3>2, <4>1, CommitIsAbstract
    <3>3. CASE UNCHANGED tables
      BY <2>s, <3>1, <3>3
    <3> QED
      BY <2>4, <3>2, <3>3 DEF Load
  <2>5. ASSUME NEW p \in Run, Move(p)
        PROVE  [Abstract!Next]_(Abstract!vars)
    <3> DEFINE f == file[p]
               d == IF ok[p] THEN "archive" ELSE "rejected"
    <3>1. pc[p] = "done" /\ UNCHANGED tables
      BY <2>5 DEF Move
    <3>2. CASE ~Present(p)
      BY <2>5, <2>s, <3>1, <3>2 DEF Move
    <3>3. CASE Present(p)
      <4>1. /\ f \in 1 .. Len(files) /\ Table(batch[p]) = files[f].content
            /\ files[f].folder = "raw"
        BY <3>1, <3>3 DEF ImportInv, ImportsItsFile, Present
      <4>2. files' = [files EXCEPT ![f].folder = d] /\ d \in Folder
        BY <2>5, <3>3 DEF Move, Folder
      <4>3. d \in Imported => batch[p] \in DOMAIN batches /\ Applied(batch[p])
        <5> SUFFICES ASSUME d \in Imported
                     PROVE  batch[p] \in DOMAIN batches /\ Applied(batch[p])
          OBVIOUS
        <5>1. ok[p]
          BY DEF Imported
        <5>2. batch[p] \in DOMAIN batches /\ Reconciled(batch[p])
          BY <3>1, <5>1 DEF ImportInv, SuccessIsApplied
        <5> QED
          BY <5>2, AppliedBatch
      <4> HIDE DEF f, d
      <4>4. /\ SameFiles /\ files'[f].folder = d
            /\ \A g \in 1 .. Len(files) \ {f} : files'[g] = files[g]
        BY <2>t, <4>1, <4>2, MoveOneFile
      <4>5. files[f].folder \notin Imported
        BY <4>1 DEF Imported
      <4> QED
        BY <3>1, <4>1, <4>3, <4>4, <4>5, MoveIsAbstract
    <3> QED
      BY <3>2, <3>3
  <2>6. ASSUME NEW p \in Run,
               DropPick(p) \/ Check(p) \/ Normalize(p) \/ CallFails(p) \/ Crash(p)
        PROVE  UNCHANGED files /\ UNCHANGED tables
    BY <2>6 DEF DropPick, Check, Normalize, CallFails, Crash
  <2>7. CASE UNCHANGED vars
    BY <2>7, <2>s DEF vars
  <2> QED
    BY <2>s, <2>1, <2>2, <2>3, <2>4, <2>5, <2>6, <2>7 DEF Next, DropStep
<1>4. ImportInv /\ LoadsReadable /\ [Next]_vars => LoadsReadable'
  BY LoadsReadableStep
<1> QED
  BY <1>1, <1>2, <1>3, <1>4, ImportInvariant, PTL
     DEF Spec, ImplementsLedger, Abstract!Spec

============================================================================
