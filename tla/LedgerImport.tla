---------------------------- MODULE LedgerImport ----------------------------
(***************************************************************************)
(* CSV and XLSX imports: loops of import_drop_folder.sh take files out of  *)
(* raw/ and run concurrently against one database.  An import hashes its   *)
(* file and mapping, asks for a completed batch, normalizes the file in a  *)
(* container and applies the resulting SQL as one transaction; then the    *)
(* loop moves the file.  An import started by hand takes the same steps    *)
(* without a folder.                                                       *)
(*                                                                         *)
(* A table row is reduced to its fingerprint columns and the cell that the *)
(* mapping's format turns into an amount or a normalization error.  A      *)
(* batch is identified by its content and mapping, which stand for the two *)
(* hashes and for what the mapping names (source, household, account).     *)
(* All mappings name one account and the same fingerprint columns: others  *)
(* share no transaction.  A mapping file does not change during an import, *)
(* and no file is dropped over another one of its name that is being       *)
(* imported: the scripts go by the path, a file here is one arrival.       *)
(* The transaction is one step: statements of two transactions that meet   *)
(* in a row wait for each other or end in a deadlock error, so committed   *)
(* ones have an order.  An XLSX file takes the same way, with a conversion *)
(* that may fail like the normalizer.                                      *)
(***************************************************************************)
EXTENDS Integers, Sequences, FiniteSets

CONSTANTS
  Fingerprint, Cell, Format, Amount, Malformed,
  Parse,       \* what a format makes of a cell: an amount, or Malformed
  Content,     \* file contents, as sequences of rows
  Mapping,     \* mapping files: a format and the declared valid row count
  Unreadable,  \* the pairs of content and mapping that emit or COPY refuses
  Run,         \* loops of import_drop_folder.sh
  MaxFiles,    \* bound: files that ever arrive in raw/
  MaxFailures  \* bound: failed calls, lost replies and stopped processes

Row == [fingerprint : Fingerprint, cell : Cell]
NoExpectation == -1

ASSUME ParseAssumption ==
  Malformed \notin Amount /\ Parse \in [Cell \X Format -> Amount \cup {Malformed}]
ASSUME InputAssumption ==
  /\ Content \subseteq Seq(Row)
  /\ Mapping \subseteq [format : Format, expected : Nat \cup {NoExpectation}]
  /\ Unreadable \subseteq Content \X Mapping
ASSUME ImportBounds == MaxFiles \in Nat /\ MaxFailures \in Nat

VARIABLES
  files,       \* every file that ever arrived: its content and its folder,
               \* or the one it was deleted from: "aged out" is archive/,
               \* "discarded" is rejected/
  batches,     \* ingest.import_batches, by content and mapping
  sourceRows,  \* ingest.source_rows: <<batch, row number>>
  ledger,      \* finance.transactions, by fingerprint
  pc,          \* where each loop is
  file,        \* the file it works on
  batch,       \* the content and mapping it imports
  ok,          \* whether its command has ended with status 0
  failures     \* failures so far (bound only)

tables == <<batches, sourceRows, ledger>>
processVars == <<pc, file, batch, ok>>
vars == <<files, tables, processVars, failures>>

----------------------------------------------------------------------------
Batch == Content \X Mapping
Folder == {"raw", "archive", "rejected", "aged out", "discarded"}
Imported == {"archive", "aged out"}
Status == {"completed", "partial", "failed"}
NoBatch == <<>>

Table(b) == b[1]
Fp(b, i) == Table(b)[i].fingerprint
Reading(b, i) == Parse[Table(b)[i].cell, b[2].format]

(* The rows emit normalizes without an error. *)
Valid(b) == {i \in DOMAIN Table(b) : Reading(b, i) # Malformed}

(* reconciliation_error finds nothing to report. *)
Reconciled(b) ==
  b[2].expected = NoExpectation \/ b[2].expected = Cardinality(Valid(b))

(* Two rows for one transaction, which ON CONFLICT DO UPDATE refuses. *)
Clash(b) == \E i, j \in Valid(b) : i # j /\ Fp(b, i) = Fp(b, j)

Outcome(b) ==
  LET errors == Len(Table(b)) - Cardinality(Valid(b))
  IN  [status |-> IF ~Reconciled(b) THEN "failed"
                  ELSE IF errors > 0 THEN "partial" ELSE "completed",
       rows |-> Len(Table(b)),
       errors |-> errors + (IF Reconciled(b) THEN 0 ELSE 1)]

(* Mutant of Provenance: the row numbers are off by one.                   *)
ProvenanceOffByOne(b) == {<<b, i + 1>> : i \in DOMAIN Table(b)}

(* The rows that find no row of the same batch with their hash.  Row i has *)
(* the source_row_number i + 1, its line in a file with a header.          *)
Provenance(b) ==
  {<<b, i>> : i \in {j \in DOMAIN Table(b) :
                       \A k \in 1 .. (j - 1) : Table(b)[k] # Table(b)[j]}}

(* The transactions a batch writes. *)
Written(b) == IF Reconciled(b) THEN {Fp(b, i) : i \in Valid(b)} ELSE {}
Entry(b, f) ==
  [amount |-> Reading(b, CHOOSE i \in Valid(b) : Fp(b, i) = f), batch |-> b]

Applied(b) ==
  /\ b \in DOMAIN batches
  /\ batches[b].status \in {"completed", "partial"}

TablesTyped ==
  /\ DOMAIN batches \subseteq Batch
  /\ batches \in [DOMAIN batches -> [status : Status, rows : Nat, errors : Nat]]
  /\ \A s \in sourceRows :
       \E b \in DOMAIN batches : \E i \in DOMAIN Table(b) : s = <<b, i>>
  /\ DOMAIN ledger \subseteq Fingerprint
  /\ ledger \in [DOMAIN ledger -> [amount : Amount, batch : Batch]]

LoopsTyped ==
  /\ pc \in [Run -> {"idle", "check", "normalize", "load", "done"}]
  /\ file \in [Run -> 0 .. Len(files)]
  /\ batch \in [Run -> Batch \cup {NoBatch}]
  /\ \A p \in Run : pc[p] # "idle" => file[p] # 0 /\ batch[p] \in Batch
  /\ ok \in [Run -> BOOLEAN]

TypeOK ==
  /\ files \in Seq([content : Content, folder : Folder])
  /\ TablesTyped
  /\ LoopsTyped
  /\ failures \in 0 .. MaxFailures

Init ==
  /\ files = <<>>
  /\ batches = <<>>
  /\ sourceRows = {}
  /\ ledger = <<>>
  /\ pc = [p \in Run |-> "idle"]
  /\ file = [p \in Run |-> 0]
  /\ batch = [p \in Run |-> NoBatch]
  /\ ok = [p \in Run |-> FALSE]
  /\ failures = 0

Fails == failures < MaxFailures /\ failures' = failures + 1

(* No other loop has moved the file. *)
Present(p) == files[file[p]].folder = "raw"

(* The import command ends. *)
Ends(p, success) ==
  /\ pc' = [pc EXCEPT ![p] = "done"]
  /\ ok' = [ok EXCEPT ![p] = success]

(* The process is over. *)
Stops(p) ==
  /\ pc' = [pc EXCEPT ![p] = "idle"]
  /\ file' = [file EXCEPT ![p] = 0]
  /\ batch' = [batch EXCEPT ![p] = NoBatch]
  /\ ok' = [ok EXCEPT ![p] = FALSE]

----------------------------------------------------------------------------
(* Someone puts a file into raw/, for the first time or again. *)
FileArrives ==
  /\ Len(files) < MaxFiles
  /\ \E c \in Content : files' = Append(files, [content |-> c, folder |-> "raw"])
  /\ UNCHANGED <<tables, processVars, failures>>

(* The loop finds a mapping for its next file and calls the importer. *)
DropPick(p) ==
  /\ pc[p] = "idle"
  /\ \E f \in 1 .. Len(files), m \in Mapping :
       /\ files[f].folder = "raw"
       /\ file' = [file EXCEPT ![p] = f]
       /\ batch' = [batch EXCEPT ![p] = <<files[f].content, m>>]
  /\ pc' = [pc EXCEPT ![p] = "check"]
  /\ UNCHANGED <<files, tables, ok, failures>>

(* No mapping: the file is rejected at once. *)
DropUnmapped(p) ==
  /\ pc[p] = "idle"
  /\ \E f \in 1 .. Len(files) :
       /\ files[f].folder = "raw"
       /\ files' = [files EXCEPT ![f].folder = "rejected"]
  /\ UNCHANGED <<tables, processVars, failures>>

(* Mutant of Check: any earlier batch counts as applied. *)
CheckAnyBatch(p) ==
  /\ pc[p] = "check"
  /\ IF batch[p] \in DOMAIN batches
       THEN Ends(p, TRUE)
       ELSE pc' = [pc EXCEPT ![p] = "normalize"] /\ UNCHANGED ok
  /\ UNCHANGED <<files, tables, file, batch, failures>>

(* The file exists, is hashed, and no completed batch has its hashes.  A   *)
(* query that fails counts as one that finds nothing.                      *)
Check(p) ==
  /\ pc[p] = "check"
  /\ \/ /\ ~Present(p)
        /\ Ends(p, FALSE)
        /\ UNCHANGED failures
     \/ /\ Present(p)
        /\ batch[p] \in DOMAIN batches /\ batches[batch[p]].status = "completed"
        /\ Ends(p, TRUE)
        /\ UNCHANGED failures
     \/ /\ Present(p)
        /\ batch[p] \in DOMAIN batches => batches[batch[p]].status # "completed"
        /\ pc' = [pc EXCEPT ![p] = "normalize"]
        /\ UNCHANGED <<ok, failures>>
     \/ /\ Present(p) /\ Fails
        /\ pc' = [pc EXCEPT ![p] = "normalize"]
        /\ UNCHANGED ok
  /\ UNCHANGED <<files, tables, file, batch>>

(* The container reads the file again and writes the SQL. *)
Normalize(p) ==
  /\ pc[p] = "normalize"
  /\ \/ /\ Present(p) /\ batch[p] \notin Unreadable
        /\ pc' = [pc EXCEPT ![p] = "load"]
        /\ UNCHANGED ok
     \/ /\ ~Present(p) \/ batch[p] \in Unreadable
        /\ Ends(p, FALSE)
  /\ UNCHANGED <<files, tables, file, batch, failures>>

(* The function g with the values of f put over its own.                   *)
Over(f, g) ==
  [x \in DOMAIN f \cup DOMAIN g |-> IF x \in DOMAIN f THEN f[x] ELSE g[x]]

(* Mutant of Commit: a failed reconciliation does not block transactions.  *)
CommitUnreconciled(b) ==
  /\ batches' = Over([x \in {b} |-> Outcome(x)], batches)
  /\ sourceRows' = sourceRows \cup Provenance(b)
  /\ ledger' = Over([f \in {Fp(b, i) : i \in Valid(b)} |-> Entry(b, f)], ledger)

(* Mutant of Commit: rows with a normalization error are dropped.          *)
CommitValidRowsOnly(b) ==
  /\ batches' = Over([x \in {b} |-> Outcome(x)], batches)
  /\ sourceRows' = sourceRows \cup {<<b, i>> : i \in Valid(b)}
  /\ ledger' = Over([f \in Written(b) |-> Entry(b, f)], ledger)

(* Mutant of Commit: the batch's counts grow with every import of it.      *)
CommitAddingCounts(b) ==
  /\ batches' =
       Over([x \in {b} |->
               IF b \in DOMAIN batches
                 THEN [Outcome(b) EXCEPT !.rows = @ + batches[b].rows]
                 ELSE Outcome(b)], batches)
  /\ sourceRows' = sourceRows \cup Provenance(b)
  /\ ledger' = Over([f \in Written(b) |-> Entry(b, f)], ledger)

(* Mutant of Commit: a transaction that is there is not overwritten.       *)
CommitKeepingFirst(b) ==
  /\ batches' = Over([x \in {b} |-> Outcome(x)], batches)
  /\ sourceRows' = sourceRows \cup Provenance(b)
  /\ ledger' = Over(ledger, [f \in Written(b) |-> Entry(b, f)])

(* What the transaction does when it commits: the batch and its rows are   *)
(* inserted unless they are there, transactions are inserted or            *)
(* overwritten by fingerprint, the batch gets its status and counts.       *)
Commit(b) ==
  /\ batches' = Over([x \in {b} |-> Outcome(x)], batches)
  /\ sourceRows' = sourceRows \cup Provenance(b)
  /\ ledger' = Over([f \in Written(b) |-> Entry(b, f)], ledger)

(* psql runs the SQL: it commits, and the script looks at the marker; or   *)
(* two rows of one transaction roll it back; or the connection is lost     *)
(* after the commit.                                                       *)
Load(p) ==
  /\ pc[p] = "load"
  /\ LET b == batch[p]
         rollsBack == Reconciled(b) /\ Clash(b)
     IN \/ /\ ~rollsBack
           /\ Commit(b)
           /\ Ends(p, Reconciled(b))
           /\ UNCHANGED failures
        \/ /\ rollsBack
           /\ Ends(p, FALSE)
           /\ UNCHANGED <<tables, failures>>
        \/ /\ ~rollsBack /\ Fails
           /\ Commit(b)
           /\ Ends(p, FALSE)
  /\ UNCHANGED <<files, file, batch>>

(* Anything else that fails ends the import before its transaction         *)
(* commits: docker, the normalizer, the connection, a deadlock.            *)
CallFails(p) ==
  /\ Fails
  /\ pc[p] \in {"check", "normalize", "load"}
  /\ Ends(p, FALSE)
  /\ UNCHANGED <<files, tables, file, batch>>

(* Mutant of Move: a file whose import failed stays for another try.       *)
MoveIfImported(p) ==
  /\ pc[p] = "done"
  /\ IF ok[p] /\ Present(p)
       THEN files' = [files EXCEPT ![file[p]].folder = "archive"]
       ELSE UNCHANGED files
  /\ Stops(p)
  /\ UNCHANGED <<tables, failures>>

(* archive_file.  When another loop has moved the file, mv fails and the   *)
(* script with it.  When the cleanup removes the day's folder, still       *)
(* empty, before the mv, that is Crash: the file stays in raw/.            *)
Move(p) ==
  /\ pc[p] = "done"
  /\ files' = IF ~Present(p) THEN files
              ELSE [files EXCEPT ![file[p]].folder =
                      IF ok[p] THEN "archive" ELSE "rejected"]
  /\ Stops(p)
  /\ UNCHANGED <<tables, failures>>

(* The process is killed; what it has sent to the database is decided.     *)
Crash(p) ==
  /\ pc[p] # "idle" /\ Fails
  /\ Stops(p)
  /\ UNCHANGED <<files, tables>>

(* retention_cleanup.sh, which deletes the old files of archive/ and then  *)
(* of rejected/ one by one.  mv keeps the time of a file's last change, so *)
(* an old export may be deleted right after its move: days are left out.   *)
RetentionCleanup ==
  /\ \E f \in 1 .. Len(files) :
       \/ /\ files[f].folder = "archive"
          /\ files' = [files EXCEPT ![f].folder = "aged out"]
       \/ /\ files[f].folder = "rejected"
          /\ files' = [files EXCEPT ![f].folder = "discarded"]
  /\ UNCHANGED <<tables, processVars, failures>>

DropStep(p) ==
  DropPick(p) \/ DropUnmapped(p) \/ Check(p) \/ Normalize(p) \/ Load(p) \/ Move(p)

Next ==
  \/ FileArrives \/ RetentionCleanup
  \/ \E p \in Run : DropStep(p) \/ CallFails(p) \/ Crash(p)

(* The drop folder's owner starts the loop again and again.                *)
Fairness == \A p \in Run : WF_vars(DropStep(p))

Spec == Init /\ [][Next]_vars
FairSpec == Spec /\ Fairness

----------------------------------------------------------------------------
(* A file goes to archive/ only when one of its batches has been applied,  *)
(* and every row that batch could read has a transaction: over imports     *)
(* that fail, repeat, overlap or run twice at once.  It is still so when   *)
(* the cleanup has deleted the file, so that no data is lost with it       *)
(* (docs/operations/retention-policy.md:3).                                *)
ArchivedIsInLedger ==
  \A f \in 1 .. Len(files) :
    files[f].folder \in Imported =>
      \E b \in DOMAIN batches :
        /\ Table(b) = files[f].content
        /\ Applied(b)
        /\ {Fp(b, i) : i \in Valid(b)} \subseteq DOMAIN ledger

(* Every transaction can be traced: the batch it names was applied, and    *)
(* has a source row with its fingerprint and its amount.  A batch whose    *)
(* reconciliation failed has left no transaction                           *)
(* (docs/ingestion/generic-imports.md:65).                                 *)
LedgerHasProvenance ==
  \A f \in DOMAIN ledger :
    LET b == ledger[f].batch
    IN  /\ Applied(b)
        /\ \E i \in DOMAIN Table(b) :
             <<b, i>> \in sourceRows /\ Fp(b, i) = f /\ Reading(b, i) = ledger[f].amount

(* Each row of a recorded batch is kept, malformed ones too, also when the *)
(* reconciliation failed; a completed batch counts exactly its rows        *)
(* (importers/generic_csv/README.md:62).                                   *)
BatchKeepsItsRows ==
  \A b \in DOMAIN batches :
    LET kept == {i \in DOMAIN Table(b) : <<b, i>> \in sourceRows}
    IN  /\ \A i \in DOMAIN Table(b) : \E k \in kept : Table(b)[k] = Table(b)[i]
        /\ batches[b].status = "completed" =>
             batches[b].rows = Cardinality(kept) /\ batches[b].errors = 0

(* Importing a batch again changes no table as long as no other batch has  *)
(* taken over one of its transactions, so a crash between the import and   *)
(* the move, or two loops with one file, do no harm.                       *)
AgainChangesNothing ==
  [][\A p \in Run :
       /\ pc[p] = "load" /\ pc'[p] = "done"
       /\ batch[p] \in DOMAIN batches
       /\ \A f \in Written(batch[p]) :
            f \in DOMAIN ledger /\ ledger[f].batch = batch[p]
       => UNCHANGED tables]_vars

(* The ledger is the outcome of whole imports, one after the other, of     *)
(* files that arrived and could be read: racing loops, lost replies, kills *)
(* and imports that are rolled back or fail their reconciliation are seen  *)
(* nowhere in it, and an archived file was imported.                       *)
Effects ==
  [b \in {c \in Batch \ Unreadable : Reconciled(c) /\ ~Clash(c)} |->
     [f \in Written(b) |-> Entry(b, f)]]
InFolder(folders) ==
  {files[f].content : f \in {g \in 1 .. Len(files) : files[g].folder \in folders}}
Abstract ==
  INSTANCE SerialLedger WITH
    Effect   <- Effects,
    arrived  <- InFolder(Folder),
    imported <- {b \in DOMAIN batches : Applied(b)},
    archived <- InFolder(Imported)
ImplementsLedger == Abstract!Spec

(* What every step keeps: a recorded batch is what its content and mapping *)
(* make of it, complete; and an import has ended with status 0 only when   *)
(* its batch is applied.                                                   *)
BatchesAreOutcomes ==
  \A b \in DOMAIN batches :
    /\ batches[b] = Outcome(b)
    /\ Provenance(b) \subseteq sourceRows
    /\ Reconciled(b) => ~Clash(b)
    /\ Written(b) \subseteq DOMAIN ledger
EntriesAreWritten ==
  \A f \in DOMAIN ledger :
    LET b == ledger[f].batch
    IN  b \in DOMAIN batches /\ f \in Written(b) /\ ledger[f] = Entry(b, f)
ArchivedIsApplied ==
  \A f \in 1 .. Len(files) :
    files[f].folder \in Imported =>
      \E b \in DOMAIN batches : Table(b) = files[f].content /\ Reconciled(b)
ImportsItsFile ==
  \A p \in Run :
    pc[p] # "idle" =>
      file[p] \in 1 .. Len(files) /\ Table(batch[p]) = files[file[p]].content
SuccessIsApplied ==
  \A p \in Run :
    pc[p] = "done" /\ ok[p] => batch[p] \in DOMAIN batches /\ Reconciled(batch[p])
ImportInv ==
  /\ TypeOK /\ BatchesAreOutcomes /\ EntriesAreWritten
  /\ ArchivedIsApplied /\ ImportsItsFile /\ SuccessIsApplied

(* No file is left lying in raw/: one that cannot be imported does not     *)
(* keep the loop from the others.                                          *)
EveryFileIsHandled ==
  \A f \in 1 .. MaxFiles :
    (f \in DOMAIN files /\ files[f].folder = "raw")
      ~> (f \in DOMAIN files /\ files[f].folder # "raw")

============================================================================
