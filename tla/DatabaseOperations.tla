------------------------- MODULE DatabaseOperations -------------------------
(***************************************************************************)
(* The operator's scripts over one PostgreSQL database: the migration      *)
(* runners of MigrationRunner, the captures of BaselineCapture and the     *)
(* backup of Backup, which counts what the others and the importers write. *)
(* The scripts share nothing but the database.                             *)
(***************************************************************************)
EXTENDS MigrationRunner, BaselineCapture

CONSTANTS
  CoreTables,     \* the file that creates the finance tables (002)
  CaptureSchema,  \* the file that adds the columns a capture writes (005)
  MaxImports,     \* bound: imports that add transactions
  MaxBesides,     \* bound: captures in a behaviour with backups
  StopsBesides,   \* bound: failures of runners in a behaviour with backups
  Keep, MaxSlips, \* the backup's
  Crews           \* bound: the scripts that run in one behaviour

Table == {"schema_migrations", "accounts", "transactions", "assets", "liabilities"}
CountOrder ==
  <<"schema_migrations", "accounts", "transactions", "assets", "liabilities">>

ASSUME SchemaAssumption ==
  CoreTables \in Migration /\ CaptureSchema \in CoreTables .. Files
ASSUME OperationsBounds ==
  /\ MaxImports \in Nat /\ MaxBesides \in Nat /\ StopsBesides \in Nat
  /\ Keep \in Nat \ {0} /\ MaxSlips \in Nat

VARIABLES
  imported,  \* rows of finance.transactions
  dumps, stage, counted, mark, scratch, slips,  \* the backup's
  crew       \* the scripts of this behaviour (bound only)

scriptVars == <<dumps, stage, counted, mark, scratch, slips>>
vars == <<migrationVars, captureVars, imported, scriptVars, crew>>

Exists(m) == applied[m] # <<>>
Writable == Exists(CoreTables) /\ Exists(CaptureSchema)

(* What the script's SELECT COUNT returns: a capture writes one account    *)
(* for all dates, three asset snapshots and a liability snapshot for its   *)
(* own.                                                                    *)
TableCounts ==
  [schema_migrations |-> Cardinality(Recorded),
   accounts |-> IF captured = {} THEN 0 ELSE 1,
   transactions |-> imported,
   assets |-> 3 * Cardinality(captured),
   liabilities |-> Cardinality(captured)]

Vault == INSTANCE Backup WITH rows <- TableCounts

TypeOK ==
  /\ MigrationTypeOK /\ CaptureTypeOK /\ Vault!BackupTypeOK
  /\ imported \in 0 .. MaxImports
  /\ crew \in Crews

Init ==
  /\ MigrationInit /\ CaptureInit /\ Vault!BackupInit
  /\ imported = 0 /\ crew \in Crews

----------------------------------------------------------------------------
Migrate ==
  /\ crew \cap Runner # {}
  /\ MigrationNext
  /\ \A r \in Runner \ crew : step'[r] = step[r]
  /\ edited' # edited => "editor" \in crew
  /\ "backup" \in crew /\ stops' # stops => stops < StopsBesides
  /\ UNCHANGED <<captureVars, imported, scriptVars, crew>>

(* Without its tables and columns the transaction of a capture fails. *)
CaptureBaseline ==
  /\ CaptureNext
  /\ Writable
  /\ \A c \in Capture \ crew : phase'[c] = phase[c]
  /\ today' # today => "calendar" \in crew
  /\ "backup" \in crew => commits + Cardinality(Open') <= MaxBesides
  /\ UNCHANGED <<migrationVars, imported, scriptVars, crew>>

(* An import adds a transaction, see LedgerImport. *)
ImportCommits ==
  /\ "import" \in crew /\ imported < MaxImports /\ Writable
  /\ imported' = imported + 1
  /\ UNCHANGED <<migrationVars, captureVars, scriptVars, crew>>

(* Backups are started when the counted tables are there. *)
BackUp ==
  /\ "backup" \in crew /\ Exists(CoreTables)
  /\ UNCHANGED <<migrationVars, captureVars, imported, crew>>
  /\ Vault!BackupStep \/ Vault!CallFails

Next == Migrate \/ CaptureBaseline \/ ImportCommits \/ BackUp

Spec == Init /\ [][Next]_vars

(* The operator starts runners and backups again and again, and calls      *)
(* return.                                                                 *)
Fairness ==
  /\ \A r \in Runner : WF_vars(RunnerStep(r) /\ Migrate)
  /\ WF_vars(BackUp /\ Vault!BackupStep)

FairSpec == Spec /\ Fairness

----------------------------------------------------------------------------
(* What every step keeps: the invariants of the three scripts.             *)
OperationsInv ==
  /\ MigrationInv /\ CaptureInv /\ Vault!BackupInv
  /\ imported \in 0 .. MaxImports /\ crew \in Crews

(* Migrations, captures and imports only add rows to the counted tables,   *)
(* which is what Backup assumes of production: under TableCounts this      *)
(* module implements it.                                                   *)
ImplementsBackup == Vault!BackupSpec

VerifiedDumpKept == Vault!VerifiedDumpKept
PassedCountsWereCurrent == Vault!PassedCountsWereCurrent
LeftoversAreExplained == Vault!LeftoversAreExplained
SchemaIsBroughtUpToDate == crew \cap Runner # {} => RunnerFinishesOrIsBlocked
BackupsCatchUp ==
  "backup" \in crew /\ <>Exists(CoreTables) => Vault!BackupCatchesUp

=============================================================================
