# TLA+ models and proofs of the family finance control plane

This directory is a verification project for the repository beside it. The system brings
a household's money movements into one PostgreSQL database on a NAS: an Android phone relays bank notifications through Google Drive,
a collector container stages them together with Gmail messages, shell scripts import CSV and
XLSX exports from a drop folder, SQL views compute metrics, and a read-only MCP
server answers questions about them. Nobody watches it run, so the things
that matter are that nothing is lost on the way, that nothing counts twice, and
that it goes on by itself after a failure.

Every module is translated from the source; `PROJECT.json` maps each definition
to the lines it stands for, lists the runs, the hazards and the theorems.

```
tlc -workers 2 -config DriveCollector.cfg MCDriveCollector.tla    # a run
tlapm DriveCollectorProofs.tla                                    # a proof module
```

## 1. Inventory

| component | where | state it keeps | operations |
|---|---|---|---|
| Android notification relay | `android-notifier/.../{FinanceNotificationListener, EventStore, RelayScheduler, RelayWorker, DriveRelay, MainActivity}.kt` | the NDJSON queue file `pending-events.ndjson`, WorkManager's two unique works, preference `drive_auth_required` | append, readBatch, upload, acknowledge, enqueueNow (KEEP), ensureSafetySchedule, authorize |
| Notification normalizer | `NotificationNormalizer.kt`, `NormalizedEvent.kt` | none | notification to event |
| Drive collector | `collector/.../{main, db, drive_appdata}.py` | `collection_sources`, `collection_runs`, `collection_observations`; files in Drive's appDataFolder | is_due, begin_run, collect, insert_observation, complete_run, fail_run, acknowledge |
| Device batch parser | `collector/.../device_relay.py` | none | file to observations, or a rejection |
| Internal transfer reconciliation | `collector/.../reconciliation.py`, `db.py` | a tag in the JSON of staged rows | pair bank debits with wallet charges |
| Gmail collector | `collector/.../{gmail, rules, main, db}.py` | the `historyId` cursor in `collection_sources` | full_sync, incremental_sync, classify, and the run protocol above |
| Collector configuration | `collector/.../config.py` | none | validate one JSON file |
| CSV and XLSX importer | `importers/`, `scripts/import_generic_*.sh` | `import_batches`, `source_rows`, `transactions` | batch by file hash, upsert by fingerprint, reconcile totals |
| Drop folder | `scripts/import_drop_folder.sh`, `retention_cleanup.sh` | inbox, archive and rejected folders | import each file, move it, age it out |
| Baseline capture | `scripts/capture_household_baseline.sh` | snapshots, recurring obligations | capture, supersede |
| Migration runner | `scripts/migrate_compose.sh` | `schema_migrations` | apply what is not recorded |
| Backup | `scripts/backup_postgres_compose.sh` | dump files | dump, restore into a scratch database, verify, prune |
| Analytics, scenario engine | `db/migrations/003 - 008` | SQL views and functions | none that change state |
| MCP server | `mcp_server/` | none | bounded read-only queries |
| Roles, OAuth scripts, CI | `db/migrations/001`, `scripts/provision_*`, `scripts/authorize_*`, `.github` | grants, token files | one-shot, interactive |

How they interact. The phone and the NAS share nothing but Drive's appDataFolder:
the phone only creates files, the collector only lists, downloads and deletes
them. Inside the collector one sequential loop (`main.py:250`) visits each
source in turn over one database connection; a source's runs, cursor and
freshness live in `collection_sources` and `collection_runs`. Reconciliation runs
between the end of a Drive run and its deletes. Importer, collector and backup meet only
in PostgreSQL. The views and the MCP server read.

What is hard about it, component by component, and what makes it correct:

- **Phone.** Two works run `doWork` concurrently over one file
  that a third thread appends to; a process may die, and Google's reply may be lost, at any step. An event must not leave
  the queue before Drive has it; it must leave in the end; and a lost consent must show.
- **Drive collector.** Each observation is a transaction of its own, the run is
  closed in another, the files are deleted one by one after it. A run may stop
  anywhere. A file must not be deleted before its events have rows; counters and
  freshness must tell the truth; everything readable must be consumed.
- **Both together.** Exactly-once staging out of at-least-once uploads and
  hash-keyed inserts.
- **Gmail collector.** A cursor that must not pass unstaged mail while mail
  arrives, is deleted, and its history expires between the calls of one run.
- **Reconciliation.** Late rows, tags that are only overwritten, and a
  window of the newest 500 rows that slides.
- **Importer and drop folder.** Re-imports of a file, of a file that
  overlaps another one, a stop between the import and the move of its file, and a cleanup that deletes by the age of the
  export. What is deleted from `archive/` must be in the ledger.
- **Migration runner.** A stop between a migration's own COMMIT and its record; two runners at once; an edited file; a shell
  without `pipefail`, which goes on when the input to `psql` was cut short. The schema must be a prefix of the files but for
  such inputs, repeated runs must fill the gaps, and a runner must not be stuck but for a checksum or a half-applied file.
- **Baseline capture.** Captures of any date in any order, and overlapping ones under READ COMMITTED. The latest
  baseline must count, and in orderly times no other.
- **Backup.** A dump, counts taken later and table by table, and a database that is written
  meanwhile. What passes must have the row counts production had, and the rows of a verified dump must always stay restorable.
- **Views, scenario, normalizer, parser.** Pure; correct means equal to a reference definition.

`PROJECT.json` lists 40 hazards at their lines; section 7 says which are still open.

## 2. The modules

```
EventRelay                    what the relay promises
   ^ refinement
RelayPipeline ----- INSTANCE ----> AndroidRelay       the phone
              \---- INSTANCE ----> DriveCollector     the NAS side of Drive
TransferReconciliation        after each completed Drive run
GmailSync                     the gmail source of the same collector
LedgerImport                  drop folder, importer, the tables it writes, retention
   v refinement
SerialLedger                  whole imports, one after the other
DatabaseOperations -- EXTENDS ---> MigrationRunner, BaselineCapture
              \---- INSTANCE ----> Backup             rows <- the tables' row counts
```

An `MC*` module instantiates a module for TLC; a `*Proofs` module holds its
theorems. A definition marked "Mutant of ..." in a comment is a plausible bug: it is no part of any specification, and
the property named beside it in `PROJECT.json` fails when it takes the place of the definition it
names. That is how we know a property depends on the code.

### AndroidRelay

| variable | in the code |
|---|---|
| `log`, `pending`, `openTail` | `pending-events.ndjson`: every line ever written, the positions still in the file, a last line without newline |
| `listener` | inside `onNotificationPosted`, between `append` and `enqueueNow` |
| `work` | WorkManager's record of the works `now` (IMMEDIATE_WORK) and `safety` (periodic) |
| `pc`, `batch` | where `doWork` is in each work, and the lines it read |
| `grant`, `authRequired` | whether Google would give a token; preference `drive_auth_required` |
| `uploads` | every file ever created in appDataFolder |

Actions: `Connect` (ensureSafetySchedule), `AppendEvent`, `AppendCutShort`, `ListenerEnqueue`
(onNotificationPosted in two steps), `UserSync`, `Authorize`, `AuthorizeFails`, `Revoke`, and for each work `StartWork`
(readBatch), `GetToken`, `Upload`, `Acknowledge`, `Recheck`, `Finish`; and `Crash`, after which WorkManager enqueues
interrupted works again. An event is identified by its `eventId`, so two lines
with one id are possible, and `acknowledge` removes both, as in `EventStore.kt`. A line cut short is `Torn`:
`JSONObject` throws on it in `readBatch`, outside `doWork`'s `try`. One that lacks only its newline is readable.
Either way the next event joins that line and is lost: `JSONObject` reads the first object of a line at most. The properties
speak of events with a line of their own. The state of a retry's backoff, the network
constraint and the status screen are left out: they delay works, they do not change what they do.

### DriveCollector

| variable | in the code |
|---|---|
| `uploads`, `deleted` | appDataFolder: files ever created, files deleted |
| `staged` | events with a row in `collection_observations` |
| `source` | `collection_sources`: `due`, and whether the last run counts as a success |
| `openRuns` | rows of `collection_runs` with status `started` |
| `pc`, `listing`, `todo`, `mine`, `tally` | the run: processed file ids, observations left, rows that carry its id, counters |

A run is `BeginRun`, `Collect`, `InsertObservation`..., `InsertsDone`, `CompleteRun`, `Acknowledge`..., `AcknowledgeDone`,
with `FailRun` on any exception before `CompleteRun` is done, and `Crash` anywhere. A file is a
batch of events, `malformed` (the parser rejects it) or `foreign` (its name does not
carry `file_prefix`; it still takes a place in the page of `max_files_per_cycle`). A
second copy of an event inside one file is one more ignored row and is not kept apart. `Unstorable`
are events the parser accepts and `NUMERIC(20,2)` rejects.

### RelayPipeline and EventRelay

The composition: the phone's steps leave the NAS's variables alone and the other way round, and both read and
write `uploads`. `OtherFile` lets another client leave files in the folder. `EventRelay` promises: an accepted event is
staged exactly once in the end, and nothing else is. `accepted` maps to the intact lines of `log`, `staged` to itself.

### GmailSync

Messages are numbered in order of arrival and a history id is the number of
messages so far. `Incremental` is history.list, `FullList` and `GetProfile` the two calls of `full_sync` (also taken
after a 404 on an expired id), `GetMessage` one messages.get with `classify`, and then the run protocol again with
the cursor in `CompleteRun`. `MailArrives`, `MailDeleted` and `HistoryExpires` happen between any two of these.
A message is reduced to whether it matches `initial_query` and to the set of rules it matches. The pages of one
listing count as one call; the header comment says why that loses nothing.

### TransferReconciliation

Rows (type, key of amount + currency + provider, event time) are staged in any order; `Reconcile` reads the `Limit`
newest, pairs them as `reconcile_internal_transfers` does (matched when each is the other's only
candidate) and writes tags. Tags are only overwritten: the code never removes one.

### LedgerImport

| variable | in the code |
|---|---|
| `files` | every file that ever arrived, in `raw/`, `archive/` or `rejected/` |
| `batches`, `sourceRows` | `ingest.import_batches` (by content and mapping, as `uq_import_batches_source_file_mapping`), `ingest.source_rows` |
| `ledger` | `finance.transactions` by fingerprint, as `uq_transactions_account_source_hash` |
| `pc`, `file`, `batch`, `ok` | a process of `import_drop_folder.sh`: where it is, its file, the batch it imports, the importer's status |

`DropPick` and `DropUnmapped` are the head of the loop, `Check` the question for a completed batch on a
connection of its own (a query that fails counts as "no", as `|| true` makes it), `Normalize` the container that opens the file
again, `Load` the transaction (`Commit`) and the marker the script looks for, `Move` the file's way to
`archive/` or `rejected/`. `CallFails` is any call that fails before the commit, the third disjunct of `Load` a reply lost after
it, `Crash` a kill between any two steps. Several processes may run at once; nothing in the script prevents it, and a
command started by hand takes the same steps without the moves. An XLSX file makes one more call that may
fail. `Commit` is one step because committed transactions that meet in a row wait for each other, and a deadlock
between them ends one of them, which is `CallFails`. `RetentionCleanup` deletes files of `archive/` and `rejected/`
one by one, at any time after their move: `mv` keeps the time of the last change, so that an old export may be deleted in
the same minute. A deleted file stays in `files` under the name of what happened to it. When the cleanup removes the day's
still empty folder between `mkdir` and `mv`, the loop ends and the file stays, as in `Crash`.

A row is its fingerprint and one cell; a mapping is a format, which makes an amount or an error of a cell, and an
expected number of valid rows. The other two totals of `reconciliation_error` block a batch the same way.
Files arrive in `raw/` whole, and a mapping file does not change during an import. A file is one arrival, while the scripts
go by its path: a file of the same name dropped over one that is being imported is left out, and would be archived without
having been imported.

`SerialLedger` is what the imports promise together: the ledger is the outcome of whole imports, one after the other, of
files that arrived; a later import wins over an earlier one that shares a transaction; nothing is archived before it was
imported. It is an abstraction with no code of its own: `ImplementsLedger` maps `arrived` to the contents of the files that
arrived in `raw/`, `imported` to the recorded batches that wrote transactions, `archived` to the files of the archive
and `ledger` to `finance.transactions`.

### DatabaseOperations: MigrationRunner, BaselineCapture, Backup

The operator's scripts over one database. They share no lock and no file.

| variable | in the code |
|---|---|
| `edited`, `applied`, `recorded` | files of `db/migrations` whose bytes changed, what has been committed of each, `meta.schema_migrations` |
| `step`, `at`, `hash` | each process of `migrate_compose.sh`: where it is, its file, that file's checksum |
| `skipped`, `missed` | files passed over since their input to `psql` was cut short: ever, and by the current or last run of each process (history) |
| `captured`, `obligations` | dates with a committed batch and snapshots, the baseline's rows of `finance.recurring_obligations` |
| `phase`, `asOf`, `seen` | each transaction of `capture_household_baseline.sh`: where it is, its date, the rows its DELETE and UPDATE found |
| `dumps`, `stage`, `counted`, `scratch` | files `family_finance.*.dump`, where `backup_postgres_compose.sh` is, its `PROD_*` counts, scratch databases that exist |
| `imported` | rows of `finance.transactions` |
| `mark`, `orderly`, `today`, `crew` | production when the counting began (history); no capture so far was backdated or overlapped (history); `CURRENT_DATE`; which scripts run in this behaviour (a bound) |

A runner takes `StartRun`, and for each file `HashFile`, `AskRecord`, and `ApplyPlain`, or `ApplyOwn` and
`RecordOwn` for a file with a COMMIT of its own (005 to 009): the runner's BEGIN is then void, the file commits at
its own COMMIT and the INSERT is a transaction of its own. `Once` are the files that fail on the tables they have created (007, 009).
`Interrupted` is a kill or a failed `psql`, the second disjunct of a commit a lost reply, `EditFile` someone who changes a file.

The script runs with `set -e` and without `pipefail`, so that only the right side of a pipe can end it. `CutShort` is a `cat`
(or a `printf` of the same subshell) that fails: `psql` gets `BEGIN;` and a part of the file, or a file up to its own COMMIT, then the
end of its input, and exits 0; the loop goes on, records later files and prints `MIGRATIONS=PASS`. A failed `sha256sum` in
front of `awk` gives `HashFile` the checksum `Blank`; a question that is not sent gives `AskRecord` the answer of an unrecorded
version. Since a gap may therefore arise, a file that needs an earlier one (`Needs`) fails without it and ends the runner. An input cut
inside a statement is a syntax error of `psql`, so `Interrupted`.

A capture is `BeginCapture` (the unique index on `import_batches` makes captures of one date wait for each other),
`Supersede` (the moment at which DELETE and UPDATE look for their rows), `CommitCapture` or
`RollBack`. Rows another transaction has changed in between are looked at again by PostgreSQL; the effect is that of the
commits' order, as the header comment says. Two captures that overlap do not see each other's
new row: both stay active, which `orderly` sets apart.

A backup is `BeginBackup`, `Dump` (the snapshot of `pg_dump` under its final name), `CountNext` per table, `CreateScratch`, `Restore`,
`Compare`, `DropScratch` and `Prune`. `Cleanup` is the trap, `CallFails` any call that fails, with the trap's `dropdb` failing as well or
not. `Backup` is written for any production whose counted tables only grow (`Write`): it is the abstract specification the
composition is shown to implement, with `rows` as the counts the other scripts' tables have (`TableCounts`). It is this assumption that
makes comparing counts meaningful at all, and `ImplementsBackup` discharges it. Counts of five tables are all the script
compares: a write that adds no row there (a second capture of a date, a migration that is committed and not yet recorded) passes unnoticed,
in the model as in the script. `Prune` removes all the old dumps at once; a kill between two `rm` leaves some of them for the
next backup to remove. One backup runs at a time, and it is started when the counted
tables are there; amounts are left out, and a restore gives back the dump's snapshot.

## 3. The runs

| run | asks | bounds |
|---|---|---|
| `AndroidRelay_safety` | no event leaves the queue before a batch file holds it | 2 events, 3 lines, batches of 2, 2 faults, torn appends |
| `AndroidRelay_live` | every line is uploaded in the end; a lost consent shows | 2 lines, batches of 1, 1 fault |
| `AndroidRelay_immediate` | *violated*: a waiting line has an immediate work | 2 lines, no fault |
| `DriveCollector` | run protocol: a deleted file is staged, counters, open runs, freshness, liveness | 3 arbitrary files of 2 events, page of 2, 2 failures |
| `RelayPipeline_safety` | no event lost end to end; safety of EventRelay | 2 lines, 1 fault of the phone, 1 of the NAS |
| `RelayPipeline_live` | EventRelay with its liveness | 1 line, 1 fault, 1 foreign file, page of 2 |
| `GmailSync` | the cursor passes staged mail only, in a full synchronization also mail that is gone, not asked for, too old or too new for the list; never goes back; catches up | 2 messages, full list of 1, 1 failure |
| `GmailSync_late` | *violated*: mail after the listing is staged | the same, one rule |
| `TransferReconciliation` | tags of rows clear of the limit depend on the rows alone; repeating changes nothing; a match is lost only to a rival | 5 rows, 4 times, window 1, limit 4 |
| `TransferReconciliation_limit` | *violated*: matches are one-to-one | 3 rows, limit 2 |
| `LedgerImport` | what is archived is in the ledger, the ledger is traceable, batches keep their rows, importing again changes nothing, the imports implement `SerialLedger`, no file stays in `raw/` | 2 loops, 2 files of 3 contents, 2 mappings, 1 failure; the cleanup at any time |
| `DatabaseOperations` | the schema is a prefix of the files but for inputs cut short, and is brought up to date; the latest baseline counts, once in orderly times; the rows a verified dump can restore stay restorable, a passed one had the current counts, backups catch up; no unexplained scratch database; the composition implements `Backup` | 3 files (one plain, which the others need; one repeatable and one not with its own COMMIT), 0 or 2 of them installed, 2 runners, 1 edit, 1 failure of a runner; 3 days, 2 captures at once and 4 in all; 2 dumps kept, 1 failure |

Why the bounds are enough to be interesting. Three lines and batches of two make the two works read
different and overlapping heads of the queue, with a line appended behind them. Three files and pages of two make
a page that ends before the folder does, and batches that repeat each other's events across pages. Five rows and a limit of four give groups
of two against two and one row that slides out of the limit; with a window of 1 the times 0 to 3 put a row just more than two
windows after the one that the limit leaves out, and with a margin of one window instead of two TLC finds a wrong tag. A full list of one message out of two makes the list
shorter than the mailbox. The three
contents share their transactions, one repeats a malformed row, one repeats a fingerprint; the two mappings read a cell differently, and one declares
a row count that only some of them meet, so that two loops and two files make batches that
complete, are partial, fail, roll back and take each other's transactions over. The faults are budgets, not places: each may strike at any step.
In `DatabaseOperations` a behaviour has one crew of scripts (`Crews`): two runners and an editor; two captures and the
calendar; the backup with a runner, with a capture (of up to `MaxBesides` = 2 dates), or with imports. Runners and captures touch different tables,
so that running all of them at once would multiply their states and add no interaction but through the counts, which the backup's crews have;
the theorems have no such limit, `Crews` being any set there. For the same reason runners do not fail beside a backup (`StopsBesides` = 0):
a runner that stops only makes the counts rise later. Two failures of the two runners were checked once and change nothing; one keeps the run short. Two kept dumps and counts that may change three times make
dumps that fail their verification push a verified one towards the end of the list; three days and
two transactions make backdated, repeated, future and overlapping captures.
What the bounds cannot show (more files, larger pages, more faults) is what the theorems are for.

`SYMMETRY` is used in the two runs that check safety only, over events, none of which a definition
singles out there. `VIEW Relevant` in `RelayPipeline_safety` drops
`authRequired`, `openRuns`, `mine`, `tally` and `source.healthy`: these are only written, no guard, no other
variable's next value and neither property of that run reads them, so two states that differ in nothing else
have the same future. `TypeOK` is therefore checked for each side in its own run and not here.

Deadlock is checked in every run but two. In `LedgerImport` the loops rest when `raw/` is empty and no more files arrive; in
`DatabaseOperations` a crew of captures rests when its bounded captures are committed. In the others a phone can always lose or gain its consent, the collector's cadence always
elapses again and a reconciliation can always be repeated.

## 4. Fairness

- `PhoneFairness`: Android binds the listener again and WorkManager starts and finishes enqueued works. Every step
  of a work is covered by weak fairness per work, crash and faults are bounded and
  not fair. The consent of the user is not assumed: the property of the phone alone says
  `<>[]grant =>`; only the pipeline's liveness assumes a user who reacts to the authorization screen
  (`WF` of `Authorize` while there is no grant).
- `CollectorFairness`: `main`'s loop ticks for ever (`main.py:250`) and calls return. `CadenceElapses` is the wall
  clock against `last_attempt_at`.
- In `GmailSync`, `WF(HistoryExpires)`: Gmail keeps history for a limited time. Without it
  the source stays stuck behind a message that was deleted before it was fetched, because the 404 of messages.get is not caught.
- In `DatabaseOperations`, weak fairness of each runner's and of the backup's steps: the operator (or the NAS's task scheduler) starts them
  again and again, and their calls return. Edits, captures, imports and failures are not fair.
- In `LedgerImport`, `WF(DropStep)` per loop: the owner starts the script again and again, by hand or by a scheduler of
  their own (the repository creates none), and its calls return.

Liveness properties have premises the code needs: no torn line (`Tears = FALSE`), a folder without rejected
or unstorable batches and with fewer foreign files than a page, mail without unstorable amounts, and production that comes to rest (`BackupsCatchUp`: a database that is written during each
backup may fail each verification). `SchemaIsBroughtUpToDate` has an alternative instead: the schema is completed, or from some point on
a recorded checksum is not the file's (the file was edited, or `sha256sum` failed when it was applied) or a file of `Once` is applied and
not recorded. The run shows that there is no third way to be stuck. Where such
a premise fails the component really is stuck, which the hazards say and section 5 proves.

## 5. What is proved

`tlapm` proves the following for every value of the constants that satisfies the named `ASSUME`s of the modules. Each argument is an
inductive invariant `I` with `Init => I`, `I /\ [Next]_vars => I'`; the step has one case per action, and where an
action disturbs more than one part, one per part.

| module | theorems | inductive invariant, and why more than the property is needed |
|---|---|---|
| `AndroidRelayProofs` | `TypeCorrect`, `RemovedOnlyAfterUploadHolds`, `TornHeadStopsRelayForGood` | `RelayInv`: a work that comes to acknowledge has its whole batch in some file, and its batch has no torn line. Without it `Acknowledge` could remove anything. |
| `DriveCollectorProofs` | `TypeCorrect`, `DeletedOnlyAfterStagedHolds`, `StagedCameFromDriveHolds`, `CompletedRunCountsItsRowsHolds`, `OpenRunsAreExplainedHolds`, `SuccessMeansPageStagedHolds`, `BadPagesBlockForGood` | `CollectorInv`: each event of the listing is staged or still to do, to-do is empty after the loop, seen = imported + ignored + what is left, imported is the number of rows that carry the run's id, a run past `BeginRun` has an open row. |
| `RelayPipelineProofs` | `NoEventLostHolds`, `ImplementsSafetyHolds` | `PipelineInv`: both invariants, only batches hold events, and batches hold accepted events only. `CollectorInvArrival` (the collector's invariant survives new files) and `RelayInv`'s indifference to the NAS compose the two. |
| `GmailSyncProofs` | `TypeCorrect`, `CursorMovesOverStagedMailHolds`, `CursorNeverGoesBackHolds`, `OneMessageStopsTheSource` | `SyncInv`: the run's history id is not behind the cursor, an incremental listing holds everything between them, what has been fetched is staged or to do, and what a full listing misses is `LeftOut`, also while mail arrives and is deleted behind it (`FullListsNewest`). That a message is missing from a bounded list only because `MaxInitial` newer ones are on it (`ListedAreNewest`) needs a newest missing message: `LargestExists` gets it from the well-foundedness of < on the naturals. |
| `LedgerImportProofs` | `TypeCorrect`, `ArchivedIsInLedgerHolds`, `LedgerHasProvenanceHolds`, `BatchKeepsItsRowsHolds`, `AgainChangesNothingHolds`, `ImplementsLedgerHolds`, `LedgerFollowsFromBatches` | `ImportInv`: a recorded batch is exactly `Outcome` of its content and mapping with all its rows and transactions, each transaction is the `Entry` of its batch, a loop past `DropPick` imports the content of its file, and status 0 means that its batch is applied. The properties only see the tables; without the loops' part a move could archive anything. For the refinement each step of the code is an `Arrive`, an `Import`, an `Archive` or a stutter: `Load` is the import, whether its reply comes or not. `LedgerFollowsFromBatches` compares two reachable states: equal batches leave only the conflicts open. |
| `TransferReconciliationProofs` | `TypeCorrect`, `TagsFollowFromRows`, `OnlyTheLimitSpoilsMatches`, `RepeatingIsHarmless`, `MatchesGiveWayToRivals` | `ReconciliationInv`: a tag, also an old one, is only on a row with candidates and a match only with a candidate; after a reconciliation the tags agree with the pairing of the newest rows. Tags are never removed, so without the first part a row whose candidates are gone could keep one. The lemmas `PairsAreMutual` (being a candidate is symmetric) and `PairingCases` carry the rest; `ClearRowsAreSeen` and `ClearRowsAgree` show that a row two windows clear of the limit, its candidates and their candidates are all read. |
| `BackupProofs` | `BackupInvStep`, `BackupSafety`, `BackupKeepsVerifiedDump`, `BackupPassesCurrentCounts` | `BackupInv`: until the counting begins the dump is behind production, from then on it is behind `mark`, and `mark` behind the counts. So equal counts squeeze the dump to `mark`. Between `Compare` and `Prune` the newest dump is verified, so pruning keeps it; and since no later dump has fewer rows (`DumpsGrow`), it restores what any pruned one could. |
| `DatabaseOperationsProofs` | `TypeCorrect`, `SchemaGapsAreCutShort`, `MigrationsApplyOnce`, `BlockedMigrationsStayBlocked`, `CaptureReplacesItsDate`, `LatestBaselineStays`, `OrderlyCapturesCountOnce`, `NoUnexplainedLeftovers`, `OperationsImplementBackup`, `VerifiedDumpStays`, `PassedCountsAreCurrent` | `OperationsInv`: `MigrationInv` (behind the file of a working runner all are recorded or in `missed`; what it is about to record is applied), `CaptureInv` (ids and dates are unique; a capture past its UPDATE has found the row of its date and earlier rows only; the row of the latest date is active; in orderly times no other is, or the one capture past its UPDATE has found it) and `BackupInv` under `rows <- TableCounts`. Each script's part is kept by its own steps, and by the others' because they leave its variables alone; for the backup the others are `Write`, since `TableCounts` only grows. |

TLC checked every inductive invariant on the instances above before it was proved. Every invariant and every action property of a
passing run is a theorem, and so are the refinements `ImplementsBackup` and `ImplementsLedger`.

Four theorems are about what liveness takes for granted. A run shows that a premise is enough; these show, without any
fairness, that where it fails the component is stuck for good, so that none of them could be dropped:

- `TornHeadStopsRelayForGood`: a torn line among the first `BatchLimit` never leaves, no later run passes `readBatch`.
- `BadPagesBlockForGood`: a rejected file or an unstorable event in the page, or a page full of foreign files, ends all deletes.
- `OneMessageStopsTheSource`: until the history behind the cursor expires, a deleted message stops the Gmail source, and one with
  an amount that cannot be stored stops its cursor. So `WF(HistoryExpires)` and the premise on amounts are both needed.
- `BlockedMigrationsStayBlocked`: the alternative in `SchemaIsBroughtUpToDate` is final once no runner is past it: no file from that one on is
  recorded any more and no run passes. The one exception is an input cut short at that very file, which lets a run pass over it.
  `ChecksumsAreEarlier` (a checksum that is not the file's is that of the bytes before the edit, or none) makes it so: without it an
  edit could undo an edit.

TLC checked their formulas on the instances of the runs, with the blocked states reached, before they were proved.
They are stated in the proof modules and belong to no run.

Only model-checked: all liveness (fairness and ENABLED are out of the prover's reach), so of `ImplementsRelay` the liveness part.

## 6. Where code and documents disagree

1. `RelayScheduler.kt:30`: with `ExistingWorkPolicy.KEEP` a request made while the previous immediate work still runs is dropped:
   the listener's, and the immediate work's own (`RelayWorker.kt:39`), which it makes while it is running. In the periodic work that line
   takes effect when there is no immediate work (`Recheck`). `docs/operations/android-notification-relay.md:52` promises an
   immediate job per event. Nothing is lost: `AndroidRelay_live` shows that the 15-minute work picks it up.
2. `db.py:174`: the limit of 500 rows can cut an ambiguous group, whose rest then looks one-to-one and is
   tagged as matched, against `db.py:148` and `reconciliation.py:93`. Nothing else can do this: `OnlyTheLimitSpoilsMatches` proves that rows
   two windows clear of the limit, and all rows while there are at most 500, are matched one-to-one.
3. `gmail.py:81`: `full_sync` asks for the history id after the listing; a message that arrives in between is in no
   list and behind the cursor. `CursorMovesOverStagedMailHolds` proves it the only gap: the rest of what a full run passes is outside
   its query, deleted, or older than the newest `max_initial_messages`. Asking for the profile first would close it.

Read in the code and in the models, without a run of their own:

4. `backup_postgres_compose.sh:91`: pruning counts every dump, also those that failed their verification, while
   `docs/operations/retention-policy.md:7` says that it "retains the newest `BACKUP_KEEP` verified dumps". What a verified dump
   could restore always stays restorable from a verified one (`VerifiedDumpKept`), but fewer than `BACKUP_KEEP` may remain.
5. `migrate_compose.sh:73`: a file with a COMMIT of its own is not applied in the runner's transaction, and one that
   repeats may be applied twice, while `docs/runtime/postgresql.md:59` says "applies each migration once inside a
   transaction". `AppliedOnce` says for which files it is true.
6. `migrate_compose.sh:76`: without `pipefail` a `cat` that fails ends neither `psql` nor the runner, which goes on to later files and
   prints `MIGRATIONS=PASS` (line 84) without having applied or recorded this one, against "applies each migration" in the same
   list of `docs/runtime/postgresql.md`. `RecordedInOrder` has it as its exception; a later run that reads the file fills the gap
   (`SchemaIsBroughtUpToDate`).
7. `migrate_compose.sh:36`: a `sha256sum` that fails in front of `awk` is no error, and the file is recorded with a blank checksum. Every
   later run ends with a mismatch at that file (`Blocked`), although its content was not modified (`docs/runtime/postgresql.md:61`).

## 7. Not modelled, and the plan

Not modelled, with reasons in `PROJECT.json`: configuration parsing, static grants, the interactive OAuth
scripts, CI, the emitter no script calls any more; of the phone, `EventStore.acknowledge`'s fallback when
`renameTo` fails, and sizes (a batch of 100 bounded events stays far below 512 KiB). The views, the scenario engine, the MCP server and the
normalizer are pure: no step of theirs interleaves with another, and a model of an arithmetic formula would repeat it. The one view
whose value depends on the order of events, the sum of active obligations, is `Counting` in `BaselineCapture`.

Hazards without a property: the in-place fallback of `acknowledge` and the row limit of the MCP server's histories. The
column `collection_sources.enabled`, which the freshness view shows and nothing reads, belongs to that view and is not modelled.

Done, most important behaviour first: `AndroidRelay`, `DriveCollector`, `RelayPipeline` over `EventRelay`,
`TransferReconciliation`, `GmailSync`, `LedgerImport` with the retention of files, `DatabaseOperations` with `MigrationRunner`, `BaselineCapture` and
`Backup`, and the proofs of all their safety properties.

What could follow:

1. A collector cycle over several sources that share one connection, with the freshness view on top. A lost connection
   only delays the sources behind it by a cycle, which the modules allow already.
2. Pure parts as operators against reference definitions: the normalizer's contract with the parser, the
   monthly-delta views, the scenario projection, the MCP limits.
