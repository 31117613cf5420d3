------------------------------- MODULE Backup -------------------------------
(***************************************************************************)
(* backup_postgres_compose.sh, run again and again, one call at a time:    *)
(* pg_dump takes a snapshot, the dump gets its final name, production's    *)
(* rows are counted table by table, the dump is restored into a scratch    *)
(* database and its counts are compared, and only then all but the newest  *)
(* Keep dumps are removed.  Production is written all the while.           *)
(*                                                                         *)
(* A database is what the script sees of it: the number of rows of each    *)
(* table it counts.  A dump is the snapshot it was taken from.             *)
(***************************************************************************)
EXTENDS Integers, Sequences

CONSTANTS
  Table,      \* the counted tables
  CountOrder, \* the order in which they are counted, a sequence over Table
  Keep,       \* BACKUP_KEEP
  MaxSlips    \* bound: failed calls, lost replies and killed scripts

(* What the theorems assume of the constants; DatabaseOperations meets it. *)
BackupConstants ==
  /\ CountOrder \in Seq(Table) /\ Table = {CountOrder[i] : i \in DOMAIN CountOrder}
  /\ Keep \in Nat \ {0} /\ MaxSlips \in Nat

VARIABLES
  rows,     \* production: rows committed in each table
  dumps,    \* files named family_finance.*.dump, oldest first
  stage,    \* where the script is
  counted,  \* the PROD_* counts taken so far
  mark,     \* production's rows when the counting began (history)
  scratch,  \* scratch databases that exist
  slips     \* failures so far (bound only)

scriptVars == <<dumps, stage, counted, mark, scratch, slips>>
backupVars == <<rows, scriptVars>>

Counts == [Table -> Nat]
Stage == {"idle", "dump", "count", "create", "restore", "compare", "drop", "prune"}
WithScratch == {"restore", "compare", "drop"}
HasDump == Stage \ {"idle", "dump"}
Mine == Len(dumps)

BackupTypeOK ==
  /\ rows \in Counts /\ mark \in Counts
  /\ dumps \in Seq([rows : Counts, verified : BOOLEAN])
  /\ stage \in Stage
  /\ counted \in Seq(Nat) /\ Len(counted) <= Len(CountOrder)
  /\ stage \in HasDump => Mine > 0
  /\ scratch \in Nat
  /\ slips \in 0 .. MaxSlips

(* Everything of the script; rows belong to the database. *)
BackupInit ==
  /\ dumps = <<>> /\ stage = "idle" /\ counted = <<>>
  /\ mark = [t \in Table |-> 0]
  /\ scratch = 0 /\ slips = 0

Slips == slips < MaxSlips /\ slips' = slips + 1

Resets ==
  /\ stage' = "idle" /\ counted' = <<>>
  /\ mark' = [t \in Table |-> 0]

(* The trap: the scratch database is dropped if VERIFY_CREATED says so. *)
Cleanup ==
  /\ scratch' = IF stage \in WithScratch THEN scratch - 1 ELSE scratch
  /\ Resets
  /\ UNCHANGED dumps

----------------------------------------------------------------------------
(* Other processes write to production: rows are only added to the counted *)
(* tables.                                                                 *)
Write ==
  /\ rows' \in Counts /\ \A t \in Table : rows'[t] >= rows[t]
  /\ UNCHANGED scriptVars

(* The readiness check succeeds. *)
BeginBackup ==
  /\ stage = "idle" /\ stage' = "dump"
  /\ UNCHANGED <<rows, dumps, counted, mark, scratch, slips>>

(* Mutant of Dump: older dumps are removed as soon as the new one is there. *)
DumpAndPrune ==
  /\ stage = "dump" /\ stage' = "count"
  /\ dumps' = LET all == Append(dumps, [rows |-> rows, verified |-> FALSE])
              IN  IF Len(all) <= Keep THEN all
                  ELSE SubSeq(all, Len(all) - Keep + 1, Len(all))
  /\ mark' = rows
  /\ UNCHANGED <<rows, counted, scratch, slips>>

(* pg_dump's snapshot, not empty, under its final name: what is written    *)
(* while pg_dump runs comes after the snapshot.                            *)
Dump ==
  /\ stage = "dump" /\ stage' = "count"
  /\ dumps' = Append(dumps, [rows |-> rows, verified |-> FALSE])
  /\ UNCHANGED <<rows, counted, mark, scratch, slips>>

(* count_table of the next table of production. *)
CountNext ==
  /\ stage = "count" /\ Len(counted) < Len(CountOrder)
  /\ counted' = Append(counted, rows[CountOrder[Len(counted) + 1]])
  /\ mark' = IF counted = <<>> THEN rows ELSE mark
  /\ stage' = IF Len(counted') = Len(CountOrder) THEN "create" ELSE "count"
  /\ UNCHANGED <<rows, dumps, scratch, slips>>

(* createdb; when its reply is lost the database is there and              *)
(* VERIFY_CREATED is still 0.                                              *)
CreateScratch ==
  /\ stage = "create"
  /\ scratch' = scratch + 1
  /\ \/ stage' = "restore" /\ UNCHANGED <<counted, mark, slips>>
     \/ Slips /\ Resets
  /\ UNCHANGED <<rows, dumps>>

Restore ==
  /\ stage = "restore" /\ stage' = "compare"
  /\ UNCHANGED <<rows, dumps, counted, mark, scratch, slips>>

Accepts ==
  /\ stage' = "drop"
  /\ dumps' = [dumps EXCEPT ![Mine].verified = TRUE]
  /\ UNCHANGED <<counted, mark, scratch>>

(* Mutant of Compare: only the recorded migrations are compared.           *)
CompareFirstOnly ==
  /\ stage = "compare"
  /\ IF dumps[Mine].rows[CountOrder[1]] = counted[1] THEN Accepts ELSE Cleanup
  /\ UNCHANGED <<rows, slips>>

(* Mutant of Compare: a mismatch ends the script without its trap.         *)
CompareNoTrap ==
  /\ stage = "compare"
  /\ IF \A i \in DOMAIN CountOrder : dumps[Mine].rows[CountOrder[i]] = counted[i]
       THEN Accepts
       ELSE Resets /\ UNCHANGED <<dumps, scratch>>
  /\ UNCHANGED <<rows, slips>>

(* The restored counts against production's: a mismatch (exit 20 to 24)    *)
(* leaves the dump under its name.                                         *)
Compare ==
  /\ stage = "compare"
  /\ \/ /\ \A i \in DOMAIN CountOrder : dumps[Mine].rows[CountOrder[i]] = counted[i]
        /\ Accepts
     \/ /\ \E i \in DOMAIN CountOrder : dumps[Mine].rows[CountOrder[i]] # counted[i]
        /\ Cleanup
  /\ UNCHANGED <<rows, slips>>

DropScratch ==
  /\ stage = "drop" /\ stage' = "prune"
  /\ scratch' = scratch - 1
  /\ UNCHANGED <<rows, dumps, counted, mark, slips>>

(* Mutant of Prune: the oldest dumps are the ones kept.                    *)
PruneNewest ==
  /\ stage = "prune"
  /\ dumps' = IF Mine <= Keep THEN dumps ELSE SubSeq(dumps, 1, Keep)
  /\ Resets
  /\ UNCHANGED <<rows, scratch, slips>>

(* ls -1t and rm of all behind the first Keep, verified or not; PASS.      *)
Prune ==
  /\ stage = "prune"
  /\ dumps' = IF Mine <= Keep THEN dumps ELSE SubSeq(dumps, Mine - Keep + 1, Mine)
  /\ Resets
  /\ UNCHANGED <<rows, scratch, slips>>

(* A call fails and the trap runs; its dropdb may fail too. *)
CallFails ==
  /\ stage # "idle" /\ Slips
  /\ \/ Cleanup
     \/ Resets /\ UNCHANGED <<dumps, scratch>>
  /\ UNCHANGED rows

BackupStep ==
  \/ BeginBackup \/ Dump \/ CountNext \/ CreateScratch \/ Restore
  \/ Compare \/ DropScratch \/ Prune

BackupNext == Write \/ BackupStep \/ CallFails

BackupSpec == rows \in Counts /\ BackupInit /\ [][BackupNext]_backupVars

----------------------------------------------------------------------------
(* The rows a verified dump can restore are never lost: after any step     *)
(* there is a verified dump with at least as many of every counted table,  *)
(* whatever number of later dumps fail their verification, although those  *)
(* count among the newest Keep.                                            *)
Restores(d, e) == d.verified /\ \A t \in Table : e.rows[t] <= d.rows[t]
VerifiedDumpKept ==
  [][\A i \in DOMAIN dumps :
       dumps[i].verified => \E j \in DOMAIN dumps' : Restores(dumps'[j], dumps[i])]_dumps

(* A dump that passes has the row counts that production had when the      *)
(* counting began, although the tables are counted one after another       *)
(* while others write: rows that a capture, an import or a runner adds to  *)
(* a counted table in between make it fail.  A write that adds none, such  *)
(* as a second capture of a date or the DDL of a migration that is not     *)
(* recorded yet, is not noticed.                                           *)
PassedCountsWereCurrent ==
  [][stage = "compare" /\ stage' = "drop" => dumps[Mine].rows = mark]_stage

(* A scratch database outlives its backup only by a failure of its own: a  *)
(* killed script, a lost reply, a dropdb that fails.                       *)
LeftoversAreExplained ==
  scratch <= IF stage \in WithScratch THEN slips + 1 ELSE slips

(* The inductive invariant: each dump is behind the next and production;   *)
(* until the counting begins the dump is behind production; from then on   *)
(* it is behind mark, and mark behind the counts.                          *)
ScratchIsThere == stage \in WithScratch => scratch >= 1
PruneAfterPass == stage \in {"drop", "prune"} => dumps[Mine].verified
CountsAreComplete ==
  /\ stage \in {"idle", "dump"} => counted = <<>>
  /\ stage \in {"create", "restore", "compare"} => Len(counted) = Len(CountOrder)
CountsAreLater ==
  /\ stage \in HasDump =>
       \A t \in Table :
         dumps[Mine].rows[t] <= IF counted = <<>> THEN rows[t] ELSE mark[t]
  /\ counted # <<>> => \A t \in Table : mark[t] <= rows[t]
  /\ \A i \in DOMAIN counted : mark[CountOrder[i]] <= counted[i]

DumpsGrow ==
  \A i, j \in DOMAIN dumps : i <= j =>
    \A t \in Table :
      dumps[i].rows[t] <= dumps[j].rows[t] /\ dumps[j].rows[t] <= rows[t]

BackupInv ==
  /\ BackupTypeOK /\ LeftoversAreExplained /\ ScratchIsThere /\ DumpsGrow
  /\ PruneAfterPass /\ CountsAreComplete /\ CountsAreLater

(* When production's row counts come to rest, the backups catch up: in the *)
(* end there is always a verified dump with the current ones.              *)
BackupCatchesUp ==
  <>[][FALSE]_rows =>
    <>[](\E i \in DOMAIN dumps : dumps[i].verified /\ dumps[i].rows = rows)

=============================================================================
