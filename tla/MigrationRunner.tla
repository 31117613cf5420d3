-------------------------- MODULE MigrationRunner --------------------------
(***************************************************************************)
(* migrate_compose.sh: for each file of db/migrations, in the order of     *)
(* their names, the script hashes the file, asks on a connection of its    *)
(* own whether the version is recorded, and otherwise sends BEGIN, the     *)
(* file, the INSERT into meta.schema_migrations and COMMIT to one psql.    *)
(*                                                                         *)
(* A file that carries a BEGIN and COMMIT of its own (005 to 009) commits  *)
(* at its inner COMMIT, and its INSERT is a transaction of its own behind  *)
(* it.  Of these some repeat without harm (IF NOT EXISTS, CREATE OR        *)
(* REPLACE); others fail on the tables they have created (007, 009).       *)
(* Nothing keeps two runners apart.  A file is its bytes, original or      *)
(* edited; the bytes stand for the checksum.                               *)
(*                                                                         *)
(* psql runs with ON_ERROR_STOP and the script with set -e, but without    *)
(* pipefail: an error of psql ends the runner, one on the left side of a   *)
(* pipe does not.  A file that cannot be read is sent cut short, which     *)
(* psql takes for its end, a failed sha256sum is an empty checksum, and a  *)
(* question that is not sent has the empty answer.                         *)
(***************************************************************************)
EXTENDS Integers, Sequences, FiniteSets

CONSTANTS
  Runner,    \* processes of migrate_compose.sh
  Files,     \* the migration files are 1 .. Files
  Own,       \* files that carry a transaction of their own
  Once,      \* files of Own that cannot be applied a second time
  Needs,     \* pairs <<m, n>>: file m fails unless the earlier file n is applied
  Installed, \* how many files an earlier release may have left applied
  MaxEdits,  \* bound: files ever edited
  MaxStops   \* bound: failed calls, lost replies and killed runners

Migration == 1 .. Files

ASSUME FilesAssumption ==
  /\ Files \in Nat \ {0} /\ Own \subseteq Migration /\ Once \subseteq Own
  /\ Needs \subseteq {p \in Migration \X Migration : p[2] < p[1]}
  /\ Installed \subseteq 0 .. Files
ASSUME RunnerBounds == MaxEdits \in Nat /\ MaxStops \in Nat

VARIABLES
  edited,    \* files whose bytes have changed
  applied,   \* the bytes of each migration that have been committed, in order
  recorded,  \* meta.schema_migrations: checksum by version
  step,      \* where each runner is
  at,        \* the file it works on
  hash,      \* that file's checksum, as the runner knows it
  stops      \* failures so far (bound only)

(* History, read by the properties only: the files whose input to psql was *)
(* cut short, so that a runner went on without them.                       *)
VARIABLES
  skipped,   \* by any runner
  missed     \* by the current, or else the last, run of each runner

schemaVars == <<edited, applied, recorded>>
runnerVars == <<step, at, hash>>
historyVars == <<skipped, missed>>
migrationVars == <<schemaVars, runnerVars, historyVars, stops>>

Bytes == {"original", "edited"}
Blank == "blank"  \* the empty checksum, 64 blanks in the CHAR(64) column
Checksum == Bytes \cup {Blank}
NoHash == "none"
Resting == {"idle", "passed"}

Content(m) == IF m \in edited THEN "edited" ELSE "original"
Recorded == DOMAIN recorded

SchemaTyped ==
  /\ edited \in SUBSET Migration
  /\ applied \in [Migration -> Seq(Bytes)]
  /\ Recorded \subseteq Migration /\ recorded \in [Recorded -> Checksum]
RunnersTyped ==
  /\ step \in [Runner -> Resting \cup {"hash", "ask", "apply", "record"}]
  /\ at \in [Runner -> 0 .. Files]
  /\ hash \in [Runner -> Checksum \cup {NoHash}]
  /\ \A r \in Runner :
       /\ step[r] \notin Resting => at[r] \in Migration
       /\ step[r] \in {"ask", "apply", "record"} => hash[r] \in Checksum
  /\ missed \in [Runner -> SUBSET Migration]
MigrationTypeOK ==
  /\ SchemaTyped /\ RunnersTyped
  /\ skipped \subseteq Migration /\ stops \in 0 .. MaxStops

MigrationInit ==
  /\ edited = {}
  /\ \E n \in Installed :
       /\ applied = [m \in Migration |-> IF m <= n THEN <<"original">> ELSE <<>>]
       /\ recorded = [m \in 1 .. n |-> "original"]
  /\ step = [r \in Runner |-> "idle"]
  /\ at = [r \in Runner |-> 0]
  /\ hash = [r \in Runner |-> NoHash]
  /\ skipped = {} /\ missed = [r \in Runner |-> {}]
  /\ stops = 0

Stops == stops < MaxStops /\ stops' = stops + 1

(* The script ends, with MIGRATIONS=PASS or without. *)
Ends(r, how) ==
  /\ step' = [step EXCEPT ![r] = how]
  /\ at' = [at EXCEPT ![r] = 0]
  /\ hash' = [hash EXCEPT ![r] = NoHash]

Leaves(r) == Ends(r, "idle")

(* Mutant of Advances: one file too many.                                  *)
AdvancesTooFar(r) ==
  IF at[r] > Files
    THEN Ends(r, "passed")
    ELSE /\ step' = [step EXCEPT ![r] = "hash"]
         /\ at' = [at EXCEPT ![r] = @ + 1]
         /\ hash' = [hash EXCEPT ![r] = NoHash]

(* On to the next file. *)
Advances(r) ==
  IF at[r] = Files
    THEN Ends(r, "passed")
    ELSE /\ step' = [step EXCEPT ![r] = "hash"]
         /\ at' = [at EXCEPT ![r] = @ + 1]
         /\ hash' = [hash EXCEPT ![r] = NoHash]

GoesTo(r, s) ==
  /\ step' = [step EXCEPT ![r] = s]
  /\ UNCHANGED <<at, hash>>

Applies(m) == applied' = [applied EXCEPT ![m] = Append(@, Content(m))]

(* The INSERT, which the primary key refuses for a recorded version. *)
Records(m, h) ==
  /\ m \notin Recorded
  /\ recorded' = [v \in Recorded \cup {m} |-> IF v = m THEN h ELSE recorded[v]]

(* The recorded checksum is the file's.  Blanks are no checksum, not even  *)
(* that of another failed sha256sum, which is the empty string.            *)
Matches(r) ==
  at[r] \in Recorded /\ recorded[at[r]] = hash[r] /\ hash[r] # Blank

(* The file finds what earlier files create. *)
Ready(m) == \A n \in Migration : <<m, n>> \in Needs => applied[n] # <<>>

----------------------------------------------------------------------------
(* Someone changes a file of the directory, at any time. *)
EditFile ==
  /\ Cardinality(edited) < MaxEdits
  /\ \E m \in Migration \ edited : edited' = edited \cup {m}
  /\ UNCHANGED <<applied, recorded, runnerVars, historyVars, stops>>

StartRun(r) ==
  /\ step[r] \in Resting
  /\ step' = [step EXCEPT ![r] = "hash"]
  /\ at' = [at EXCEPT ![r] = 1]
  /\ missed' = [missed EXCEPT ![r] = {}]
  /\ UNCHANGED <<schemaVars, hash, skipped, stops>>

(* A sha256sum that fails in front of awk gives the empty checksum. *)
HashFile(r) ==
  /\ step[r] = "hash"
  /\ \/ hash' = [hash EXCEPT ![r] = Content(at[r])] /\ UNCHANGED stops
     \/ hash' = [hash EXCEPT ![r] = Blank] /\ Stops
  /\ step' = [step EXCEPT ![r] = "ask"]
  /\ UNCHANGED <<schemaVars, at, historyVars>>

(* The question whether the version is recorded: a runner applies, skips,  *)
(* or ends with a checksum mismatch.  When the question is not sent, the   *)
(* answer is that of an unrecorded version.                                *)
AskRecord(r) ==
  /\ step[r] = "ask"
  /\ \/ /\ GoesTo(r, "apply")
        /\ \/ at[r] \notin Recorded /\ UNCHANGED stops
           \/ at[r] \in Recorded /\ Stops
     \/ Matches(r) /\ Advances(r) /\ UNCHANGED stops
     \/ at[r] \in Recorded /\ ~Matches(r) /\ Leaves(r) /\ UNCHANGED stops
  /\ UNCHANGED <<schemaVars, historyVars>>

(* Mutant of ApplyPlain: psql without BEGIN and COMMIT around the file.    *)
ApplyPlainAutocommitted(r) ==
  /\ step[r] = "apply" /\ at[r] \notin Own
  /\ Applies(at[r])
  /\ GoesTo(r, "record")
  /\ UNCHANGED <<edited, recorded, historyVars, stops>>

(* A file in the runner's own transaction: the file and its record commit  *)
(* together, the reply may be lost; a file that misses an earlier one, and *)
(* a version that is recorded after all, roll everything back.             *)
ApplyPlain(r) ==
  /\ step[r] = "apply" /\ at[r] \notin Own
  /\ \/ /\ Ready(at[r])
        /\ Applies(at[r]) /\ Records(at[r], hash[r])
        /\ \/ Advances(r) /\ UNCHANGED stops
           \/ Leaves(r) /\ Stops
     \/ /\ at[r] \in Recorded \/ ~Ready(at[r])
        /\ Leaves(r)
        /\ UNCHANGED <<applied, recorded, stops>>
  /\ UNCHANGED <<edited, historyVars>>

(* Mutant of ApplyOwn: no file can be applied a second time.               *)
ApplyOwnUnrepeatable(r) ==
  /\ step[r] = "apply" /\ at[r] \in Own
  /\ \/ /\ applied[at[r]] = <<>>
        /\ Applies(at[r])
        /\ GoesTo(r, "record")
     \/ /\ applied[at[r]] # <<>>
        /\ Leaves(r)
        /\ UNCHANGED applied
  /\ UNCHANGED <<edited, recorded, historyVars, stops>>

(* A file with its own COMMIT is committed there; one that creates tables  *)
(* fails on those of an earlier application.                               *)
Applicable(m) == Ready(m) /\ (m \in Once => applied[m] = <<>>)
ApplyOwn(r) ==
  /\ step[r] = "apply" /\ at[r] \in Own
  /\ \/ Applicable(at[r]) /\ Applies(at[r]) /\ GoesTo(r, "record")
     \/ ~Applicable(at[r]) /\ Leaves(r) /\ UNCHANGED applied
  /\ UNCHANGED <<edited, recorded, historyVars, stops>>

(* The INSERT behind the file's COMMIT. *)
RecordOwn(r) ==
  /\ step[r] = "record"
  /\ \/ /\ Records(at[r], hash[r])
        /\ \/ Advances(r) /\ UNCHANGED stops
           \/ Leaves(r) /\ Stops
     \/ /\ at[r] \in Recorded
        /\ Leaves(r)
        /\ UNCHANGED <<recorded, stops>>
  /\ UNCHANGED <<edited, applied, historyVars>>

(* Mutant of Interrupted: without set -e the runner goes on.               *)
InterruptedGoesOn(r) ==
  /\ step[r] \notin Resting /\ Stops
  /\ Advances(r)
  /\ UNCHANGED <<schemaVars, historyVars>>

(* The runner is killed, or psql fails before it has changed anything.     *)
Interrupted(r) ==
  /\ step[r] \notin Resting /\ Stops
  /\ Leaves(r)
  /\ UNCHANGED <<schemaVars, historyVars>>

(* cat, or the subshell around it, ends before all is written: psql gets   *)
(* BEGIN and a part of the file, or a file up to its own COMMIT, then the  *)
(* end of its input, and exits 0.  What is open is rolled back, nothing is *)
(* recorded, and the loop goes on to the next file and to MIGRATIONS=PASS. *)
CutShort(r) ==
  /\ step[r] \in {"apply", "record"} /\ Stops
  /\ Advances(r)
  /\ skipped' = skipped \cup {at[r]}
  /\ missed' = [missed EXCEPT ![r] = @ \cup {at[r]}]
  /\ UNCHANGED schemaVars

RunnerStep(r) ==
  \/ StartRun(r) \/ HashFile(r) \/ AskRecord(r)
  \/ ApplyPlain(r) \/ ApplyOwn(r) \/ RecordOwn(r)

RunnerFails(r) == Interrupted(r) \/ CutShort(r)

MigrationNext == EditFile \/ \E r \in Runner : RunnerStep(r) \/ RunnerFails(r)

MigrationSpec == MigrationInit /\ [][MigrationNext]_migrationVars

----------------------------------------------------------------------------
(* What is recorded has been applied, and what is applied without a record *)
(* carries a COMMIT of its own, whatever runners overlap or stop.  Such a  *)
(* file is the last one, and recorded versions are a prefix of the files,  *)
(* but for files whose input to psql was cut short.  A run reports         *)
(* MIGRATIONS=PASS only when every file is recorded that it has not itself *)
(* cut short: another runner's failure never shows as this runner's PASS.  *)
RecordedInOrder ==
  /\ \A m \in Recorded : applied[m] # <<>>
  /\ \A m \in Migration \ Recorded : applied[m] # <<>> => m \in Own
  /\ \A m \in Migration :
       applied[m] # <<>> => 1 .. (m - 1) \subseteq Recorded \cup skipped
  /\ \A r \in Runner : step[r] = "passed" => Recorded \cup missed[r] = Migration

(* docs/runtime/postgresql.md:59, "applies each migration once inside a    *)
(* transaction", where it is true: a file without its own COMMIT is        *)
(* applied exactly when it is recorded, and once, also when a file is      *)
(* edited, replies are lost or runners race; no file that creates tables   *)
(* is applied twice.                                                       *)
AppliedOnce ==
  /\ \A m \in Migration \ Own : Len(applied[m]) = IF m \in Recorded THEN 1 ELSE 0
  /\ \A m \in Once : Len(applied[m]) <= 1

(* The inductive invariant: a runner works on a file behind which all are  *)
(* recorded or cut short by itself, and records only what it has applied.  *)
BehindIsRecorded ==
  \A r \in Runner :
    /\ step[r] \notin Resting => 1 .. (at[r] - 1) \subseteq Recorded \cup missed[r]
    /\ missed[r] \subseteq skipped
RecordsApplied ==
  \A r \in Runner : step[r] = "record" => at[r] \in Own /\ applied[at[r]] # <<>>
MigrationInv ==
  MigrationTypeOK /\ RecordedInOrder /\ AppliedOnce /\ BehindIsRecorded /\ RecordsApplied

Complete == Recorded = Migration

(* A file is recorded with a checksum that is not its own, since it was    *)
(* edited or since sha256sum failed when it was applied; or one that       *)
(* cannot be applied again was applied and not recorded.                   *)
Blocked ==
  \/ \E m \in Recorded : recorded[m] # Content(m)
  \/ \E m \in Once \ Recorded : applied[m] # <<>>

(* A runner that is started again and again brings the schema up to date,  *)
(* also after inputs that were cut short, unless one of two things is in   *)
(* its way for ever: a recorded checksum that is not the file's, or a stop *)
(* between the own COMMIT of a file that creates tables and its record.    *)
RunnerFinishesOrIsBlocked == <>Complete \/ <>[]Blocked

=============================================================================
