---------------------- MODULE DatabaseOperationsProofs ----------------------
(***************************************************************************)
(* The operator's scripts for any number of runners and captures, any list *)
(* of migration files and any bounds.  Each script has its own inductive   *)
(* invariant, and no other script touches its variables; the conjunction   *)
(* of the three is inductive for DatabaseOperations.                       *)
(***************************************************************************)
EXTENDS DatabaseOperations, FiniteSetTheorems, TLAPS

VaultThms == INSTANCE BackupProofs WITH rows <- TableCounts

----------------------------------------------------------------------------
(* Migrations.  The conjuncts of MigrationInv about the schema, and those  *)
(* about one runner each.                                                  *)
SchemaInOrder ==
  /\ skipped \subseteq Migration
  /\ \A m \in Recorded : applied[m] # <<>>
  /\ \A m \in Migration \ Recorded : applied[m] # <<>> => m \in Own
  /\ \A m \in Migration :
       applied[m] # <<>> => 1 .. (m - 1) \subseteq Recorded \cup skipped
PassedMeansRecorded ==
  \A r \in Runner : step[r] = "passed" => Recorded \cup missed[r] = Migration
RunnersInv == RunnersTyped /\ BehindIsRecorded /\ RecordsApplied /\ PassedMeansRecorded

LEMMA MigrationInvParts ==
  /\ MigrationInv <=> /\ SchemaTyped /\ SchemaInOrder /\ AppliedOnce
                      /\ RunnersInv /\ stops \in 0 .. MaxStops
  /\ MigrationInv' <=> /\ SchemaTyped' /\ SchemaInOrder' /\ AppliedOnce'
                       /\ RunnersInv' /\ (stops \in 0 .. MaxStops)'
BY DEF MigrationInv, MigrationTypeOK, SchemaInOrder, RunnersInv, PassedMeansRecorded,
       RecordedInOrder

(* What every step of the runners leaves of the schema and the history,    *)
(* as far as the invariant of the runners reads it.                        *)
Grows ==
  /\ Recorded \subseteq Recorded' /\ Recorded' \subseteq Migration
  /\ \A m \in Migration : applied[m] # <<>> => applied'[m] # <<>>
  /\ skipped \subseteq skipped'

(* A runner moves while the schema stays or grows; what it misses may      *)
(* change with it.                                                         *)
LEMMA RunnerMoves ==
  ASSUME RunnersInv, Grows, NEW r \in Runner, NEW s, NEW a \in 0 .. Files,
         NEW h \in Checksum \cup {NoHash}, NEW M \in SUBSET Migration,
         s \in Resting \cup {"hash", "ask", "apply", "record"},
         step' = [step EXCEPT ![r] = s], at' = [at EXCEPT ![r] = a],
         hash' = [hash EXCEPT ![r] = h], missed' = [missed EXCEPT ![r] = M],
         M \subseteq skipped',
         s \notin Resting => a \in Migration /\ 1 .. (a - 1) \subseteq Recorded' \cup M,
         s \in {"ask", "apply", "record"} => h \in Checksum,
         s = "record" => a \in Own /\ applied'[a] # <<>>,
         s = "passed" => Recorded' \cup M = Migration
  PROVE  RunnersInv'
<1>1. /\ step' \in [Runner -> Resting \cup {"hash", "ask", "apply", "record"}]
      /\ at' \in [Runner -> 0 .. Files] /\ hash' \in [Runner -> Checksum \cup {NoHash}]
      /\ missed' \in [Runner -> SUBSET Migration]
      /\ step'[r] = s /\ at'[r] = a /\ hash'[r] = h /\ missed'[r] = M
      /\ \A q \in Runner \ {r} : /\ step'[q] = step[q] /\ at'[q] = at[q]
                                /\ hash'[q] = hash[q] /\ missed'[q] = missed[q]
  BY DEF RunnersInv, RunnersTyped
<1>2. RunnersTyped'
  BY <1>1 DEF RunnersInv, RunnersTyped
<1>3. BehindIsRecorded'
  BY <1>1 DEF RunnersInv, BehindIsRecorded, Grows
<1>4. RecordsApplied'
  BY <1>1 DEF RunnersInv, RunnersTyped, RecordsApplied, Resting, Grows
<1>5. PassedMeansRecorded'
  <2>1. ASSUME NEW q \in Runner \ {r}, step[q] = "passed"
        PROVE  Recorded' \cup missed[q] = Migration
    BY <2>1 DEF RunnersInv, RunnersTyped, PassedMeansRecorded, Grows
  <2> QED
    BY <1>1, <2>1 DEF PassedMeansRecorded
<1> QED
  BY <1>2, <1>3, <1>4, <1>5 DEF RunnersInv

(* The ways a runner moves without missing a file. *)
LEMMA EndsMoves ==
  ASSUME RunnersInv, Grows, NEW r \in Runner, NEW how \in Resting, Ends(r, how),
         NEW M \in SUBSET Migration, missed' = [missed EXCEPT ![r] = M],
         M \subseteq skipped',
         how = "passed" => Recorded' \cup M = Migration
  PROVE  RunnersInv'
<1>1. 0 \in 0 .. Files
  BY FilesAssumption
<1>2. how \notin {"ask", "apply", "record"}
  BY DEF Resting
<1> QED
  BY <1>1, <1>2, RunnerMoves DEF Ends

LEMMA LeavesMoves ==
  ASSUME RunnersInv, Grows, NEW r \in Runner, Leaves(r), missed' = missed
  PROVE  RunnersInv'
<1>1. missed' = [missed EXCEPT ![r] = missed[r]] /\ missed[r] \in SUBSET Migration
      /\ missed[r] \subseteq skipped'
  BY DEF RunnersInv, RunnersTyped, BehindIsRecorded, Grows
<1> QED
  BY <1>1, EndsMoves DEF Leaves, Resting

LEMMA AdvancesPast ==
  ASSUME RunnersInv, Grows, NEW r \in Runner, Advances(r), step[r] \notin Resting,
         NEW M \in SUBSET Migration, missed' = [missed EXCEPT ![r] = M],
         M \subseteq skipped', missed[r] \subseteq M, at[r] \in Recorded' \cup M
  PROVE  RunnersInv'
<1>1. at[r] \in Migration /\ 1 .. (at[r] - 1) \subseteq Recorded' \cup M
  BY DEF RunnersInv, RunnersTyped, BehindIsRecorded, Grows
<1>2. 1 .. at[r] \subseteq Recorded' \cup M /\ Files \in Nat
  BY <1>1, FilesAssumption DEF Migration
<1>3. CASE at[r] = Files
  <2>1. Recorded' \cup M = Migration
    BY <1>2, <1>3 DEF Migration, Grows
  <2> QED
    BY <1>3, <2>1, EndsMoves DEF Advances, Resting
<1>4. CASE at[r] # Files
  <2>1. at[r] + 1 \in Migration /\ (at[r] + 1) - 1 = at[r] /\ at[r] + 1 \in 0 .. Files
    BY <1>1, <1>2, <1>4 DEF Migration
  <2>2. /\ step' = [step EXCEPT ![r] = "hash"] /\ at' = [at EXCEPT ![r] = at[r] + 1]
        /\ hash' = [hash EXCEPT ![r] = NoHash]
    BY <1>4 DEF Advances
  <2> QED
    BY <1>2, <2>1, <2>2, RunnerMoves DEF Resting
<1> QED
  BY <1>3, <1>4

LEMMA AdvancesMoves ==
  ASSUME RunnersInv, Grows, NEW r \in Runner, Advances(r), step[r] \notin Resting,
         missed' = missed, at[r] \in Recorded'
  PROVE  RunnersInv'
<1>1. missed' = [missed EXCEPT ![r] = missed[r]] /\ missed[r] \in SUBSET Migration
      /\ missed[r] \subseteq skipped'
  BY DEF RunnersInv, RunnersTyped, BehindIsRecorded, Grows
<1> QED
  BY <1>1, AdvancesPast

LEMMA GoesToMoves ==
  ASSUME RunnersInv, Grows, NEW r \in Runner, NEW s \in {"apply", "record"}, GoesTo(r, s),
         step[r] \in {"ask", "apply"}, missed' = missed,
         s = "record" => at[r] \in Own /\ applied'[at[r]] # <<>>
  PROVE  RunnersInv'
<1>1. /\ at[r] \in Migration /\ hash[r] \in Checksum /\ at[r] \in 0 .. Files
      /\ 1 .. (at[r] - 1) \subseteq Recorded' \cup missed[r]
      /\ missed[r] \in SUBSET Migration /\ missed[r] \subseteq skipped'
  BY DEF RunnersInv, RunnersTyped, BehindIsRecorded, Resting, Grows
<1>2. at' = [at EXCEPT ![r] = at[r]] /\ hash' = [hash EXCEPT ![r] = hash[r]]
      /\ step' = [step EXCEPT ![r] = s] /\ missed' = [missed EXCEPT ![r] = missed[r]]
  BY DEF GoesTo, RunnersInv, RunnersTyped
<1> QED
  BY <1>1, <1>2, RunnerMoves DEF Resting

(* The schema grows by the file a runner works on. *)
LEMMA RecordsGrows ==
  ASSUME SchemaTyped, NEW m \in Migration, NEW h \in Checksum, Records(m, h)
  PROVE  /\ m \notin Recorded /\ Recorded' = Recorded \cup {m}
         /\ Recorded' \subseteq Migration /\ recorded' \in [Recorded' -> Checksum]
BY DEF Records, SchemaTyped, Recorded

LEMMA AppliesGrows ==
  ASSUME SchemaTyped, NEW m \in Migration, Applies(m)
  PROVE  /\ applied' \in [Migration -> Seq(Bytes)] /\ applied'[m] # <<>>
         /\ Len(applied'[m]) = Len(applied[m]) + 1
         /\ \A n \in Migration \ {m} : applied'[n] = applied[n]
         /\ \A n \in Migration : applied[n] # <<>> => applied'[n] # <<>>
<1>1. Content(m) \in Bytes /\ applied[m] \in Seq(Bytes)
  BY DEF Content, Bytes, SchemaTyped
<1>2. /\ Append(applied[m], Content(m)) \in Seq(Bytes)
      /\ Append(applied[m], Content(m)) # <<>>
      /\ Len(Append(applied[m], Content(m))) = Len(applied[m]) + 1
  BY <1>1
<1>3. applied'[m] = Append(applied[m], Content(m))
      /\ \A n \in Migration \ {m} : applied'[n] = applied[n]
  BY DEF Applies, SchemaTyped
<1>4. applied' \in [Migration -> Seq(Bytes)]
  BY <1>2 DEF Applies, SchemaTyped
<1> QED
  BY <1>2, <1>3, <1>4

(* What the three statements that change the schema leave behind. *)
LEMMA PlainKeepsSchema ==
  ASSUME SchemaTyped, SchemaInOrder, AppliedOnce, NEW m \in Migration \ Own,
         NEW h \in Checksum, 1 .. (m - 1) \subseteq Recorded \cup skipped,
         Applies(m), Records(m, h), edited' = edited, skipped' = skipped
  PROVE  SchemaTyped' /\ SchemaInOrder' /\ AppliedOnce'
<1>1. /\ m \notin Recorded /\ Recorded' = Recorded \cup {m}
      /\ Recorded' \subseteq Migration /\ recorded' \in [Recorded' -> Checksum]
  BY RecordsGrows
<1>2. /\ applied' \in [Migration -> Seq(Bytes)] /\ applied'[m] # <<>>
      /\ Len(applied'[m]) = Len(applied[m]) + 1
      /\ \A n \in Migration \ {m} : applied'[n] = applied[n]
      /\ \A n \in Migration : applied[n] # <<>> => applied'[n] # <<>>
  BY AppliesGrows
<1>3. SchemaTyped'
  BY <1>1, <1>2 DEF SchemaTyped
<1>4. SchemaInOrder'
  BY <1>1, <1>2 DEF SchemaInOrder
<1>5. AppliedOnce'
  <2>1. Len(applied[m]) = 0
    BY <1>1 DEF AppliedOnce
  <2>2. \A n \in Migration \ Own : Len(applied'[n]) = IF n \in Recorded' THEN 1 ELSE 0
    BY <1>1, <1>2, <2>1 DEF AppliedOnce
  <2>3. \A n \in Once : Len(applied'[n]) <= 1
    BY <1>2, FilesAssumption DEF AppliedOnce
  <2> QED
    BY <2>2, <2>3 DEF AppliedOnce
<1> QED
  BY <1>3, <1>4, <1>5

LEMMA OwnKeepsSchema ==
  ASSUME SchemaTyped, SchemaInOrder, AppliedOnce, NEW m \in Own,
         1 .. (m - 1) \subseteq Recorded \cup skipped,
         Applies(m), UNCHANGED <<edited, recorded, skipped>>,
         m \in Once => applied[m] = <<>>
  PROVE  SchemaTyped' /\ SchemaInOrder' /\ AppliedOnce'
<1>1. m \in Migration /\ Recorded' = Recorded
  BY FilesAssumption DEF Recorded
<1>2. /\ applied' \in [Migration -> Seq(Bytes)] /\ applied'[m] # <<>>
      /\ Len(applied'[m]) = Len(applied[m]) + 1
      /\ \A n \in Migration \ {m} : applied'[n] = applied[n]
      /\ \A n \in Migration : applied[n] # <<>> => applied'[n] # <<>>
  BY <1>1, AppliesGrows
<1>3. SchemaTyped'
  BY <1>1, <1>2 DEF SchemaTyped
<1>4. SchemaInOrder'
  BY <1>1, <1>2 DEF SchemaInOrder, SchemaTyped
<1>5. AppliedOnce'
  <2>1. m \in Once => Len(applied'[m]) = 1
    BY <1>2
  <2>2. \A n \in Once : Len(applied'[n]) <= 1
    BY <1>2, <2>1, FilesAssumption DEF AppliedOnce
  <2> QED
    BY <1>1, <1>2, <2>2 DEF AppliedOnce
<1> QED
  BY <1>3, <1>4, <1>5

LEMMA RecordKeepsSchema ==
  ASSUME SchemaTyped, SchemaInOrder, AppliedOnce, NEW m \in Own, NEW h \in Checksum,
         applied[m] # <<>>, Records(m, h), UNCHANGED <<edited, applied, skipped>>
  PROVE  SchemaTyped' /\ SchemaInOrder' /\ AppliedOnce'
<1>1. m \in Migration
  BY FilesAssumption
<1>2. /\ Recorded' = Recorded \cup {m}
      /\ Recorded' \subseteq Migration /\ recorded' \in [Recorded' -> Checksum]
  BY <1>1, RecordsGrows
<1>3. SchemaTyped'
  BY <1>2 DEF SchemaTyped
<1>4. SchemaInOrder'
  BY <1>2 DEF SchemaInOrder
<1>5. AppliedOnce'
  BY <1>2 DEF AppliedOnce
<1> QED
  BY <1>3, <1>4, <1>5

(* When the schema stays as it is. *)
LEMMA SchemaStays ==
  ASSUME SchemaTyped, SchemaInOrder, AppliedOnce, UNCHANGED schemaVars,
         skipped \subseteq skipped', skipped' \subseteq Migration
  PROVE  /\ SchemaTyped' /\ SchemaInOrder' /\ AppliedOnce' /\ Grows
         /\ Recorded' = Recorded /\ applied' = applied
BY DEF schemaVars, SchemaTyped, SchemaInOrder, AppliedOnce, Recorded, Grows

(* The steps of a runner, each with the parts of the invariant it touches. *)
LEMMA StopsTyped ==
  ASSUME stops \in 0 .. MaxStops, UNCHANGED stops \/ Stops
  PROVE  stops' \in 0 .. MaxStops
BY RunnerBounds DEF Stops

LEMMA StartRunInv ==
  ASSUME MigrationInv, NEW r \in Runner, StartRun(r) PROVE MigrationInv'
<1>1. SchemaTyped' /\ SchemaInOrder' /\ AppliedOnce' /\ Grows /\ stops' \in 0 .. MaxStops
  BY MigrationInvParts, SchemaStays, StopsTyped DEF StartRun, SchemaInOrder
<1>2. RunnersInv'
  <2>1. 1 \in 0 .. Files /\ 1 \in Migration /\ 1 .. (1 - 1) = {} /\ Files \in Nat
    BY FilesAssumption DEF Migration
  <2>2. /\ step' = [step EXCEPT ![r] = "hash"] /\ at' = [at EXCEPT ![r] = 1]
        /\ hash' = [hash EXCEPT ![r] = hash[r]] /\ hash[r] \in Checksum \cup {NoHash}
        /\ missed' = [missed EXCEPT ![r] = {}]
    BY MigrationInvParts DEF StartRun, RunnersInv, RunnersTyped
  <2> QED
    BY <1>1, <2>1, <2>2, MigrationInvParts, RunnerMoves DEF Resting
<1> QED
  BY <1>1, <1>2, MigrationInvParts

LEMMA HashFileInv ==
  ASSUME MigrationInv, NEW r \in Runner, HashFile(r) PROVE MigrationInv'
<1>1. SchemaTyped' /\ SchemaInOrder' /\ AppliedOnce' /\ Grows /\ stops' \in 0 .. MaxStops
  BY MigrationInvParts, SchemaStays, StopsTyped DEF HashFile, historyVars, SchemaInOrder
<1>2. RunnersInv'
  <2>1. PICK h \in {Content(at[r]), Blank} : hash' = [hash EXCEPT ![r] = h]
    BY DEF HashFile
  <2>2. h \in Checksum
    BY DEF Content, Bytes, Checksum
  <2>3. /\ step' = [step EXCEPT ![r] = "ask"] /\ at' = [at EXCEPT ![r] = at[r]]
        /\ missed' = [missed EXCEPT ![r] = missed[r]]
        /\ missed[r] \in SUBSET Migration /\ missed[r] \subseteq skipped'
        /\ at[r] \in Migration /\ at[r] \in 0 .. Files
        /\ 1 .. (at[r] - 1) \subseteq Recorded' \cup missed[r]
    BY <1>1, MigrationInvParts
       DEF HashFile, RunnersInv, RunnersTyped, BehindIsRecorded, Resting, historyVars, Grows
  <2> QED
    BY <1>1, <2>1, <2>2, <2>3, MigrationInvParts, RunnerMoves DEF Resting
<1> QED
  BY <1>1, <1>2, MigrationInvParts

LEMMA AskRecordInv ==
  ASSUME MigrationInv, NEW r \in Runner, AskRecord(r) PROVE MigrationInv'
<1>1. SchemaTyped' /\ SchemaInOrder' /\ AppliedOnce' /\ Grows /\ stops' \in 0 .. MaxStops
      /\ Recorded' = Recorded /\ missed' = missed
  BY MigrationInvParts, SchemaStays, StopsTyped DEF AskRecord, historyVars, SchemaInOrder
<1>2. RunnersInv'
  <2>1. CASE GoesTo(r, "apply")
    BY <1>1, <2>1, MigrationInvParts, GoesToMoves DEF AskRecord
  <2>2. CASE Matches(r) /\ Advances(r)
    BY <1>1, <2>2, MigrationInvParts, AdvancesMoves DEF AskRecord, Matches, Resting
  <2>3. CASE Leaves(r)
    BY <1>1, <2>3, MigrationInvParts, LeavesMoves
  <2> QED
    BY <2>1, <2>2, <2>3 DEF AskRecord
<1> QED
  BY <1>1, <1>2, MigrationInvParts

LEMMA ApplyPlainInv ==
  ASSUME MigrationInv, NEW r \in Runner, ApplyPlain(r) PROVE MigrationInv'
<1>1. /\ at[r] \in Migration \ Own /\ hash[r] \in Checksum /\ step[r] \notin Resting
      /\ 1 .. (at[r] - 1) \subseteq Recorded \cup skipped
      /\ edited' = edited /\ skipped' = skipped /\ missed' = missed
  BY MigrationInvParts
     DEF ApplyPlain, RunnersInv, RunnersTyped, BehindIsRecorded, Resting, historyVars
<1>2. CASE /\ Applies(at[r]) /\ Records(at[r], hash[r])
           /\ \/ Advances(r) /\ UNCHANGED stops
              \/ Leaves(r) /\ Stops
  <2>1. SchemaTyped' /\ SchemaInOrder' /\ AppliedOnce'
    BY <1>1, <1>2, MigrationInvParts, PlainKeepsSchema
  <2>2. Grows /\ at[r] \in Recorded'
    BY <1>1, <1>2, MigrationInvParts, RecordsGrows, AppliesGrows DEF Grows
  <2>3. RunnersInv'
    BY <1>1, <1>2, <2>2, MigrationInvParts, AdvancesMoves, LeavesMoves
  <2>4. stops' \in 0 .. MaxStops
    BY <1>2, MigrationInvParts, StopsTyped
  <2> QED
    BY <2>1, <2>3, <2>4, MigrationInvParts
<1>3. CASE Leaves(r) /\ UNCHANGED <<applied, recorded, stops>>
  <2>1. SchemaTyped' /\ SchemaInOrder' /\ AppliedOnce' /\ Grows
    BY <1>1, <1>3, MigrationInvParts, SchemaStays DEF schemaVars, SchemaInOrder
  <2>2. RunnersInv'
    BY <1>1, <1>3, <2>1, MigrationInvParts, LeavesMoves
  <2> QED
    BY <1>3, <2>1, <2>2, MigrationInvParts
<1> QED
  BY <1>2, <1>3 DEF ApplyPlain

LEMMA ApplyOwnInv ==
  ASSUME MigrationInv, NEW r \in Runner, ApplyOwn(r) PROVE MigrationInv'
<1>1. /\ at[r] \in Migration /\ at[r] \in Own /\ step[r] = "apply"
      /\ 1 .. (at[r] - 1) \subseteq Recorded \cup skipped
      /\ UNCHANGED <<edited, recorded, skipped>> /\ missed' = missed /\ stops' = stops
  BY MigrationInvParts
     DEF ApplyOwn, RunnersInv, RunnersTyped, BehindIsRecorded, Resting, historyVars
<1>2. CASE Applicable(at[r]) /\ Applies(at[r]) /\ GoesTo(r, "record")
  <2>1. SchemaTyped' /\ SchemaInOrder' /\ AppliedOnce'
    BY <1>1, <1>2, MigrationInvParts, OwnKeepsSchema DEF Applicable
  <2>2. Grows /\ applied'[at[r]] # <<>>
    BY <1>1, <1>2, MigrationInvParts, AppliesGrows DEF Recorded, SchemaTyped, Grows
  <2>3. RunnersInv'
    BY <1>1, <1>2, <2>2, MigrationInvParts, GoesToMoves
  <2> QED
    BY <1>1, <2>1, <2>3, MigrationInvParts
<1>3. CASE Leaves(r) /\ UNCHANGED applied
  <2>1. SchemaTyped' /\ SchemaInOrder' /\ AppliedOnce' /\ Grows
    BY <1>1, <1>3, MigrationInvParts, SchemaStays DEF schemaVars, SchemaInOrder
  <2>2. RunnersInv'
    BY <1>1, <1>3, <2>1, MigrationInvParts, LeavesMoves
  <2> QED
    BY <1>1, <2>1, <2>2, MigrationInvParts
<1> QED
  BY <1>2, <1>3 DEF ApplyOwn

LEMMA RecordOwnInv ==
  ASSUME MigrationInv, NEW r \in Runner, RecordOwn(r) PROVE MigrationInv'
<1>1. /\ at[r] \in Own /\ at[r] \in Migration /\ hash[r] \in Checksum
      /\ step[r] \notin Resting /\ applied[at[r]] # <<>>
      /\ UNCHANGED <<edited, applied, skipped>> /\ missed' = missed
  BY MigrationInvParts
     DEF RecordOwn, RunnersInv, RunnersTyped, RecordsApplied, Resting, historyVars
<1>2. CASE /\ Records(at[r], hash[r])
           /\ \/ Advances(r) /\ UNCHANGED stops
              \/ Leaves(r) /\ Stops
  <2>1. SchemaTyped' /\ SchemaInOrder' /\ AppliedOnce'
    BY <1>1, <1>2, MigrationInvParts, RecordKeepsSchema
  <2>2. Grows /\ at[r] \in Recorded'
    BY <1>1, <1>2, MigrationInvParts, RecordsGrows DEF Grows
  <2>3. RunnersInv'
    BY <1>1, <1>2, <2>2, MigrationInvParts, AdvancesMoves, LeavesMoves
  <2>4. stops' \in 0 .. MaxStops
    BY <1>2, MigrationInvParts, StopsTyped
  <2> QED
    BY <2>1, <2>3, <2>4, MigrationInvParts
<1>3. CASE Leaves(r) /\ UNCHANGED <<recorded, stops>>
  <2>1. SchemaTyped' /\ SchemaInOrder' /\ AppliedOnce' /\ Grows
    BY <1>1, <1>3, MigrationInvParts, SchemaStays DEF schemaVars, SchemaInOrder
  <2>2. RunnersInv'
    BY <1>1, <1>3, <2>1, MigrationInvParts, LeavesMoves
  <2> QED
    BY <1>3, <2>1, <2>2, MigrationInvParts
<1> QED
  BY <1>2, <1>3 DEF RecordOwn

LEMMA InterruptedInv ==
  ASSUME MigrationInv, NEW r \in Runner, Interrupted(r) PROVE MigrationInv'
<1>1. SchemaTyped' /\ SchemaInOrder' /\ AppliedOnce' /\ Grows /\ stops' \in 0 .. MaxStops
      /\ missed' = missed
  BY MigrationInvParts, SchemaStays, StopsTyped DEF Interrupted, historyVars, SchemaInOrder
<1>2. RunnersInv'
  BY <1>1, MigrationInvParts, LeavesMoves DEF Interrupted
<1> QED
  BY <1>1, <1>2, MigrationInvParts

LEMMA CutShortInv ==
  ASSUME MigrationInv, NEW r \in Runner, CutShort(r) PROVE MigrationInv'
<1> DEFINE M == missed[r] \cup {at[r]}
<1>1. /\ step[r] \notin Resting /\ at[r] \in Migration /\ M \in SUBSET Migration
      /\ missed[r] \subseteq skipped /\ skipped' = skipped \cup {at[r]}
      /\ missed' = [missed EXCEPT ![r] = M] /\ Advances(r)
  BY MigrationInvParts DEF CutShort, RunnersInv, RunnersTyped, BehindIsRecorded, Resting
<1>2. SchemaTyped' /\ SchemaInOrder' /\ AppliedOnce' /\ Grows /\ stops' \in 0 .. MaxStops
  BY <1>1, MigrationInvParts, SchemaStays, StopsTyped DEF CutShort, SchemaInOrder
<1>3. RunnersInv'
  BY <1>1, <1>2, MigrationInvParts, AdvancesPast
<1> QED
  BY <1>2, <1>3, MigrationInvParts

LEMMA EditFileInv == ASSUME MigrationInv, EditFile PROVE MigrationInv'
BY DEF EditFile, runnerVars, historyVars, MigrationInv, MigrationTypeOK, SchemaTyped,
       RunnersTyped, RecordedInOrder, AppliedOnce, BehindIsRecorded, RecordsApplied, Recorded

LEMMA MigrationInvStep ==
  ASSUME MigrationInv, [MigrationNext]_migrationVars PROVE MigrationInv'
<1>1. CASE UNCHANGED migrationVars
  BY <1>1 DEF migrationVars, schemaVars, runnerVars, historyVars, MigrationInv,
       MigrationTypeOK, SchemaTyped, RunnersTyped, RecordedInOrder, AppliedOnce,
       BehindIsRecorded, RecordsApplied, Recorded
<1>2. CASE EditFile
  BY <1>2, EditFileInv
<1>3. ASSUME NEW r \in Runner, RunnerStep(r) \/ RunnerFails(r) PROVE MigrationInv'
  BY <1>3, StartRunInv, HashFileInv, AskRecordInv, ApplyPlainInv, ApplyOwnInv, RecordOwnInv,
     InterruptedInv, CutShortInv DEF RunnerStep, RunnerFails
<1> QED
  BY <1>1, <1>2, <1>3 DEF MigrationNext

LEMMA MigrationInvInit == ASSUME MigrationInit PROVE MigrationInv
<1> USE FilesAssumption DEF MigrationInit
<1>1. PICK n \in Installed :
        /\ applied = [m \in Migration |-> IF m <= n THEN <<"original">> ELSE <<>>]
        /\ recorded = [m \in 1 .. n |-> "original"]
  OBVIOUS
<1>2. n \in 0 .. Files /\ Files \in Nat /\ Recorded = 1 .. n /\ Recorded \subseteq Migration
  BY <1>1 DEF Recorded, Migration
<1>3. <<"original">> \in Seq(Bytes) /\ <<>> \in Seq(Bytes) /\ Len(<<"original">>) = 1
      /\ Len(<<>>) = 0 /\ <<"original">> # <<>>
  BY DEF Bytes
<1>4. \A m \in Migration : applied[m] = IF m \in Recorded THEN <<"original">> ELSE <<>>
  BY <1>1, <1>2 DEF Migration
<1>5. SchemaTyped
  BY <1>1, <1>2, <1>3 DEF SchemaTyped, Bytes, Checksum
<1>6. SchemaInOrder
  <2>1. \A m \in Recorded : applied[m] # <<>>
    BY <1>2, <1>3, <1>4
  <2>2. \A m \in Migration \ Recorded : applied[m] = <<>>
    BY <1>4
  <2>3. \A m \in Recorded : 1 .. (m - 1) \subseteq Recorded
    BY <1>2
  <2> QED
    BY <2>1, <2>2, <2>3 DEF SchemaInOrder
<1>7. AppliedOnce
  <2>1. \A m \in Migration : Len(applied[m]) = IF m \in Recorded THEN 1 ELSE 0
    BY <1>3, <1>4
  <2>2. \A m \in Once : m \in Migration
    OBVIOUS
  <2> QED
    BY <2>1, <2>2 DEF AppliedOnce
<1>8. RunnersInv
  BY <1>2 DEF RunnersInv, RunnersTyped, BehindIsRecorded, RecordsApplied, PassedMeansRecorded,
              Resting
<1> QED
  BY <1>5, <1>6, <1>7, <1>8, RunnerBounds, MigrationInvParts

----------------------------------------------------------------------------
(***************************************************************************)
(* What stops the runners for good.  RunnerFinishesOrIsBlocked says that   *)
(* they finish or are blocked in the end; these definitions say when no    *)
(* further run can change that.  StoppedByChecksum: file m is recorded     *)
(* with a checksum that it does not have, and no runner has got past it or *)
(* is about to.  HalfApplied: m creates tables, is applied and not         *)
(* recorded, and no runner has got past it or is about to record it.       *)
(*                                                                         *)
(* One thing only lets a runner past m: an input cut short at m itself.    *)
(***************************************************************************)
StoppedByChecksum(m) ==
  /\ m \in Recorded /\ recorded[m] # Content(m)
  /\ \A r \in Runner : step[r] \notin Resting =>
       at[r] <= m /\ (at[r] = m /\ step[r] = "ask" => ~Matches(r))

HalfApplied(m) ==
  /\ m \in Once \ Recorded /\ applied[m] # <<>>
  /\ \A r \in Runner : step[r] \notin Resting =>
       at[r] <= m /\ (at[r] = m => step[r] # "record")

CutShortAt(m) == \E r \in Runner : at[r] = m /\ CutShort(r)

NothingPast(m) ==
  /\ \A n \in Recorded' \ Recorded : n < m
  /\ \A r \in Runner : step'[r] = "passed" => step[r] = "passed"

RunnersBlockedForGood ==
  [][\A m \in Migration :
       StoppedByChecksum(m) \/ HalfApplied(m) =>
         \/ CutShortAt(m)
         \/ /\ StoppedByChecksum(m) => StoppedByChecksum(m)'
            /\ HalfApplied(m) => HalfApplied(m)'
            /\ NothingPast(m)]_vars

(* A checksum that is not the file's is that of the bytes before the edit, *)
(* or none.                                                                *)
ChecksumsAreEarlier ==
  /\ \A m \in Recorded \ edited : recorded[m] # "edited"
  /\ \A r \in Runner :
       step[r] \in {"ask", "apply", "record"} /\ at[r] \notin edited => hash[r] # "edited"

(* The moves of a runner, and what each leaves of the schema.              *)
MovesOn(r) ==
  \/ at[r] = Files /\ step'[r] = "passed"
  \/ at[r] # Files /\ step'[r] = "hash" /\ at'[r] = at[r] + 1

LEMMA RunnerCases ==
  ASSUME MigrationInv, NEW r \in Runner, RunnerStep(r) \/ RunnerFails(r)
  PROVE  /\ edited' = edited
         /\ \A q \in Runner \ {r} : step'[q] = step[q] /\ at'[q] = at[q] /\ hash'[q] = hash[q]
         /\ \/ /\ step'[r] \in {"hash", "idle"} /\ at'[r] \in {0, 1}
               /\ UNCHANGED <<applied, recorded>>
            \/ /\ step[r] = "hash" /\ step'[r] = "ask"
               /\ at'[r] = at[r] /\ hash'[r] \in {Content(at[r]), Blank}
               /\ UNCHANGED <<applied, recorded>>
            \/ /\ step[r] = "ask" /\ step'[r] = "apply"
               /\ at'[r] = at[r] /\ hash'[r] = hash[r]
               /\ UNCHANGED <<applied, recorded>>
            \/ /\ step[r] \notin Resting
               /\ CutShort(r) \/ (step[r] = "ask" /\ Matches(r))
               /\ MovesOn(r)
               /\ UNCHANGED <<applied, recorded>>
            \/ /\ step[r] = "apply" /\ step'[r] = "record"
               /\ Applicable(at[r]) /\ Applies(at[r])
               /\ at'[r] = at[r] /\ hash'[r] = hash[r] /\ recorded' = recorded
            \/ /\ step[r] = "record" \/ (step[r] = "apply" /\ at[r] \notin Own)
               /\ step'[r] = "idle" \/ MovesOn(r)
               /\ Records(at[r], hash[r])
               /\ applied' = applied \/ Applies(at[r])
<1>t. /\ step \in [Runner -> Resting \cup {"hash", "ask", "apply", "record"}]
      /\ at \in [Runner -> 0 .. Files] /\ hash \in [Runner -> Checksum \cup {NoHash}]
  BY DEF MigrationInv, MigrationTypeOK, RunnersTyped
<1>1. CASE StartRun(r)
  BY <1>t, <1>1 DEF StartRun, schemaVars
<1>2. CASE HashFile(r)
  BY <1>t, <1>2 DEF HashFile, schemaVars
<1>3. CASE AskRecord(r)
  BY <1>t, <1>3 DEF AskRecord, GoesTo, Advances, Leaves, Ends, schemaVars, MovesOn, Resting
<1>4. CASE ApplyPlain(r)
  BY <1>t, <1>4 DEF ApplyPlain, Advances, Leaves, Ends, MovesOn
<1>5. CASE ApplyOwn(r)
  BY <1>t, <1>5 DEF ApplyOwn, GoesTo, Leaves, Ends
<1>6. CASE RecordOwn(r)
  BY <1>t, <1>6 DEF RecordOwn, Advances, Leaves, Ends, MovesOn
<1>7. CASE Interrupted(r)
  BY <1>t, <1>7 DEF Interrupted, Leaves, Ends, schemaVars
<1>8. CASE CutShort(r)
  <2>1. step[r] \notin Resting /\ Advances(r) /\ UNCHANGED schemaVars
    BY <1>8 DEF CutShort, Resting
  <2> QED
    BY <1>t, <1>8, <2>1 DEF Advances, Ends, schemaVars, MovesOn
<1> QED
  BY <1>1, <1>2, <1>3, <1>4, <1>5, <1>6, <1>7, <1>8 DEF RunnerStep, RunnerFails

LEMMA ChecksumsStayEarlier ==
  ASSUME MigrationInv, ChecksumsAreEarlier, [MigrationNext]_migrationVars
  PROVE  ChecksumsAreEarlier'
<1>1. CASE UNCHANGED migrationVars
  BY <1>1 DEF ChecksumsAreEarlier, migrationVars, schemaVars, runnerVars, Recorded
<1>2. CASE EditFile
  BY <1>2 DEF EditFile, ChecksumsAreEarlier, runnerVars, Recorded
<1>3. ASSUME NEW r \in Runner, RunnerStep(r) \/ RunnerFails(r)
      PROVE  ChecksumsAreEarlier'
  <2>1. /\ edited' = edited
        /\ \A q \in Runner \ {r} : step'[q] = step[q] /\ at'[q] = at[q] /\ hash'[q] = hash[q]
    BY <1>3, RunnerCases
  <2>2. step'[r] \in {"ask", "apply", "record"} /\ at'[r] \notin edited => hash'[r] # "edited"
    BY <1>3, RunnerCases DEF ChecksumsAreEarlier, Content, Blank, MovesOn
  <2>3. \/ recorded' = recorded
        \/ step[r] \in {"apply", "record"} /\ Records(at[r], hash[r])
    BY <1>3, RunnerCases
  <2>4. \A m \in Recorded' \ edited : recorded'[m] # "edited"
    BY <2>3 DEF ChecksumsAreEarlier, Records, Recorded
  <2> QED
    BY <2>1, <2>2, <2>4 DEF ChecksumsAreEarlier
<1> QED
  BY <1>1, <1>2, <1>3 DEF MigrationNext

(* A runner in front of file m stays there when m can be neither skipped   *)
(* nor recorded and its input is not cut short.                            *)
LEMMA StaysInFront ==
  ASSUME MigrationInv, NEW r \in Runner, RunnerStep(r) \/ RunnerFails(r),
         NEW m \in Migration, m \in Recorded \cup Own,
         step[r] \notin Resting => at[r] <= m,
         at[r] = m => /\ ~CutShort(r)
                      /\ step[r] = "ask" => ~Matches(r)
                      /\ step[r] = "record" => m \in Recorded
  PROVE  /\ step'[r] \notin Resting => at'[r] <= m
         /\ step'[r] = "passed" => step[r] = "passed"
         /\ \A n \in Recorded' \ Recorded : n < m
         /\ \A n \in Recorded : n \in Recorded' /\ recorded'[n] = recorded[n]
<1>1. Files \in Nat /\ m \in 1 .. Files /\ (step[r] \notin Resting => at[r] \in 1 .. Files)
  BY FilesAssumption DEF MigrationInv, MigrationTypeOK, RunnersTyped, Migration
<1>2. ASSUME Records(at[r], hash[r]), step[r] = "record" \/ (step[r] = "apply" /\ at[r] \notin Own)
      PROVE  at[r] < m /\ step[r] \notin Resting
  <2>1. step[r] \notin Resting /\ at[r] <= m
    BY <1>2 DEF Resting
  <2>2. at[r] # m
    BY <1>2 DEF Records
  <2> QED
    BY <1>1, <2>1, <2>2
<1>3. ASSUME step[r] \notin Resting, CutShort(r) \/ (step[r] = "ask" /\ Matches(r))
      PROVE  at[r] < m
  BY <1>1, <1>3
<1>4. ASSUME MovesOn(r), at[r] < m, step[r] \notin Resting
      PROVE  step'[r] = "hash" /\ at'[r] <= m
  BY <1>1, <1>4 DEF MovesOn
<1>5. /\ step'[r] \notin Resting => at'[r] <= m
      /\ step'[r] = "passed" => step[r] = "passed"
  <2>1. CASE step'[r] = "idle"
    BY <2>1 DEF Resting
  <2>2. CASE step'[r] = "hash" /\ at'[r] \in {0, 1}
    BY <1>1, <2>2
  <2>3. CASE step[r] \in {"hash", "ask", "apply"} /\ at'[r] = at[r] /\ step'[r] # "passed"
    BY <2>3 DEF Resting
  <2>4. CASE MovesOn(r) /\ at[r] < m /\ step[r] \notin Resting
    BY <1>4, <2>4
  <2> QED
    BY <1>2, <1>3, <2>1, <2>2, <2>3, <2>4, RunnerCases
<1>6. \/ recorded' = recorded
      \/ /\ Records(at[r], hash[r])
         /\ step[r] = "record" \/ (step[r] = "apply" /\ at[r] \notin Own)
  BY RunnerCases
<1>7. /\ \A n \in Recorded' \ Recorded : n < m
      /\ \A n \in Recorded : n \in Recorded' /\ recorded'[n] = recorded[n]
  BY <1>2, <1>6 DEF Records, Recorded
<1> QED
  BY <1>5, <1>7

(* A recorded checksum that is not the file's stops the runners at the     *)
(* file.                                                                   *)
LEMMA ChecksumStopsRunners ==
  ASSUME MigrationInv, ChecksumsAreEarlier, [MigrationNext]_migrationVars,
         NEW m \in Migration, StoppedByChecksum(m), ~CutShortAt(m)
  PROVE  StoppedByChecksum(m)' /\ NothingPast(m)
<1>1. CASE UNCHANGED migrationVars
  BY <1>1 DEF StoppedByChecksum, NothingPast, Content, Matches, migrationVars, schemaVars,
       runnerVars, Recorded
<1>2. CASE EditFile
  <2>1. UNCHANGED <<applied, recorded, step, at, hash>> /\ Recorded' = Recorded
    BY <1>2 DEF EditFile, runnerVars, Recorded
  <2>2. recorded[m] # Content(m)'
    BY <1>2 DEF EditFile, ChecksumsAreEarlier, StoppedByChecksum, Content
  <2> QED
    BY <2>1, <2>2 DEF StoppedByChecksum, NothingPast, Matches
<1>3. ASSUME NEW r \in Runner, RunnerStep(r) \/ RunnerFails(r)
      PROVE  StoppedByChecksum(m)' /\ NothingPast(m)
  <2>1. /\ Content(m)' = Content(m)
        /\ \A q \in Runner \ {r} : step'[q] = step[q] /\ at'[q] = at[q] /\ hash'[q] = hash[q]
    BY <1>3, RunnerCases DEF Content
  <2>2. m \in Recorded /\ recorded[m] # Content(m)
        /\ (step[r] \notin Resting => at[r] <= m)
        /\ (at[r] = m => ~CutShort(r) /\ (step[r] = "ask" => ~Matches(r)))
    BY DEF StoppedByChecksum, CutShortAt, Resting
  <2>3. /\ step'[r] \notin Resting => at'[r] <= m
        /\ step'[r] = "passed" => step[r] = "passed"
        /\ \A n \in Recorded' \ Recorded : n < m
        /\ m \in Recorded' /\ recorded'[m] = recorded[m]
    BY <1>3, <2>2, StaysInFront
  <2>4. NothingPast(m)
    BY <2>1, <2>3 DEF NothingPast
  <2>5. at'[r] = m /\ step'[r] = "ask" => ~Matches(r)'
    BY <1>3, <2>2, <2>3, RunnerCases DEF Matches, MovesOn
  <2>6. \A q \in Runner \ {r} : at[q] = m /\ step[q] = "ask" /\ ~Matches(q) => ~Matches(q)'
    BY <2>1, <2>2, <2>3 DEF Matches
  <2> QED
    BY <2>1, <2>2, <2>3, <2>4, <2>5, <2>6 DEF StoppedByChecksum
<1> QED
  BY <1>1, <1>2, <1>3 DEF MigrationNext

(* A file that creates tables and is applied fails each time it is applied *)
(* again.                                                                  *)
LEMMA HalfAppliedStopsRunners ==
  ASSUME MigrationInv, [MigrationNext]_migrationVars,
         NEW m \in Migration, HalfApplied(m), ~CutShortAt(m)
  PROVE  HalfApplied(m)' /\ NothingPast(m)
<1>1. CASE UNCHANGED migrationVars
  BY <1>1 DEF HalfApplied, NothingPast, migrationVars, schemaVars, runnerVars, Recorded
<1>2. CASE EditFile
  BY <1>2 DEF EditFile, HalfApplied, NothingPast, runnerVars, Recorded
<1>3. ASSUME NEW r \in Runner, RunnerStep(r) \/ RunnerFails(r)
      PROVE  HalfApplied(m)' /\ NothingPast(m)
  <2>1. \A q \in Runner \ {r} : step'[q] = step[q] /\ at'[q] = at[q]
    BY <1>3, RunnerCases
  <2>2. /\ m \in Own /\ m \notin Recorded
        /\ step[r] \notin Resting => at[r] <= m
        /\ at[r] = m => /\ ~CutShort(r)
                        /\ step[r] = "ask" => ~Matches(r)
                        /\ step[r] # "record"
    BY FilesAssumption DEF HalfApplied, CutShortAt, Matches, Resting
  <2>3. /\ step'[r] \notin Resting => at'[r] <= m
        /\ step'[r] = "passed" => step[r] = "passed"
        /\ \A n \in Recorded' \ Recorded : n < m
    BY <1>3, <2>2, StaysInFront
  <2>4. NothingPast(m)
    BY <2>1, <2>3 DEF NothingPast
  <2>5. step'[r] = "record" => at'[r] # m
    BY <1>3, RunnerCases DEF HalfApplied, Applicable, MovesOn
  <2>6. applied'[m] # <<>>
    <3>1. CASE applied' = applied
      BY <3>1 DEF HalfApplied
    <3>2. CASE Applies(at[r]) /\ step[r] \notin Resting
      <4>1. at[r] \in Migration /\ SchemaTyped
        BY <3>2 DEF MigrationInv, MigrationTypeOK, RunnersTyped
      <4> QED
        BY <3>2, <4>1, AppliesGrows DEF HalfApplied
    <3> QED
      BY <1>3, <3>1, <3>2, RunnerCases DEF Resting
  <2>7. m \notin Recorded'
    BY <2>2, <2>3 DEF Migration
  <2> QED
    BY <2>1, <2>3, <2>4, <2>5, <2>6, <2>7 DEF HalfApplied
<1> QED
  BY <1>1, <1>2, <1>3 DEF MigrationNext

----------------------------------------------------------------------------
(* Captures.  Sets of captures are finite, and open ones stay within the   *)
(* bound.                                                                  *)
LEMMA CapturesCounted ==
  ASSUME NEW S \in SUBSET Capture
  PROVE  IsFiniteSet(S) /\ Cardinality(S) \in Nat
BY CaptureAssumption, FS_Subset, FS_CardinalityType

(* A capture that ends takes nothing of the others along. *)
LEMMA ClosesFacts ==
  ASSUME CaptureInv, NEW c \in Capture, Closes(c), phase[c] # "idle"
  PROVE  /\ phase' \in [Capture -> {"idle", "open", "superseded"}]
         /\ asOf' \in [Capture -> Date \cup {0}] /\ seen' \in [Capture -> SUBSET Nat]
         /\ phase'[c] = "idle" /\ seen'[c] = {}
         /\ \A b \in Capture \ {c} :
              phase'[b] = phase[b] /\ asOf'[b] = asOf[b] /\ seen'[b] = seen[b]
         /\ Open' = Open \ {c} /\ Cardinality(Open') = Cardinality(Open) - 1
<1>1. /\ phase' \in [Capture -> {"idle", "open", "superseded"}]
      /\ asOf' \in [Capture -> Date \cup {0}] /\ seen' \in [Capture -> SUBSET Nat]
      /\ phase'[c] = "idle" /\ seen'[c] = {}
      /\ \A b \in Capture \ {c} :
           phase'[b] = phase[b] /\ asOf'[b] = asOf[b] /\ seen'[b] = seen[b]
  BY DEF Closes, CaptureInv, CaptureTypeOK
<1>2. Open' = Open \ {c} /\ c \in Open /\ Open \in SUBSET Capture
  BY <1>1 DEF Open
<1> QED
  BY <1>1, <1>2, CapturesCounted, FS_RemoveElement

LEMMA OpenStayApart ==
  ASSUME CaptureInv, NEW c \in Capture, Closes(c), phase[c] # "idle"
  PROVE  \A a, b \in Open' : asOf'[a] = asOf'[b] => a = b
<1> SUFFICES ASSUME NEW a \in Open', NEW b \in Open', asOf'[a] = asOf'[b]
             PROVE  a = b
  OBVIOUS
<1>1. a \in Open \ {c} /\ b \in Open \ {c} /\ Open \subseteq Capture
  BY ClosesFacts DEF Open
<1>2. asOf'[a] = asOf[a] /\ asOf'[b] = asOf[b]
  BY <1>1, ClosesFacts
<1> QED
  BY <1>1, <1>2 DEF CaptureInv, DatesAreUnique

LEMMA BeginCaptureInv ==
  ASSUME CaptureInv, NEW c \in Capture, BeginCapture(c) PROVE CaptureInv'
<1>1. PICK d \in Date : /\ d \notin {asOf[o] : o \in Open}
                        /\ asOf' = [asOf EXCEPT ![c] = d]
  BY DEF BeginCapture
<1>2. /\ phase[c] = "idle" /\ commits + Cardinality(Open) < MaxCaptures
      /\ phase' = [phase EXCEPT ![c] = "open"]
      /\ UNCHANGED <<captured, obligations, commits, seen, today, orderly>>
  BY DEF BeginCapture
<1>3. CaptureTypeOK'
  BY <1>1, <1>2 DEF CaptureInv, CaptureTypeOK
<1>4. /\ Open' = Open \cup {c} /\ c \notin Open /\ Open \in SUBSET Capture
      /\ asOf'[c] = d /\ phase'[c] = "open"
      /\ \A b \in Capture \ {c} : asOf'[b] = asOf[b] /\ phase'[b] = phase[b]
  BY <1>1, <1>2 DEF Open, CaptureInv, CaptureTypeOK
<1>5. CommitsAreBounded'
  <2>1. Cardinality(Open') = Cardinality(Open) + 1 /\ Cardinality(Open) \in Nat
    BY <1>4, CapturesCounted, FS_AddElement
  <2> QED
    BY <1>2, <2>1, CaptureAssumption DEF CommitsAreBounded, CaptureInv, CaptureTypeOK
<1>6. IdsAreUnique'
  BY <1>2 DEF CaptureInv, IdsAreUnique
<1>7. DatesAreUnique'
  BY <1>1, <1>2, <1>4 DEF CaptureInv, DatesAreUnique
<1>8. SeenAreEarlier' /\ LatestIsActive' /\ OneIsActive'
  BY <1>2, <1>4 DEF CaptureInv, SeenAreEarlier, LatestIsActive, OneIsActive
<1> QED
  BY <1>3, <1>5, <1>6, <1>7, <1>8 DEF CaptureInv

LEMMA SupersedeInv ==
  ASSUME CaptureInv, NEW c \in Capture, Supersede(c) PROVE CaptureInv'
<1>1. /\ phase[c] = "open" /\ seen' = [seen EXCEPT ![c] = Found(c)]
      /\ phase' = [phase EXCEPT ![c] = "superseded"]
      /\ UNCHANGED <<captured, obligations, commits, asOf, today>>
      /\ orderly' = (orderly /\ InOrder(c))
  BY DEF Supersede
<1>1a. orderly' \in BOOLEAN /\ (orderly' => orderly /\ InOrder(c))
  BY <1>1, Zenon
<1>2. \A o \in obligations : o.id \in Nat /\ o.starts \in Date
  BY DEF CaptureInv, CaptureTypeOK, Obligation
<1>3. Found(c) \in SUBSET Nat
  BY <1>2 DEF Found
<1>4. \A o \in obligations :
        o.id \in Found(c) <=> o.starts = asOf[c] \/ (o.active /\ o.starts < asOf[c])
  <2>1. ASSUME NEW o \in obligations, o.id \in Found(c)
        PROVE  o.starts = asOf[c] \/ (o.active /\ o.starts < asOf[c])
    <3>1. PICK p \in obligations : /\ p.id = o.id
                                   /\ p.starts = asOf[c] \/ (p.active /\ p.starts < asOf[c])
      BY <2>1 DEF Found
    <3>2. p = o
      BY <3>1 DEF CaptureInv, IdsAreUnique
    <3> QED
      BY <3>1, <3>2
  <2>2. ASSUME NEW o \in obligations, o.starts = asOf[c] \/ (o.active /\ o.starts < asOf[c])
        PROVE  o.id \in Found(c)
    BY <2>2 DEF Found
  <2> QED
    BY <2>1, <2>2
<1>5. \A i \in Found(c) : i < commits
  BY DEF CaptureInv, IdsAreUnique, Found
<1>6. asOf[c] \in Date
  BY <1>1 DEF CaptureInv, CaptureTypeOK
<1>7. CaptureTypeOK'
  BY <1>1a, <1>1, <1>3 DEF CaptureInv, CaptureTypeOK
<1>8. /\ Open' = Open /\ phase'[c] = "superseded" /\ seen'[c] = Found(c) /\ c \in Open
      /\ \A b \in Capture \ {c} : phase'[b] = phase[b] /\ seen'[b] = seen[b]
  BY <1>1 DEF Open, CaptureInv, CaptureTypeOK
<1>9. CommitsAreBounded' /\ IdsAreUnique' /\ DatesAreUnique' /\ LatestIsActive'
  BY <1>1, <1>5, <1>8
     DEF CaptureInv, CommitsAreBounded, IdsAreUnique, DatesAreUnique, LatestIsActive
<1>10. SeenAreEarlier'
  BY <1>1, <1>2, <1>4, <1>6, <1>8 DEF CaptureInv, SeenAreEarlier, Date
<1>11. OneIsActive'
  <2> SUFFICES ASSUME orderly' PROVE OneIsActive'
    BY DEF OneIsActive
  <2>1. /\ orderly /\ \A o \in obligations : o.starts <= asOf[c]
        /\ \A b \in Open : phase[b] # "superseded"
    BY <1>1a DEF InOrder
  <2>2. \A b \in Capture : phase'[b] = "superseded" => b = c
    BY <1>8, <2>1 DEF Open
  <2>3. \A o \in obligations : o.active => o.id \in seen'[c]
    BY <1>2, <1>4, <1>6, <1>8, <2>1 DEF Date
  <2> QED
    BY <1>1, <2>1, <2>2, <2>3 DEF CaptureInv, OneIsActive
<1> QED
  BY <1>7, <1>9, <1>10, <1>11 DEF CaptureInv

(* What becomes of the rows at a commit. *)
LEMMA CommitRows ==
  ASSUME CaptureInv, NEW c \in Capture, CommitCapture(c)
  PROVE  /\ obligations' \in SUBSET Obligation
         /\ NewRow(c) \in obligations'
         /\ NewRow(c).id = commits /\ NewRow(c).starts = asOf[c] /\ NewRow(c).active
         /\ NewRow(c).ends = NoEnd /\ asOf[c] \in Date
         /\ \A o \in Kept(c) :
              /\ o \in obligations /\ o.starts # asOf[c] /\ Closed(c, o) \in obligations'
              /\ Closed(c, o).id = o.id /\ Closed(c, o).starts = o.starts
              /\ Closed(c, o).active => Closed(c, o) = o /\ o.id \notin seen[c]
              /\ o.active /\ o.id \notin seen[c] => Closed(c, o) = o
              /\ o.starts > asOf[c] => Closed(c, o) = o
         /\ \A p \in obligations' : p = NewRow(c) \/ \E o \in Kept(c) : p = Closed(c, o)
         /\ \A o \in obligations : o \in Kept(c) \/ o.starts = asOf[c]
<1>1. asOf[c] \in Date /\ asOf[c] - 1 \in Date \cup {NoEnd} /\ commits \in Nat
      /\ phase[c] = "superseded"
  BY CaptureAssumption DEF CommitCapture, CaptureInv, CaptureTypeOK, Date, NoEnd
<1>2. obligations' = {Closed(c, o) : o \in Kept(c)} \cup {NewRow(c)}
  BY DEF CommitCapture
<1>3. NewRow(c) \in Obligation
  BY <1>1 DEF NewRow, Obligation
<1>4. ASSUME NEW o \in Kept(c)
      PROVE  /\ o \in obligations /\ o.starts # asOf[c] /\ Closed(c, o) \in Obligation
             /\ Closed(c, o).id = o.id /\ Closed(c, o).starts = o.starts
             /\ Closed(c, o).active => Closed(c, o) = o /\ o.id \notin seen[c]
             /\ o.active /\ o.id \notin seen[c] => Closed(c, o) = o
             /\ o.starts > asOf[c] => Closed(c, o) = o
  <2>1. o \in obligations /\ o \in Obligation /\ ~(o.id \in seen[c] /\ o.starts = asOf[c])
    BY DEF Kept, CaptureInv, CaptureTypeOK
  <2>2. o.starts # asOf[c] /\ (o.id \in seen[c] => o.starts <= asOf[c])
    BY <1>1, <2>1 DEF CaptureInv, SeenAreEarlier
  <2>3. CASE o.active /\ o.id \in seen[c]
    <3>1. Closed(c, o) = [o EXCEPT !.active = FALSE, !.ends = asOf[c] - 1]
      BY <2>3 DEF Closed
    <3>2. /\ Closed(c, o) \in Obligation /\ Closed(c, o).id = o.id
          /\ Closed(c, o).starts = o.starts /\ Closed(c, o).active = FALSE
      BY <1>1, <2>1, <3>1 DEF Obligation
    <3>3. ~(o.starts > asOf[c])
      BY <1>1, <2>1, <2>2, <2>3 DEF Obligation, Date
    <3> QED
      BY <2>1, <2>2, <2>3, <3>2, <3>3
  <2>4. CASE ~(o.active /\ o.id \in seen[c])
    <3>1. Closed(c, o) = o
      BY <2>4 DEF Closed
    <3> QED
      BY <2>1, <2>2, <2>4, <3>1
  <2> QED
    BY <2>3, <2>4
<1>5. \A o \in obligations : o \in Kept(c) \/ o.starts = asOf[c]
  BY DEF Kept
<1> QED
  BY <1>1, <1>2, <1>3, <1>4, <1>5 DEF NewRow

LEMMA CommitCaptureInv ==
  ASSUME CaptureInv, NEW c \in Capture, CommitCapture(c) PROVE CaptureInv'
<1>1. /\ phase[c] = "superseded" /\ captured' = captured \cup {asOf[c]}
      /\ commits' = commits + 1 /\ Closes(c) /\ UNCHANGED <<today, orderly>>
      /\ commits \in Nat
  BY CaptureAssumption DEF CommitCapture, CaptureInv, CaptureTypeOK
<1>2. CommitsAreBounded'
  BY <1>1, ClosesFacts, CapturesCounted
     DEF CommitsAreBounded, CaptureInv, Open
<1>3. CaptureTypeOK'
  <2>1. commits' \in 0 .. MaxCaptures
    <3>1. Cardinality(Open') \in Nat /\ commits' + Cardinality(Open') <= MaxCaptures
      BY <1>1, <1>2, ClosesFacts, CapturesCounted DEF CommitsAreBounded, Open
    <3> QED
      BY <1>1, <3>1, CaptureAssumption
  <2> QED
    BY <1>1, <2>1, ClosesFacts, CommitRows DEF CaptureInv, CaptureTypeOK
<1>4. \A o \in obligations : o.id \in Nat /\ o.id < commits /\ o.starts \in Date
                              /\ (o.active \in BOOLEAN)
  BY DEF CaptureInv, CaptureTypeOK, IdsAreUnique, Obligation
<1>5. IdsAreUnique'
  <2>1. \A p \in obligations' : p.id < commits'
    BY <1>1, <1>4, CommitRows
  <2>2. \A p, q \in obligations' : p.id = q.id => p = q
    <3>1. \A o \in Kept(c) : Closed(c, o).id < commits
      BY <1>4, CommitRows
    <3>2. \A o, p \in Kept(c) : Closed(c, o).id = Closed(c, p).id => o = p
      BY CommitRows DEF CaptureInv, IdsAreUnique
    <3> QED
      BY <1>1, <1>4, <3>1, <3>2, CommitRows
  <2>3. \A b \in Capture : \A i \in seen'[b] : i < commits'
    <3> SUFFICES ASSUME NEW b \in Capture, NEW i \in seen'[b] PROVE i < commits'
      OBVIOUS
    <3>1. b # c /\ i \in seen[b] /\ i \in Nat
      BY <1>1, ClosesFacts DEF CaptureInv, CaptureTypeOK
    <3> QED
      BY <1>1, <3>1 DEF CaptureInv, IdsAreUnique
  <2> QED
    BY <2>1, <2>2, <2>3 DEF IdsAreUnique
<1>6. DatesAreUnique'
  <2>1. captured' = {p.starts : p \in obligations'}
    <3>1. \A d \in captured' : \E p \in obligations' : d = p.starts
      <4> SUFFICES ASSUME NEW d \in captured', d # asOf[c]
                   PROVE  \E p \in obligations' : d = p.starts
        BY CommitRows
      <4>1. PICK o \in obligations : d = o.starts
        BY <1>1 DEF CaptureInv, DatesAreUnique
      <4> QED
        BY <4>1, CommitRows
    <3>2. \A p \in obligations' : p.starts \in captured'
      BY <1>1, CommitRows DEF CaptureInv, DatesAreUnique
    <3> QED
      BY <3>1, <3>2
  <2>2. \A p, q \in obligations' : p.starts = q.starts => p = q
    <3>1. \A o, p \in Kept(c) : Closed(c, o).starts = Closed(c, p).starts => o = p
      BY CommitRows DEF CaptureInv, DatesAreUnique
    <3>2. \A o \in Kept(c) : Closed(c, o).starts # NewRow(c).starts
      BY CommitRows
    <3> QED
      BY <3>1, <3>2, CommitRows
  <2>3. \A a, b \in Open' : asOf'[a] = asOf'[b] => a = b
    BY <1>1, OpenStayApart
  <2> QED
    BY <2>1, <2>2, <2>3 DEF DatesAreUnique
<1>7. SeenAreEarlier'
  <2> SUFFICES ASSUME NEW b \in Capture, NEW p \in obligations', phase'[b] = "superseded"
               PROVE  /\ p.id \in seen'[b] => p.starts <= asOf'[b]
                      /\ p.starts = asOf'[b] => p.id \in seen'[b]
    BY DEF SeenAreEarlier
  <2>1. b # c /\ phase[b] = "superseded" /\ seen'[b] = seen[b] /\ asOf'[b] = asOf[b]
    BY <1>1, ClosesFacts
  <2>2. asOf[b] # asOf[c] /\ \A i \in seen[b] : i < commits
    BY <1>1, <2>1 DEF CaptureInv, DatesAreUnique, IdsAreUnique, Open
  <2>3. CASE p = NewRow(c)
    BY <1>1, <2>1, <2>2, <2>3, CommitRows
  <2>4. CASE \E o \in Kept(c) : p = Closed(c, o)
    BY <2>1, <2>4, CommitRows DEF CaptureInv, SeenAreEarlier
  <2> QED
    BY <2>3, <2>4, CommitRows
<1>8. LatestIsActive'
  <2>1. \A p \in obligations' : p.active => p.ends = NoEnd
    BY CommitRows DEF CaptureInv, LatestIsActive
  <2>2. ASSUME NEW p \in obligations', \A q \in obligations' : q.starts <= p.starts
        PROVE  p.active
    <3>1. CASE p = NewRow(c)
      BY <3>1, CommitRows
    <3>2. ASSUME NEW o \in Kept(c), p = Closed(c, o) PROVE p.active
      <4>1. o \in obligations /\ o.starts = p.starts /\ asOf[c] <= o.starts
            /\ o.starts # asOf[c]
        BY <2>2, <3>2, CommitRows
      <4>2. p = o
        BY <1>4, <3>2, <4>1, CommitRows DEF Date
      <4>3. \A r \in obligations : r.starts <= o.starts
        BY <2>2, <4>1, CommitRows
      <4> QED
        BY <4>1, <4>2, <4>3 DEF CaptureInv, LatestIsActive
    <3> QED
      BY <3>1, <3>2, CommitRows
  <2> QED
    BY <2>1, <2>2 DEF LatestIsActive
<1>9. OneIsActive'
  <2> SUFFICES ASSUME orderly PROVE OneIsActive'
    BY <1>1 DEF OneIsActive
  <2>1. \A o \in obligations : o.active => o.id \in seen[c]
    BY <1>1 DEF CaptureInv, OneIsActive
  <2>2. \A p \in obligations' : p.active => p = NewRow(c)
    BY <2>1, CommitRows
  <2>3. \A b \in Capture : phase'[b] # "superseded"
    BY <1>1, ClosesFacts DEF CaptureInv, OneIsActive
  <2> QED
    BY <2>2, <2>3 DEF OneIsActive
<1> QED
  BY <1>2, <1>3, <1>5, <1>6, <1>7, <1>8, <1>9 DEF CaptureInv

LEMMA RollBackInv ==
  ASSUME CaptureInv, NEW c \in Capture, RollBack(c) PROVE CaptureInv'
<1>1. /\ phase[c] # "idle" /\ Closes(c)
      /\ UNCHANGED <<captured, obligations, commits, today, orderly>>
  BY DEF RollBack
<1>2. CaptureTypeOK'
  BY <1>1, ClosesFacts DEF CaptureInv, CaptureTypeOK
<1>3. CommitsAreBounded'
  BY <1>1, ClosesFacts, CapturesCounted, CaptureAssumption
     DEF CommitsAreBounded, CaptureInv, CaptureTypeOK, Open
<1>4. IdsAreUnique'
  BY <1>1, ClosesFacts DEF CaptureInv, IdsAreUnique
<1>5. DatesAreUnique'
  BY <1>1, OpenStayApart DEF CaptureInv, DatesAreUnique
<1>6. SeenAreEarlier'
  BY <1>1, ClosesFacts DEF CaptureInv, SeenAreEarlier
<1>7. LatestIsActive' /\ OneIsActive'
  BY <1>1, ClosesFacts DEF CaptureInv, LatestIsActive, OneIsActive
<1> QED
  BY <1>2, <1>3, <1>4, <1>5, <1>6, <1>7 DEF CaptureInv

LEMMA CaptureInvStep ==
  ASSUME CaptureInv, [CaptureNext]_captureVars PROVE CaptureInv'
<1>1. CASE NextDay \/ UNCHANGED captureVars
  <2>1. /\ UNCHANGED <<captured, obligations, commits, phase, asOf, seen, orderly>>
        /\ today' \in Date
    BY <1>1, CaptureAssumption
       DEF NextDay, captureVars, CaptureInv, CaptureTypeOK, Date
  <2> QED
    BY <2>1 DEF CaptureInv, CaptureTypeOK, CommitsAreBounded, IdsAreUnique, DatesAreUnique,
                SeenAreEarlier, LatestIsActive, OneIsActive, Open
<1>2. ASSUME NEW c \in Capture, CaptureStep(c) PROVE CaptureInv'
  BY <1>2, BeginCaptureInv, SupersedeInv, CommitCaptureInv, RollBackInv DEF CaptureStep
<1> QED
  BY <1>1, <1>2 DEF CaptureNext

LEMMA CaptureInvInit == ASSUME CaptureInit PROVE CaptureInv
<1> USE DEF CaptureInit
<1>1. Open = {} /\ Cardinality(Open) = 0
  BY FS_EmptySet DEF Open
<1>2. CaptureTypeOK /\ CommitsAreBounded
  BY <1>1, CaptureAssumption DEF CaptureTypeOK, CommitsAreBounded, Date
<1> QED
  BY <1>1, <1>2
     DEF CaptureInv, IdsAreUnique, DatesAreUnique, SeenAreEarlier, LatestIsActive, OneIsActive

(* What the invariant says about the rows the views add up. *)
LEMMA CaptureInvMeans ==
  ASSUME CaptureInv
  PROVE  OneObligationPerDate /\ LatestBaselineCounts /\ SpendCountedOnce
<1>1. OneObligationPerDate
  <2> SUFFICES ASSUME NEW d \in Date
               PROVE  Cardinality({o \in obligations : o.starts = d})
                        = IF d \in captured THEN 1 ELSE 0
    BY DEF OneObligationPerDate
  <2>1. CASE d \notin captured
    <3>1. {o \in obligations : o.starts = d} = {}
      BY <2>1 DEF CaptureInv, DatesAreUnique
    <3> QED
      BY <2>1, <3>1, FS_EmptySet
  <2>2. CASE d \in captured
    <3>1. PICK p \in obligations : p.starts = d
      BY <2>2 DEF CaptureInv, DatesAreUnique
    <3>2. {o \in obligations : o.starts = d} = {p}
      BY <3>1 DEF CaptureInv, DatesAreUnique
    <3> QED
      BY <2>2, <3>2, FS_Singleton
  <2> QED
    BY <2>1, <2>2
<1>2. LatestBaselineCounts
  <2> SUFFICES ASSUME NEW d \in captured, \A e \in captured : e <= d, d <= today
               PROVE  \E o \in Counting : o.starts = d
    BY DEF LatestBaselineCounts
  <2>1. PICK o \in obligations : o.starts = d
    BY DEF CaptureInv, DatesAreUnique
  <2>2. \A p \in obligations : p.starts <= o.starts
    BY <2>1 DEF CaptureInv, DatesAreUnique
  <2>3. o.active /\ o.ends = NoEnd
    BY <2>2 DEF CaptureInv, LatestIsActive
  <2> QED
    BY <2>1, <2>3 DEF Counting
<1>3. SpendCountedOnce
  BY DEF CaptureInv, OneIsActive, SpendCountedOnce, Counting
<1> QED
  BY <1>1, <1>2, <1>3

----------------------------------------------------------------------------
(* The database as the backup sees it.                                     *)
LEMMA VaultConstants == VaultThms!BackupConstants
<1>1. CountOrder \in Seq(Table)
  BY DEF CountOrder, Table
<1>2. DOMAIN CountOrder = 1 .. 5
  BY DEF CountOrder
<1>3. Table = {CountOrder[i] : i \in DOMAIN CountOrder}
  <2>1. \A i \in 1 .. 5 : i = 1 \/ i = 2 \/ i = 3 \/ i = 4 \/ i = 5
    OBVIOUS
  <2>2. \A i \in 1 .. 5 : CountOrder[i] \in Table
    BY <2>1 DEF CountOrder, Table
  <2>3. \A t \in Table : \E i \in 1 .. 5 : t = CountOrder[i]
    BY DEF CountOrder, Table
  <2> QED
    BY <1>2, <2>2, <2>3
<1> QED
  BY <1>1, <1>3, OperationsBounds DEF VaultThms!BackupConstants

LEMMA VaultSame ==
  /\ VaultThms!BackupInv = Vault!BackupInv
  /\ VaultThms!BackupInv' = Vault!BackupInv'
BY DEF VaultThms!BackupInv, Vault!BackupInv, VaultThms!BackupTypeOK, Vault!BackupTypeOK,
       VaultThms!LeftoversAreExplained, Vault!LeftoversAreExplained,
       VaultThms!ScratchIsThere, Vault!ScratchIsThere,
       VaultThms!PruneAfterPass, Vault!PruneAfterPass,
       VaultThms!CountsAreComplete, Vault!CountsAreComplete,
       VaultThms!DumpsGrow, Vault!DumpsGrow,
       VaultThms!CountsAreLater, Vault!CountsAreLater, VaultThms!Counts, Vault!Counts,
       VaultThms!Stage, Vault!Stage, VaultThms!WithScratch, Vault!WithScratch,
       VaultThms!HasDump, Vault!HasDump, VaultThms!Mine, Vault!Mine

LEMMA VaultNextSame ==
  /\ VaultThms!BackupInit = Vault!BackupInit
  /\ VaultThms!BackupNext = Vault!BackupNext
  /\ VaultThms!backupVars = Vault!backupVars
  /\ VaultThms!backupVars' = Vault!backupVars'
  /\ VaultThms!Counts = Vault!Counts
BY DEF VaultThms!BackupInit, Vault!BackupInit, VaultThms!BackupNext, Vault!BackupNext,
       VaultThms!BackupStep, Vault!BackupStep, VaultThms!Write, Vault!Write,
       VaultThms!BeginBackup, Vault!BeginBackup, VaultThms!Dump, Vault!Dump,
       VaultThms!CountNext, Vault!CountNext, VaultThms!CreateScratch, Vault!CreateScratch,
       VaultThms!Restore, Vault!Restore, VaultThms!Compare, Vault!Compare,
       VaultThms!Accepts, Vault!Accepts, VaultThms!Cleanup, Vault!Cleanup,
       VaultThms!Resets, Vault!Resets, VaultThms!Slips, Vault!Slips,
       VaultThms!DropScratch, Vault!DropScratch, VaultThms!Prune, Vault!Prune,
       VaultThms!CallFails, Vault!CallFails, VaultThms!Counts, Vault!Counts,
       VaultThms!Mine, Vault!Mine, VaultThms!WithScratch, Vault!WithScratch,
       VaultThms!backupVars, Vault!backupVars, VaultThms!scriptVars, Vault!scriptVars

LEMMA RangesFinite == IsFiniteSet(1 .. Files) /\ IsFiniteSet(1 .. Days)
<1>1. Files \in Int /\ Days \in Int
  BY FilesAssumption, CaptureAssumption
<1> QED
  BY <1>1, FS_Interval

LEMMA TableCountsTyped ==
  ASSUME MigrationInv, CaptureInv, imported \in 0 .. MaxImports
  PROVE  TableCounts \in Vault!Counts
<1>1. Recorded \subseteq 1 .. Files /\ captured \subseteq 1 .. Days
  BY DEF MigrationInv, MigrationTypeOK, SchemaTyped, Migration, CaptureInv, CaptureTypeOK, Date
<1>2. IsFiniteSet(1 .. Files) /\ IsFiniteSet(1 .. Days)
  BY RangesFinite
<1>3. Cardinality(Recorded) \in Nat /\ Cardinality(captured) \in Nat
  BY <1>1, <1>2, FS_Subset, FS_CardinalityType
<1>4. imported \in Nat
  BY OperationsBounds
<1> QED
  BY <1>3, <1>4 DEF TableCounts, Table, Vault!Counts

(* Whatever only adds rows is a Write of the backup's database. *)
LEMMA TableCountsGrow ==
  ASSUME MigrationInv', CaptureInv', (imported \in 0 .. MaxImports)',
         imported \in 0 .. MaxImports, UNCHANGED scriptVars,
         Recorded \subseteq Recorded', captured \subseteq captured', imported <= imported'
  PROVE  VaultThms!Write
<1>1. Recorded' \subseteq 1 .. Files /\ captured' \subseteq 1 .. Days
  BY DEF MigrationInv, MigrationTypeOK, SchemaTyped, Migration, CaptureInv, CaptureTypeOK, Date
<1>2. IsFiniteSet(1 .. Files) /\ IsFiniteSet(1 .. Days)
  BY RangesFinite
<1>3. IsFiniteSet(Recorded') /\ IsFiniteSet(captured')
  BY <1>1, <1>2, FS_Subset
<1>4. /\ Cardinality(Recorded) <= Cardinality(Recorded')
      /\ Cardinality(captured) <= Cardinality(captured')
      /\ IsFiniteSet(Recorded) /\ IsFiniteSet(captured)
  BY <1>3, FS_Subset
<1>5. /\ Cardinality(Recorded) \in Nat /\ Cardinality(captured) \in Nat
      /\ Cardinality(Recorded') \in Nat /\ Cardinality(captured') \in Nat
      /\ imported \in Nat /\ imported' \in Nat
  BY <1>3, <1>4, FS_CardinalityType, OperationsBounds
<1>6. TableCounts' \in [Table -> Nat]
  BY <1>5 DEF TableCounts, Table
<1>7. /\ TableCounts'["schema_migrations"] >= TableCounts["schema_migrations"]
      /\ TableCounts'["accounts"] >= TableCounts["accounts"]
      /\ TableCounts'["transactions"] >= TableCounts["transactions"]
      /\ TableCounts'["assets"] >= TableCounts["assets"]
      /\ TableCounts'["liabilities"] >= TableCounts["liabilities"]
  BY <1>4, <1>5 DEF TableCounts
<1>8. \A t \in Table : TableCounts'[t] >= TableCounts[t]
  BY <1>7 DEF Table
<1> QED
  BY <1>6, <1>8 DEF VaultThms!Write, VaultThms!Counts, VaultThms!scriptVars, scriptVars

(* What the scripts add to the database, and what they leave alone.        *)
LEMMA RunnersOnlyAdd ==
  ASSUME MigrationInv, MigrationNext PROVE Recorded \subseteq Recorded'
<1>1. \A m, h : Records(m, h) => Recorded \subseteq Recorded'
  BY DEF Records, Recorded
<1>2. recorded' = recorded => Recorded \subseteq Recorded'
  BY DEF Recorded
<1> QED
  BY <1>1, <1>2
     DEF MigrationNext, EditFile, RunnerStep, RunnerFails, StartRun, HashFile, AskRecord,
         ApplyPlain, ApplyOwn, RecordOwn, Interrupted, CutShort, schemaVars

LEMMA CapturesOnlyAdd ==
  ASSUME CaptureNext PROVE captured \subseteq captured'
BY DEF CaptureNext, CaptureStep, NextDay, BeginCapture, Supersede, CommitCapture, RollBack

(* Each step is one of the backup or writes to its database. *)
LEMMA StepsOfBackup ==
  ASSUME OperationsInv, [Next]_vars
  PROVE  /\ MigrationInv' /\ CaptureInv' /\ imported' \in 0 .. MaxImports /\ crew' = crew
         /\ [VaultThms!BackupNext]_(VaultThms!backupVars)
<1>0. MigrationInv /\ CaptureInv /\ imported \in 0 .. MaxImports
  BY DEF OperationsInv
<1>1. CASE Migrate
  <2>1. MigrationNext /\ UNCHANGED <<captureVars, imported, scriptVars, crew>>
    BY <1>1 DEF Migrate
  <2>2. MigrationInv' /\ CaptureInv'
    BY <1>0, <2>1, MigrationInvStep, CaptureInvStep
  <2>3. Recorded \subseteq Recorded' /\ captured \subseteq captured' /\ imported <= imported'
        /\ imported' \in 0 .. MaxImports
    BY <1>0, <2>1, RunnersOnlyAdd, OperationsBounds DEF captureVars
  <2> QED
    BY <1>0, <2>1, <2>2, <2>3, TableCountsGrow DEF VaultThms!BackupNext
<1>2. CASE CaptureBaseline
  <2>1. CaptureNext /\ UNCHANGED <<migrationVars, imported, scriptVars, crew>>
    BY <1>2 DEF CaptureBaseline
  <2>2. MigrationInv' /\ CaptureInv'
    BY <1>0, <2>1, MigrationInvStep, CaptureInvStep
  <2>3. Recorded \subseteq Recorded' /\ captured \subseteq captured' /\ imported <= imported'
        /\ imported' \in 0 .. MaxImports
    BY <1>0, <2>1, CapturesOnlyAdd, OperationsBounds DEF migrationVars, schemaVars, Recorded
  <2> QED
    BY <1>0, <2>1, <2>2, <2>3, TableCountsGrow DEF VaultThms!BackupNext
<1>3. CASE ImportCommits
  <2>1. UNCHANGED <<migrationVars, captureVars, scriptVars, crew>>
        /\ imported' = imported + 1 /\ imported < MaxImports
    BY <1>3 DEF ImportCommits
  <2>2. MigrationInv' /\ CaptureInv'
    BY <1>0, <2>1, MigrationInvStep, CaptureInvStep
  <2>3. Recorded \subseteq Recorded' /\ captured \subseteq captured' /\ imported <= imported'
        /\ imported' \in 0 .. MaxImports
    BY <1>0, <2>1, OperationsBounds DEF captureVars, migrationVars, schemaVars, Recorded
  <2> QED
    BY <1>0, <2>1, <2>2, <2>3, TableCountsGrow DEF VaultThms!BackupNext
<1>4. CASE BackUp
  <2>1. UNCHANGED <<migrationVars, captureVars, imported, crew>> /\ VaultThms!BackupNext
    BY <1>4, VaultNextSame DEF BackUp, Vault!BackupNext
  <2>2. MigrationInv' /\ CaptureInv'
    BY <1>0, <2>1, MigrationInvStep, CaptureInvStep
  <2> QED
    BY <1>0, <2>1, <2>2
<1>5. CASE UNCHANGED vars
  <2>1. UNCHANGED <<migrationVars, captureVars, imported, scriptVars, crew>>
    BY <1>5 DEF vars
  <2>2. MigrationInv' /\ CaptureInv'
    BY <1>0, <2>1, MigrationInvStep, CaptureInvStep
  <2>3. TableCounts' = TableCounts
    BY <2>1 DEF TableCounts, migrationVars, schemaVars, captureVars, Recorded
  <2> QED
    BY <1>0, <2>1, <2>2, <2>3 DEF VaultThms!backupVars, VaultThms!scriptVars, scriptVars
<1> QED
  BY <1>1, <1>2, <1>3, <1>4, <1>5 DEF Next

LEMMA OperationsInvStep ==
  ASSUME OperationsInv, [Next]_vars PROVE OperationsInv'
<1>1. VaultThms!BackupInv
  BY VaultSame DEF OperationsInv
<1>2. VaultThms!BackupInv'
  BY <1>1, StepsOfBackup, VaultConstants, VaultThms!BackupInvStep
<1> QED
  BY <1>2, StepsOfBackup, VaultSame DEF OperationsInv

LEMMA OperationsInvInit ==
  ASSUME Init
  PROVE  OperationsInv /\ TableCounts \in VaultThms!Counts /\ VaultThms!BackupInit
<1>1. MigrationInv /\ CaptureInv /\ imported \in 0 .. MaxImports /\ crew \in Crews
  BY MigrationInvInit, CaptureInvInit, OperationsBounds DEF Init
<1>2. TableCounts \in VaultThms!Counts /\ VaultThms!BackupInit
  BY <1>1, TableCountsTyped, VaultNextSame DEF Init
<1>3. VaultThms!BackupInv
  BY <1>2, VaultConstants, VaultThms!BackupInvInit
<1> QED
  BY <1>1, <1>2, <1>3, VaultSame DEF OperationsInv

----------------------------------------------------------------------------
(* The invariants of the three scripts hold together in every behaviour of *)
(* them over one database.                                                 *)
THEOREM OperationsInvariant == Spec => []OperationsInv
<1>1. Init => OperationsInv
  BY OperationsInvInit
<1>2. OperationsInv /\ [Next]_vars => OperationsInv'
  BY OperationsInvStep
<1> QED
  BY <1>1, <1>2, PTL DEF Spec

(* The variables of all three scripts and the bounds keep their types.     *)
THEOREM TypeCorrect == Spec => []TypeOK
<1>1. OperationsInv => TypeOK
  BY DEF OperationsInv, MigrationInv, CaptureInv, Vault!BackupInv, TypeOK
<1> QED
  BY <1>1, OperationsInvariant, PTL

(* migrate_compose.sh: recorded migrations have been applied and are a     *)
(* prefix of the files but for those a runner passed over since its input  *)
(* to psql was cut short, and a run passes only when it has recorded or    *)
(* found recorded all the files it did not itself pass over, for any       *)
(* number of runners that overlap or stop anywhere.                        *)
THEOREM SchemaGapsAreCutShort == Spec => []RecordedInOrder
<1>1. OperationsInv => RecordedInOrder
  BY DEF OperationsInv, MigrationInv
<1> QED
  BY <1>1, OperationsInvariant, PTL

(* A file in the runner's own transaction is applied once, when it is      *)
(* recorded, and no file that creates tables is applied twice.             *)
THEOREM MigrationsApplyOnce == Spec => []AppliedOnce
<1>1. OperationsInv => AppliedOnce
  BY DEF OperationsInv, MigrationInv
<1> QED
  BY <1>1, OperationsInvariant, PTL

(* A recorded checksum that is not the file's, and a file that creates     *)
(* tables and was applied without its record, stop every later run of      *)
(* migrate_compose.sh: no file from that one on is recorded any more and   *)
(* no runner reports MIGRATIONS=PASS, unless an input is cut short at that *)
(* very file.                                                              *)
THEOREM BlockedMigrationsStayBlocked == Spec => RunnersBlockedForGood
<1> DEFINE Step ==
             \A m \in Migration :
               StoppedByChecksum(m) \/ HalfApplied(m) =>
                 \/ CutShortAt(m)
                 \/ /\ StoppedByChecksum(m) => StoppedByChecksum(m)'
                    /\ HalfApplied(m) => HalfApplied(m)'
                    /\ NothingPast(m)
<1>1. [Next]_vars => [MigrationNext]_migrationVars
  BY DEF Next, Migrate, CaptureBaseline, ImportCommits, BackUp, vars
<1>2. Init => ChecksumsAreEarlier
  BY DEF Init, MigrationInit, ChecksumsAreEarlier, Recorded
<1>3. OperationsInv /\ ChecksumsAreEarlier /\ [Next]_vars => ChecksumsAreEarlier'
  BY <1>1, ChecksumsStayEarlier DEF OperationsInv
<1>4. OperationsInv /\ ChecksumsAreEarlier /\ [Next]_vars => [Step]_vars
  <2> SUFFICES ASSUME OperationsInv, ChecksumsAreEarlier, [Next]_vars, NEW m \in Migration,
                      StoppedByChecksum(m) \/ HalfApplied(m), ~CutShortAt(m)
               PROVE  /\ StoppedByChecksum(m) => StoppedByChecksum(m)'
                      /\ HalfApplied(m) => HalfApplied(m)'
                      /\ NothingPast(m)
    OBVIOUS
  <2>1. MigrationInv /\ [MigrationNext]_migrationVars
    BY <1>1 DEF OperationsInv
  <2> QED
    BY <2>1, ChecksumStopsRunners, HalfAppliedStopsRunners
<1> QED
  BY <1>2, <1>3, <1>4, OperationsInvariant, PTL DEF Spec, RunnersBlockedForGood

(* capture_household_baseline.sh: any number of captures of any dates, in  *)
(* any order and overlapping, leave one obligation per captured date.      *)
THEOREM CaptureReplacesItsDate == Spec => []OneObligationPerDate
<1>1. OperationsInv => OneObligationPerDate
  BY CaptureInvMeans DEF OperationsInv
<1> QED
  BY <1>1, OperationsInvariant, PTL

(* No capture keeps the latest baseline from counting: neither a           *)
(* backdated one nor one that overlaps it.                                 *)
THEOREM LatestBaselineStays == Spec => []LatestBaselineCounts
<1>1. OperationsInv => LatestBaselineCounts
  BY CaptureInvMeans DEF OperationsInv
<1> QED
  BY <1>1, OperationsInvariant, PTL

(* Captures in the order of their dates leave one obligation that counts.  *)
THEOREM OrderlyCapturesCountOnce == Spec => []SpendCountedOnce
<1>1. OperationsInv => SpendCountedOnce
  BY CaptureInvMeans DEF OperationsInv
<1> QED
  BY <1>1, OperationsInvariant, PTL

(* backup_postgres_compose.sh: scratch databases are left over by failures *)
(* only.                                                                   *)
THEOREM NoUnexplainedLeftovers == Spec => []LeftoversAreExplained
<1>1. OperationsInv => LeftoversAreExplained
  BY DEF OperationsInv, Vault!BackupInv, LeftoversAreExplained
<1> QED
  BY <1>1, OperationsInvariant, PTL

(* The scripts together implement the backup over a database that others   *)
(* only add to.                                                            *)
THEOREM OperationsImplementBackup == Spec => ImplementsBackup
<1>1. Init => TableCounts \in Vault!Counts /\ Vault!BackupInit
  BY OperationsInvInit, VaultNextSame
<1>2. OperationsInv /\ [Next]_vars => [Vault!BackupNext]_(Vault!backupVars)
  <2> SUFFICES ASSUME OperationsInv, [Next]_vars
               PROVE  [Vault!BackupNext]_(Vault!backupVars)
    OBVIOUS
  <2>1. VaultThms!BackupNext \/ VaultThms!backupVars' = VaultThms!backupVars
    BY StepsOfBackup
  <2> QED
    BY <2>1, VaultNextSame
<1> QED
  BY <1>1, <1>2, OperationsInvariant, PTL DEF Spec, ImplementsBackup, Vault!BackupSpec

(* Pruning never loses the rows a verified dump can restore, whatever      *)
(* migrations, captures and imports do meanwhile and however many          *)
(* verifications fail.                                                     *)
THEOREM VerifiedDumpStays == Spec => VerifiedDumpKept
<1>1. OperationsInv /\ [Next]_vars
        => [\A i \in DOMAIN dumps :
              dumps[i].verified
                => \E j \in DOMAIN dumps' : Vault!Restores(dumps'[j], dumps[i])]_dumps
  <2> SUFFICES ASSUME OperationsInv, [Next]_vars, NEW i \in DOMAIN dumps, dumps[i].verified
               PROVE  \E j \in DOMAIN dumps' : Vault!Restores(dumps'[j], dumps[i])
    OBVIOUS
  <2>1. \E j \in DOMAIN dumps' : VaultThms!Restores(dumps'[j], dumps[i])
    BY StepsOfBackup, VaultSame, VaultConstants, VaultThms!KeepsVerifiedDump DEF OperationsInv
  <2> QED
    BY <2>1 DEF Vault!Restores, VaultThms!Restores
<1> QED
  BY <1>1, OperationsInvariant, PTL DEF Spec, VerifiedDumpKept, Vault!VerifiedDumpKept

(* The comparison passes a dump only when it has the row counts that the   *)
(* five counted tables had when the counting began, whichever scripts add  *)
(* rows between the dump and the last count.                               *)
THEOREM PassedCountsAreCurrent == Spec => PassedCountsWereCurrent
<1>1. OperationsInv /\ [Next]_vars
        => [stage = "compare" /\ stage' = "drop" => dumps[Vault!Mine].rows = mark]_stage
  <2> SUFFICES ASSUME OperationsInv, [Next]_vars, stage = "compare", stage' = "drop"
               PROVE  dumps[Vault!Mine].rows = mark
    OBVIOUS
  <2>1. dumps[VaultThms!Mine].rows = mark
    BY StepsOfBackup, VaultSame, VaultConstants, VaultThms!PassesCurrentCounts
       DEF OperationsInv
  <2> QED
    BY <2>1 DEF VaultThms!Mine, Vault!Mine
<1> QED
  BY <1>1, OperationsInvariant, PTL DEF Spec, PassedCountsWereCurrent, Vault!PassedCountsWereCurrent

=============================================================================
