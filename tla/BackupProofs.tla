---------------------------- MODULE BackupProofs ----------------------------
(***************************************************************************)
(* backup_postgres_compose.sh for every set of counted tables, every order *)
(* of counting, every Keep and any number of failures.                     *)
(***************************************************************************)
EXTENDS Backup, TLAPS

LEMMA BackupInvInit ==
  ASSUME BackupConstants, rows \in Counts, BackupInit
  PROVE  BackupInv
BY DEF BackupConstants, Counts, BackupInit, BackupInv, BackupTypeOK, LeftoversAreExplained,
       ScratchIsThere, PruneAfterPass, CountsAreComplete, CountsAreLater, DumpsGrow, Stage,
       WithScratch, HasDump, Mine

LEMMA MineIsADump ==
  ASSUME BackupTypeOK, stage \in HasDump
  PROVE  /\ Mine \in DOMAIN dumps /\ Mine \in Nat /\ DOMAIN dumps = 1 .. Mine
         /\ dumps[Mine] \in [rows : Counts, verified : BOOLEAN]
<1>1. Mine \in Nat /\ Mine > 0 /\ DOMAIN dumps = 1 .. Mine
  BY DEF BackupTypeOK, Mine
<1>2. Mine \in DOMAIN dumps
  BY <1>1
<1> DEFINE D == [rows : Counts, verified : BOOLEAN]
<1>3. dumps \in Seq(D)
  BY DEF BackupTypeOK
<1> HIDE DEF D
<1>4. dumps[Mine] \in D
  BY <1>2, <1>3
<1> QED
  BY <1>1, <1>2, <1>4 DEF D

LEMMA DumpIsADump ==
  ASSUME BackupTypeOK, NEW i \in DOMAIN dumps
  PROVE  dumps[i] \in [rows : Counts, verified : BOOLEAN]
<1> DEFINE D == [rows : Counts, verified : BOOLEAN]
<1>1. dumps \in Seq(D)
  BY DEF BackupTypeOK
<1> HIDE DEF D
<1>2. dumps[i] \in D
  BY <1>1
<1> QED
  BY <1>2 DEF D

LEMMA DumpsGrowSame ==
  ASSUME DumpsGrow, dumps' = dumps, rows' = rows PROVE DumpsGrow'
BY DEF DumpsGrow

(* What the script's own fields and those of the database have to satisfy  *)
(* after a step; most steps touch one of the two.                          *)
LEMMA RestartedInv ==
  ASSUME BackupConstants, BackupInv, rows' = rows, Resets,
         dumps' \in Seq([rows : Counts, verified : BOOLEAN]),
         scratch' \in Nat, slips' \in 0 .. MaxSlips, scratch' <= slips', DumpsGrow'
  PROVE  BackupInv'
<1>1. stage' = "idle" /\ counted' = <<>> /\ mark' \in Counts
  BY DEF Resets, Counts
<1>2. BackupTypeOK'
  BY <1>1 DEF BackupConstants, BackupInv, BackupTypeOK, Stage, HasDump, Mine
<1>3. (LeftoversAreExplained /\ ScratchIsThere /\ PruneAfterPass)'
  <2>1. scratch' \in Nat /\ slips' \in Nat
    BY DEF BackupConstants
  <2> QED
    BY <1>1, <2>1 DEF LeftoversAreExplained, ScratchIsThere, PruneAfterPass, WithScratch
<1>4. (CountsAreComplete /\ CountsAreLater)'
  BY <1>1 DEF CountsAreComplete, CountsAreLater, HasDump, Stage
<1> QED
  BY <1>2, <1>3, <1>4 DEF BackupInv

LEMMA CleanupInv ==
  ASSUME BackupConstants, BackupInv, rows' = rows, Cleanup,
         \/ slips' = slips
         \/ Slips
  PROVE  BackupInv'
<1>1. scratch \in Nat /\ slips \in 0 .. MaxSlips /\ MaxSlips \in Nat
  BY DEF BackupConstants, BackupInv, BackupTypeOK
<1>2. stage \in WithScratch => scratch >= 1
  BY DEF BackupInv, ScratchIsThere
<1>3. scratch' \in Nat /\ slips' \in 0 .. MaxSlips /\ scratch' <= slips'
  BY <1>1, <1>2 DEF Cleanup, Slips, BackupInv, LeftoversAreExplained
<1> QED
  BY <1>3, RestartedInv, DumpsGrowSame DEF Cleanup, BackupInv, BackupTypeOK

----------------------------------------------------------------------------
LEMMA WriteInv == ASSUME BackupConstants, BackupInv, Write PROVE BackupInv'
<1> USE DEF Write, scriptVars, BackupInv
<1>1. BackupTypeOK'
  BY DEF BackupConstants, BackupTypeOK, HasDump, Mine
<1>2. (LeftoversAreExplained /\ ScratchIsThere /\ PruneAfterPass /\ CountsAreComplete)'
  BY DEF LeftoversAreExplained, ScratchIsThere, PruneAfterPass, CountsAreComplete, Mine
<1>3. CountsAreLater'
  <2>1. \A t \in Table : rows[t] \in Nat /\ rows'[t] \in Nat /\ rows'[t] >= rows[t]
                          /\ mark[t] \in Nat
    BY DEF BackupTypeOK, Counts
  <2>2. stage \in HasDump => \A t \in Table : dumps[Mine].rows[t] \in Nat
    BY MineIsADump DEF Counts
  <2> QED
    BY <2>1, <2>2 DEF CountsAreLater, Mine
<1>4. DumpsGrow'
  <2> SUFFICES ASSUME NEW i \in DOMAIN dumps, NEW j \in DOMAIN dumps, i <= j,
                      NEW t \in Table
               PROVE  dumps[i].rows[t] <= dumps[j].rows[t] /\ dumps[j].rows[t] <= rows'[t]
    BY DEF DumpsGrow
  <2>1. dumps[i].rows[t] <= dumps[j].rows[t] /\ dumps[j].rows[t] <= rows[t]
    BY DEF DumpsGrow
  <2>2. dumps[j].rows[t] \in Nat /\ rows[t] \in Nat /\ rows'[t] \in Nat /\ rows[t] <= rows'[t]
    BY DumpIsADump DEF Counts, BackupTypeOK
  <2> QED
    BY <2>1, <2>2
<1> QED
  BY <1>1, <1>2, <1>3, <1>4

LEMMA DumpInv == ASSUME BackupConstants, BackupInv, Dump PROVE BackupInv'
<1> USE DEF BackupInv
<1> DEFINE d == [rows |-> rows, verified |-> FALSE]
<1>1. d \in [rows : Counts, verified : BOOLEAN]
  BY DEF BackupTypeOK
<1>2. /\ dumps' = Append(dumps, d) /\ dumps' \in Seq([rows : Counts, verified : BOOLEAN])
      /\ Mine' = Mine + 1 /\ Mine \in Nat /\ dumps'[Mine'] = d
  BY <1>1 DEF BackupTypeOK, Dump, Mine
<1>3. counted = <<>> /\ counted' = <<>> /\ stage' = "count" /\ rows' = rows
      /\ mark' = mark
  BY DEF Dump, CountsAreComplete
<1>4. BackupTypeOK'
  BY <1>2, <1>3 DEF BackupConstants, BackupTypeOK, Dump, Stage, HasDump
<1>5. (LeftoversAreExplained /\ ScratchIsThere /\ PruneAfterPass /\ CountsAreComplete)'
  BY <1>3 DEF LeftoversAreExplained, ScratchIsThere, PruneAfterPass, CountsAreComplete,
              WithScratch, Dump
<1>6. CountsAreLater'
  <2>1. \A t \in Table : rows[t] \in Nat
    BY DEF BackupTypeOK, Counts
  <2>2. dumps'[Mine'].rows = rows
    <3>1. d.rows = rows
      OBVIOUS
    <3> HIDE DEF d
    <3> QED
      BY <1>2, <3>1
  <2> QED
    BY <1>3, <2>1, <2>2 DEF CountsAreLater
<1>7. DumpsGrow'
  <2>1. \A t \in Table : rows[t] \in Nat
    BY DEF BackupTypeOK, Counts
  <2>2. d.rows = rows
    OBVIOUS
  <2> HIDE DEF d
  <2>3. DOMAIN dumps' = 1 .. (Mine + 1) /\ DOMAIN dumps = 1 .. Mine
        /\ \A i \in DOMAIN dumps : dumps'[i] = dumps[i]
        /\ dumps'[Mine + 1] = d
    BY <1>1, <1>2 DEF Mine, BackupTypeOK
  <2>n. dumps'[Mine + 1].rows = rows
    BY <1>2, <2>2
  <2> SUFFICES ASSUME NEW i \in 1 .. (Mine + 1), NEW j \in 1 .. (Mine + 1), i <= j,
                      NEW t \in Table
               PROVE  dumps'[i].rows[t] <= dumps'[j].rows[t] /\ dumps'[j].rows[t] <= rows[t]
    BY <1>3, <2>3 DEF DumpsGrow
  <2>m. Mine \in Nat
    BY <1>2
  <2>4. CASE j \in 1 .. Mine
    <3>1. i \in 1 .. Mine
      BY <2>m, <2>4
    <3> QED
      BY <2>3, <2>4, <3>1 DEF DumpsGrow
  <2>5. CASE j = Mine + 1 /\ i \in 1 .. Mine
    BY <2>1, <2>2, <2>3, <2>5 DEF DumpsGrow
  <2>6. CASE j = Mine + 1 /\ i = Mine + 1
    <3>1. dumps'[i].rows = rows /\ dumps'[j].rows = rows
      BY <2>n, <2>6
    <3>2. rows[t] <= rows[t]
      BY <2>1
    <3> QED
      BY <3>1, <3>2
  <2> QED
    BY <2>m, <2>4, <2>5, <2>6
<1> QED
  BY <1>4, <1>5, <1>6, <1>7

LEMMA CountNextInv == ASSUME BackupConstants, BackupInv, CountNext PROVE BackupInv'
<1> USE DEF BackupInv
<1> DEFINE n == rows[CountOrder[Len(counted) + 1]]
<1>1. counted \in Seq(Nat) /\ Len(counted) \in Nat /\ Len(counted) < Len(CountOrder)
      /\ CountOrder[Len(counted) + 1] \in Table
  BY DEF BackupConstants, BackupTypeOK, CountNext
<1>2. n \in Nat
  BY <1>1 DEF BackupTypeOK, Counts
<1>3. /\ counted' = Append(counted, n) /\ counted' \in Seq(Nat)
      /\ Len(counted') = Len(counted) + 1 /\ counted' # <<>>
      /\ \A i \in DOMAIN counted : counted'[i] = counted[i] /\ i \in 1 .. Len(counted)
      /\ counted'[Len(counted) + 1] = n
      /\ DOMAIN counted' = 1 .. (Len(counted) + 1)
      /\ DOMAIN counted = 1 .. Len(counted)
  BY <1>1, <1>2 DEF CountNext
<1>4. rows' = rows /\ dumps' = dumps /\ Mine' = Mine /\ scratch' = scratch /\ slips' = slips
      /\ stage = "count" /\ stage' \in {"count", "create"}
      /\ (stage' = "create" => Len(counted') = Len(CountOrder))
  BY DEF CountNext, Mine
<1>5. mark' \in Counts
  BY DEF CountNext, BackupTypeOK
<1>6. BackupTypeOK'
  BY <1>1, <1>3, <1>4, <1>5 DEF BackupConstants, BackupTypeOK, Stage, HasDump, Mine
<1>7. (LeftoversAreExplained /\ ScratchIsThere /\ PruneAfterPass /\ CountsAreComplete)'
  BY <1>4 DEF LeftoversAreExplained, ScratchIsThere, PruneAfterPass, CountsAreComplete,
              WithScratch
<1>8. \A t \in Table : mark'[t] \in Nat /\ rows[t] \in Nat /\ mark'[t] <= rows[t]
  BY <1>5 DEF CountNext, CountsAreLater, BackupTypeOK, Counts
<1>9. CountsAreLater'
  <2>1. \A t \in Table : dumps[Mine].rows[t] <= mark'[t]
    BY <1>4 DEF CountNext, CountsAreLater, HasDump, Stage
  <2>2. \A i \in DOMAIN counted' : mark'[CountOrder[i]] <= counted'[i]
    <3> SUFFICES ASSUME NEW i \in 1 .. (Len(counted) + 1)
                 PROVE  mark'[CountOrder[i]] <= counted'[i]
      BY <1>3
    <3>1. CASE i \in 1 .. Len(counted)
      <4>1. mark' = mark
        BY <3>1 DEF CountNext
      <4> QED
        BY <1>3, <3>1, <4>1 DEF CountsAreLater
    <3>2. CASE i = Len(counted) + 1
      BY <1>1, <1>3, <1>8, <3>2
    <3> QED
      BY <1>1, <3>1, <3>2
  <2> QED
    BY <1>3, <1>4, <1>8, <2>1, <2>2 DEF CountsAreLater
<1> QED
  BY <1>4, <1>6, <1>7, <1>9, DumpsGrowSame

LEMMA CreateScratchInv ==
  ASSUME BackupConstants, BackupInv, CreateScratch PROVE BackupInv'
<1> USE DEF BackupInv
<1>1. scratch \in Nat /\ scratch' = scratch + 1 /\ slips \in 0 .. MaxSlips /\ stage = "create"
      /\ rows' = rows /\ dumps' = dumps /\ Mine' = Mine /\ MaxSlips \in Nat
  BY DEF BackupConstants, BackupTypeOK, CreateScratch, Mine
<1>2. CASE stage' = "restore" /\ UNCHANGED <<counted, mark, slips>>
  <2>1. BackupTypeOK'
    BY <1>1, <1>2 DEF BackupTypeOK, Stage, HasDump
  <2>2. (LeftoversAreExplained /\ ScratchIsThere /\ PruneAfterPass)'
    BY <1>1, <1>2 DEF LeftoversAreExplained, ScratchIsThere, PruneAfterPass, WithScratch
  <2>3. (CountsAreComplete /\ CountsAreLater)'
    BY <1>1, <1>2 DEF CountsAreComplete, CountsAreLater, HasDump, Stage
  <2> QED
    BY <1>1, <2>1, <2>2, <2>3, DumpsGrowSame
<1>3. CASE Slips /\ Resets
  <2>1. scratch <= slips
    BY <1>1 DEF LeftoversAreExplained, WithScratch
  <2>2. scratch' \in Nat /\ slips' \in 0 .. MaxSlips /\ scratch' <= slips'
    BY <1>1, <1>3, <2>1 DEF Slips
  <2> QED
    BY <1>1, <1>3, <2>2, RestartedInv, DumpsGrowSame DEF BackupTypeOK
<1> QED
  BY <1>2, <1>3 DEF CreateScratch

LEMMA CompareInv == ASSUME BackupConstants, BackupInv, Compare PROVE BackupInv'
<1> USE DEF BackupInv
<1>1. stage = "compare" /\ rows' = rows /\ slips' = slips
  BY DEF Compare
<1>2. CASE Accepts
  <2>1. /\ stage' = "drop" /\ counted' = counted /\ mark' = mark /\ scratch' = scratch
        /\ Mine \in Nat /\ Mine > 0 /\ Mine \in DOMAIN dumps
    BY <1>1, <1>2 DEF Accepts, BackupTypeOK, HasDump, Stage, Mine
  <2>2. /\ dumps' = [dumps EXCEPT ![Mine].verified = TRUE]
        /\ dumps' \in Seq([rows : Counts, verified : BOOLEAN]) /\ Mine' = Mine
        /\ dumps'[Mine].rows = dumps[Mine].rows /\ dumps'[Mine].verified = TRUE
    <3> DEFINE D == [rows : Counts, verified : BOOLEAN]
               d == [dumps[Mine] EXCEPT !.verified = TRUE]
    <3>1. dumps \in Seq(D) /\ dumps[Mine] \in D /\ DOMAIN dumps = 1 .. Mine
      BY <1>1, MineIsADump DEF BackupTypeOK, HasDump, Stage
    <3>2. d \in D /\ d.rows = dumps[Mine].rows /\ d.verified = TRUE
      BY <3>1
    <3>3. dumps' = [dumps EXCEPT ![Mine] = d]
      BY <1>2 DEF Accepts
    <3> HIDE DEF d, D
    <3>4. dumps' \in Seq(D) /\ Len(dumps') = Len(dumps) /\ dumps'[Mine] = d
      BY <2>1, <3>1, <3>2, <3>3
    <3> QED
      BY <1>2, <3>2, <3>4 DEF Accepts, D, Mine
  <2>3. BackupTypeOK'
    BY <1>1, <2>1, <2>2 DEF BackupTypeOK, Stage, HasDump
  <2>4. (LeftoversAreExplained /\ ScratchIsThere /\ PruneAfterPass)'
    BY <1>1, <2>1, <2>2 DEF LeftoversAreExplained, ScratchIsThere, PruneAfterPass,
                            WithScratch
  <2>5. (CountsAreComplete /\ CountsAreLater)'
    BY <1>1, <2>1, <2>2 DEF CountsAreComplete, CountsAreLater, HasDump, Stage
  <2>6. DumpsGrow'
    BY <1>1, <1>2, <2>1, <2>2 DEF DumpsGrow
  <2> QED
    BY <2>3, <2>4, <2>5, <2>6
<1>3. CASE Cleanup
  BY <1>1, <1>3, CleanupInv
<1> QED
  BY <1>2, <1>3 DEF Compare

LEMMA PruneInv == ASSUME BackupConstants, BackupInv, Prune PROVE BackupInv'
<1>1. dumps \in Seq([rows : Counts, verified : BOOLEAN]) /\ Mine \in Nat /\ Keep \in Nat \ {0}
  BY DEF BackupConstants, BackupInv, BackupTypeOK, Mine
<1>2. dumps' \in Seq([rows : Counts, verified : BOOLEAN])
  <2>1. CASE Mine <= Keep
    BY <1>1, <2>1 DEF Prune
  <2>2. CASE Mine > Keep
    BY <1>1, <2>2 DEF Prune, Mine
  <2> QED
    BY <1>1, <2>1, <2>2
<1>3. scratch' = scratch /\ slips' = slips /\ scratch \in Nat /\ slips \in 0 .. MaxSlips
      /\ scratch <= slips
  BY DEF BackupConstants, Prune, BackupInv, BackupTypeOK, LeftoversAreExplained, WithScratch
<1>4. DumpsGrow'
  <2>1. CASE Mine <= Keep
    BY <2>1, DumpsGrowSame DEF Prune, BackupInv
  <2>2. CASE Mine > Keep
    <3>1. DOMAIN dumps' = 1 .. Keep /\ DOMAIN dumps = 1 .. Mine
          /\ \A i \in 1 .. Keep :
               i + (Mine - Keep) \in DOMAIN dumps /\ dumps'[i] = dumps[i + (Mine - Keep)]
      BY <1>1, <2>2 DEF Prune, Mine
    <3> SUFFICES ASSUME NEW i \in 1 .. Keep, NEW j \in 1 .. Keep, i <= j, NEW t \in Table
                 PROVE  /\ dumps'[i].rows[t] <= dumps'[j].rows[t]
                        /\ dumps'[j].rows[t] <= rows[t]
      BY <3>1 DEF DumpsGrow, Prune
    <3>2. i + (Mine - Keep) <= j + (Mine - Keep)
      BY <1>1
    <3> QED
      BY <3>1, <3>2 DEF BackupInv, DumpsGrow
  <2> QED
    BY <1>1, <2>1, <2>2
<1> QED
  BY <1>2, <1>3, <1>4, RestartedInv DEF Prune

LEMMA CallFailsInv == ASSUME BackupConstants, BackupInv, CallFails PROVE BackupInv'
<1>1. scratch \in Nat /\ slips \in 0 .. MaxSlips /\ MaxSlips \in Nat /\ Slips
      /\ scratch <= slips + 1
  BY DEF BackupConstants, BackupInv, BackupTypeOK, LeftoversAreExplained, CallFails
<1>2. CASE Cleanup
  BY <1>1, <1>2, CleanupInv DEF CallFails
<1>3. CASE Resets /\ UNCHANGED <<dumps, scratch>>
  <2>1. scratch' \in Nat /\ slips' \in 0 .. MaxSlips /\ scratch' <= slips'
    BY <1>1, <1>3 DEF Slips
  <2> QED
    BY <1>3, <2>1, RestartedInv, DumpsGrowSame DEF CallFails, BackupInv, BackupTypeOK
<1> QED
  BY <1>2, <1>3 DEF CallFails

(* The steps that only move on. *)
LEMMA MovesOnInv ==
  ASSUME BackupConstants, BackupInv, BeginBackup \/ Restore \/ DropScratch
  PROVE  BackupInv'
<1> USE DEF BackupInv
<1>1. rows' = rows /\ dumps' = dumps /\ counted' = counted /\ mark' = mark /\ slips' = slips
      /\ Mine' = Mine
  BY DEF BeginBackup, Restore, DropScratch, Mine
<1>2. scratch \in Nat /\ slips \in Nat /\ (stage \in WithScratch => scratch >= 1)
  BY DEF BackupConstants, BackupTypeOK, ScratchIsThere
<1>3. BackupTypeOK'
  BY <1>1, <1>2 DEF BackupTypeOK, BeginBackup, Restore, DropScratch, Stage, HasDump,
                    WithScratch
<1>4. (LeftoversAreExplained /\ ScratchIsThere /\ PruneAfterPass)'
  BY <1>1, <1>2 DEF LeftoversAreExplained, ScratchIsThere, PruneAfterPass, WithScratch,
                    BeginBackup, Restore, DropScratch
<1>5. (CountsAreComplete /\ CountsAreLater)'
  BY <1>1 DEF CountsAreComplete, CountsAreLater, HasDump, Stage, BeginBackup, Restore,
              DropScratch
<1> QED
  BY <1>1, <1>3, <1>4, <1>5, DumpsGrowSame

(* BackupInv is inductive: every step of the script, a failure anywhere    *)
(* and a write to production keep it.                                      *)
THEOREM BackupInvStep ==
  ASSUME BackupConstants, BackupInv, [BackupNext]_backupVars
  PROVE  BackupInv'
<1>1. CASE UNCHANGED backupVars
  BY <1>1 DEF backupVars, scriptVars, BackupInv, BackupTypeOK, LeftoversAreExplained,
              ScratchIsThere, PruneAfterPass, CountsAreComplete, CountsAreLater, DumpsGrow,
              Mine
<1>2. CASE Write
  BY <1>2, WriteInv
<1>3. CASE BackupStep
  BY <1>3, MovesOnInv, DumpInv, CountNextInv, CreateScratchInv, CompareInv, PruneInv
     DEF BackupStep
<1>4. CASE CallFails
  BY <1>4, CallFailsInv
<1> QED
  BY <1>1, <1>2, <1>3, <1>4 DEF BackupNext

(* What a step may not do, VerifiedDumpKept and PassedCountsWereCurrent.   *)
LEMMA KeepsVerifiedDump ==
  ASSUME BackupConstants, BackupInv, [BackupNext]_backupVars,
         NEW i \in DOMAIN dumps, dumps[i].verified
  PROVE  \E j \in DOMAIN dumps' : Restores(dumps'[j], dumps[i])
<1>1. \A t \in Table : dumps[i].rows[t] \in Nat
  BY DumpIsADump DEF BackupInv, Counts
<1>2. dumps \in Seq([rows : Counts, verified : BOOLEAN]) /\ Mine \in Nat
      /\ i \in 1 .. Mine /\ DOMAIN dumps = 1 .. Mine /\ Keep \in Nat \ {0}
  BY DEF BackupConstants, BackupInv, BackupTypeOK, Mine
<1>k. ASSUME i \in DOMAIN dumps', dumps'[i].verified, dumps'[i].rows = dumps[i].rows
      PROVE  \E j \in DOMAIN dumps' : Restores(dumps'[j], dumps[i])
  BY <1>1, <1>k DEF Restores
<1>3. CASE dumps' = dumps
  BY <1>3, <1>k
<1>4. CASE Dump
  <2>1. i \in DOMAIN dumps' /\ dumps'[i] = dumps[i]
    BY <1>2, <1>4 DEF Dump, Mine, BackupInv, BackupTypeOK
  <2> QED
    BY <2>1, <1>k
<1>5. CASE Accepts
  <2>1. i \in DOMAIN dumps' /\ dumps'[i].verified /\ dumps'[i].rows = dumps[i].rows
    <3>1. CASE i = Mine
      <4> DEFINE d == [dumps[Mine] EXCEPT !.verified = TRUE]
      <4>1. dumps[Mine] \in [rows : Counts, verified : BOOLEAN]
        BY <3>1, DumpIsADump DEF BackupInv
      <4>2. d.verified = TRUE /\ d.rows = dumps[Mine].rows
        BY <4>1
      <4>3. dumps' = [dumps EXCEPT ![Mine] = d]
        BY <1>5 DEF Accepts
      <4> HIDE DEF d
      <4> QED
        BY <1>2, <3>1, <4>2, <4>3
    <3>2. CASE i # Mine
      BY <1>2, <1>5, <3>2 DEF Accepts
    <3> QED
      BY <3>1, <3>2
  <2> QED
    BY <2>1, <1>k
<1>6. CASE Prune
  <2>1. dumps[Mine].verified
    BY <1>6 DEF BackupInv, PruneAfterPass, Prune
  <2>2. CASE Mine <= Keep
    BY <1>3, <1>6, <2>2 DEF Prune
  <2>3. CASE Mine > Keep
    <3>1. Keep \in DOMAIN dumps' /\ dumps'[Keep] = dumps[Mine]
      BY <1>2, <1>6, <2>3 DEF Prune, Mine
    <3>2. Restores(dumps[Mine], dumps[i])
      BY <1>2, <2>1 DEF BackupInv, DumpsGrow, Restores
    <3> QED
      BY <3>1, <3>2
  <2> QED
    BY <1>2, <2>2, <2>3
<1> QED
  BY <1>3, <1>4, <1>5, <1>6
     DEF backupVars, scriptVars, BackupNext, Write, BackupStep, BeginBackup, CountNext,
         CreateScratch, Restore, Compare, DropScratch, CallFails, Cleanup

LEMMA PassesCurrentCounts ==
  ASSUME BackupConstants, BackupInv, [BackupNext]_backupVars,
         stage = "compare", stage' = "drop"
  PROVE  dumps[Mine].rows = mark
<1>1. Compare /\ Accepts
  BY DEF backupVars, scriptVars, BackupNext, Write, BackupStep, BeginBackup, Dump, CountNext,
         CreateScratch, Restore, Compare, DropScratch, Prune, CallFails, Cleanup, Resets
<1>2. \A j \in DOMAIN CountOrder : dumps[Mine].rows[CountOrder[j]] = counted[j]
  BY <1>1 DEF Compare, Cleanup, Resets
<1>3. dumps[Mine].rows \in Counts /\ mark \in Counts
  <2>1. BackupTypeOK /\ stage \in HasDump
    BY DEF BackupInv, HasDump, Stage
  <2> QED
    BY <2>1, MineIsADump DEF BackupTypeOK
<1>4. DOMAIN counted = DOMAIN CountOrder
  BY DEF BackupConstants, BackupInv, BackupTypeOK, CountsAreComplete
<1>5. \A t \in Table : dumps[Mine].rows[t] = mark[t]
  <2> SUFFICES ASSUME NEW t \in Table PROVE dumps[Mine].rows[t] = mark[t]
    OBVIOUS
  <2>1. PICK j \in DOMAIN CountOrder : t = CountOrder[j]
    BY DEF BackupConstants
  <2>2. counted # <<>>
    BY <1>4, <2>1
  <2>3. dumps[Mine].rows[t] <= mark[t] /\ mark[t] <= counted[j]
    BY <1>4, <2>1, <2>2 DEF BackupInv, CountsAreLater, HasDump, Stage
  <2>4. dumps[Mine].rows[t] \in Nat /\ mark[t] \in Nat
    BY <1>3 DEF Counts
  <2> QED
    BY <1>2, <2>1, <2>3, <2>4
<1> QED
  BY <1>3, <1>5 DEF Counts

----------------------------------------------------------------------------
(* backup_postgres_compose.sh: the invariant holds in every behaviour; in  *)
(* particular scratch databases are left over by failures only.            *)
THEOREM BackupSafety ==
  ASSUME BackupConstants
  PROVE  BackupSpec => [](BackupInv /\ LeftoversAreExplained)
<1>1. rows \in Counts /\ BackupInit => BackupInv
  BY BackupInvInit
<1>2. BackupInv /\ [BackupNext]_backupVars => BackupInv'
  BY BackupInvStep
<1>3. BackupInv => LeftoversAreExplained
  BY DEF BackupInv
<1> QED
  BY <1>1, <1>2, <1>3, PTL DEF BackupSpec

(* What a verified dump can restore, some verified dump can ever after.    *)
THEOREM BackupKeepsVerifiedDump ==
  ASSUME BackupConstants
  PROVE  BackupSpec => VerifiedDumpKept
<1>1. BackupInv /\ [BackupNext]_backupVars
        => [\A i \in DOMAIN dumps :
              dumps[i].verified => \E j \in DOMAIN dumps' : Restores(dumps'[j], dumps[i])]_dumps
  BY KeepsVerifiedDump
<1> QED
  BY <1>1, BackupSafety, PTL DEF BackupSpec, VerifiedDumpKept

(* A dump that passes has the row counts of production from when the       *)
(* counting began.                                                         *)
THEOREM BackupPassesCurrentCounts ==
  ASSUME BackupConstants
  PROVE  BackupSpec => PassedCountsWereCurrent
<1>1. BackupInv /\ [BackupNext]_backupVars
        => [stage = "compare" /\ stage' = "drop" => dumps[Mine].rows = mark]_stage
  BY PassesCurrentCounts
<1> QED
  BY <1>1, BackupSafety, PTL DEF BackupSpec, PassedCountsWereCurrent

=============================================================================
