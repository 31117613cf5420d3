------------------------ MODULE DriveCollectorProofs ------------------------
(***************************************************************************)
(* DriveCollector's safety for every set of events, page size and failure  *)
(* bound.  CollectorInv is inductive: each action keeps each of its parts, *)
(* and so does a step of the environment that only adds files, which is    *)
(* all that RelayPipeline's phone does to the collector.                   *)
(***************************************************************************)
EXTENDS DriveCollector, FiniteSetTheorems, TLAPS

(* The collections the cycle counts are finite.                            *)
LEMMA FiniteParts ==
  ASSUME TypeOK
  PROVE  /\ \A S \in SUBSET ((1 .. Len(uploads)) \X Event) :
              IsFiniteSet(S) /\ Cardinality(S) \in Nat
         /\ IsFiniteSet(mine) /\ Cardinality(mine) \in Nat
<1>1. IsFiniteSet((1 .. Len(uploads)) \X Event)
  <2>1. Len(uploads) \in Nat
    BY DEF TypeOK
  <2>2. IsFiniteSet(1 .. Len(uploads))
    BY <2>1, FS_Interval
  <2> QED
    BY <2>2, EventAssumption, FS_Product
<1>2. mine \in SUBSET Event
  BY DEF TypeOK
<1> QED
  BY <1>1, <1>2, EventAssumption, FS_Subset, FS_CardinalityType

(* The files of a page are files; those it matches are not foreign.        *)
LEMMA MatchedFiles == Matched \subseteq Folder /\ Folder \subseteq 1 .. Len(uploads)
BY DEF Matched, Page, Folder

(* What a page of readable files holds.                                    *)
LEMMA ObservationsOfFiles ==
  ASSUME TypeOK, NEW files \in SUBSET (1 .. Len(uploads))
  PROVE  /\ Observations(files) \subseteq (1 .. Len(uploads)) \X Event
         /\ \A o \in Observations(files) :
              o[1] \in files /\ o[2] \in uploads[o[1]].events
         /\ EventsIn(files) \subseteq {o[2] : o \in Observations(files)}
<1>1. \A f \in files : uploads[f] \in DriveFile
  BY DEF TypeOK
<1>2. \A f \in files : uploads[f].events \subseteq Event
  BY <1>1 DEF DriveFile
<1>3. \A o \in Observations(files) :
        \E f \in files : \E e \in uploads[f].events : o = <<f, e>>
  BY DEF Observations
<1>4. \A f \in files : \A e \in uploads[f].events : <<f, e>> \in Observations(files)
  BY DEF Observations
<1>5. EventsIn(files) \subseteq {o[2] : o \in Observations(files)}
  <2> SUFFICES ASSUME NEW f \in files, NEW e \in uploads[f].events
               PROVE  \E o \in Observations(files) : e = o[2]
    BY DEF EventsIn
  <2> QED
    BY <1>4
<1> QED
  BY <1>2, <1>3, <1>5

(* A failure is counted below its bound.                                   *)
LEMMA FailureCount ==
  ASSUME TypeOK, Fails
  PROVE  failures' \in 0 .. MaxFailures /\ failures' = failures + 1
BY CollectorBounds DEF TypeOK, Fails

THEOREM CollectorInvInit == Init => CollectorInv
<1> SUFFICES ASSUME Init PROVE CollectorInv
  OBVIOUS
<1> USE DEF Init, CollectorInit
<1>1. TypeOK
  <2>1. uploads \in Seq(DriveFile)
    OBVIOUS
  <2>2. tally \in [seen : Nat, imported : Nat, ignored : Nat]
    BY DEF NoTally
  <2>3. source \in [due : BOOLEAN, healthy : BOOLEAN]
    OBVIOUS
  <2> QED
    BY <2>1, <2>2, <2>3, CollectorBounds DEF TypeOK, CollectorPc
<1>2. DeletedOnlyAfterStaged /\ StagedCameFromDrive
  BY DEF DeletedOnlyAfterStaged, StagedCameFromDrive, EventsIn
<1>3. OpenRunsAreExplained /\ RunRowIsOpen
  BY DEF OpenRunsAreExplained, RunRowIsOpen
<1>4. ListingIsReadable /\ TodoIsReadable /\ PageAccountedFor
  BY DEF ListingIsReadable, TodoIsReadable, PageAccountedFor
<1>5. NothingLeftToDo /\ RunStartsClean /\ CountsAddUp
  BY DEF NothingLeftToDo, RunStartsClean, CountsAddUp, NoTally
<1>6. MineIsStaged
  BY DEF MineIsStaged
<1> QED
  BY <1>1, <1>2, <1>3, <1>4, <1>5, <1>6 DEF CollectorInv

(* Files that only arrive disturb nothing: no old file changes.            *)
THEOREM CollectorInvArrival ==
  ASSUME CollectorInv, UNCHANGED collectorVars,
         uploads' \in Seq(DriveFile), Len(uploads) <= Len(uploads'),
         \A f \in 1 .. Len(uploads) : uploads'[f] = uploads[f]
  PROVE  CollectorInv'
<1> USE DEF CollectorInv, collectorVars, sourceVars, runVars
<1>1. Len(uploads) \in Nat /\ Len(uploads') \in Nat
  BY DEF TypeOK
<1>2. 1 .. Len(uploads) \subseteq 1 .. Len(uploads')
  BY <1>1
<1>3. TypeOK'
  BY <1>2, Zenon DEF TypeOK
<1>4. deleted \subseteq 1 .. Len(uploads) /\ listing \subseteq 1 .. Len(uploads)
  BY DEF TypeOK
<1>5. \A o \in todo : o[1] \in 1 .. Len(uploads)
  BY DEF TypeOK
<1>6. EventsIn(deleted)' = EventsIn(deleted) /\ EventsIn(listing)' = EventsIn(listing)
  BY <1>4 DEF EventsIn
<1>7. DeletedOnlyAfterStaged'
  BY <1>6 DEF DeletedOnlyAfterStaged
<1>8. StagedCameFromDrive'
  BY <1>2 DEF StagedCameFromDrive, EventsIn
<1>9. OpenRunsAreExplained' /\ RunRowIsOpen'
  BY DEF OpenRunsAreExplained, RunRowIsOpen
<1>10. ListingIsReadable'
  BY <1>4 DEF ListingIsReadable
<1>11. TodoIsReadable'
  BY <1>5 DEF TodoIsReadable
<1>12. PageAccountedFor'
  BY <1>6 DEF PageAccountedFor
<1>13. NothingLeftToDo' /\ RunStartsClean' /\ CountsAddUp' /\ MineIsStaged'
  BY DEF NothingLeftToDo, RunStartsClean, CountsAddUp, MineIsStaged
<1> QED
  BY <1>3, <1>7, <1>8, <1>9, <1>10, <1>11, <1>12, <1>13

(* A step that ends the cycle leaves only the facts about rows and files   *)
(* to show.                                                                *)
LEMMA CycleEndsClean ==
  ASSUME CollectorInv, CycleEnds, UNCHANGED uploads
  PROVE  /\ pc' \in CollectorPc
         /\ listing' \subseteq 1 .. Len(uploads')
         /\ todo' \subseteq (1 .. Len(uploads')) \X Event
         /\ mine' \subseteq Event
         /\ tally' \in [seen : Nat, imported : Nat, ignored : Nat]
         /\ RunRowIsOpen' /\ ListingIsReadable' /\ TodoIsReadable'
         /\ PageAccountedFor' /\ NothingLeftToDo'
         /\ RunStartsClean' /\ CountsAddUp' /\ MineIsStaged'
<1> USE DEF CycleEnds
<1>1. pc' \in CollectorPc /\ tally' \in [seen : Nat, imported : Nat, ignored : Nat]
  BY DEF CollectorPc, NoTally
<1>2. RunRowIsOpen' /\ ListingIsReadable' /\ TodoIsReadable'
  BY DEF RunRowIsOpen, ListingIsReadable, TodoIsReadable
<1>3. /\ PageAccountedFor' /\ NothingLeftToDo' /\ RunStartsClean' /\ CountsAddUp'
      /\ MineIsStaged'
  BY DEF PageAccountedFor, NothingLeftToDo, RunStartsClean, CountsAddUp, MineIsStaged
<1> QED
  BY <1>1, <1>2, <1>3

(* An exception inside the try leads to fail_run with nothing else changed.*)
LEMMA RunStops ==
  ASSUME CollectorInv, pc \in {"collect", "insert", "complete"}, pc' = "fail",
         Fails \/ UNCHANGED failures,
         UNCHANGED <<uploads, deleted, staged, sourceVars, listing, todo, mine, tally>>
  PROVE  CollectorInv'
<1> USE DEF CollectorInv, sourceVars
<1>1. failures' \in 0 .. MaxFailures /\ failures' >= failures
  BY FailureCount, CollectorBounds DEF TypeOK
<1>2. TypeOK'
  BY <1>1 DEF TypeOK, CollectorPc
<1>3. DeletedOnlyAfterStaged' /\ StagedCameFromDrive'
  BY DEF DeletedOnlyAfterStaged, StagedCameFromDrive, EventsIn
<1>4. OpenRunsAreExplained' /\ RunRowIsOpen'
  <2>1. openRuns \in Nat /\ failures \in Nat /\ failures' \in Nat
    BY <1>1, CollectorBounds DEF TypeOK
  <2>2. openRuns <= failures + 1 /\ openRuns >= 1
    BY DEF OpenRunsAreExplained, RunRowIsOpen
  <2>3. openRuns' = openRuns /\ failures' >= failures
    BY <1>1
  <2>4. openRuns' <= failures' + 1
    <3>1. \A a, b, c \in Nat : a <= b + 1 /\ c >= b => a <= c + 1
      OBVIOUS
    <3> QED
      BY <2>1, <2>2, <2>3, <3>1, Zenon
  <2> QED
    BY <2>2, <2>3, <2>4 DEF OpenRunsAreExplained, RunRowIsOpen
<1>5. ListingIsReadable' /\ TodoIsReadable'
  BY DEF ListingIsReadable, TodoIsReadable
<1>6. /\ PageAccountedFor' /\ NothingLeftToDo' /\ RunStartsClean' /\ CountsAddUp'
      /\ MineIsStaged'
  BY DEF PageAccountedFor, NothingLeftToDo, RunStartsClean, CountsAddUp, MineIsStaged
<1> QED
  BY <1>2, <1>3, <1>4, <1>5, <1>6

THEOREM CollectorInvStep == CollectorInv /\ CollectorNext => CollectorInv'
<1> SUFFICES ASSUME CollectorInv, CollectorNext PROVE CollectorInv'
  OBVIOUS
<1>t. /\ TypeOK
      /\ DeletedOnlyAfterStaged /\ StagedCameFromDrive /\ OpenRunsAreExplained
      /\ RunRowIsOpen /\ ListingIsReadable /\ TodoIsReadable
      /\ PageAccountedFor /\ NothingLeftToDo
      /\ RunStartsClean /\ CountsAddUp /\ MineIsStaged
  BY DEF CollectorInv
<1>f. failures \in Nat /\ openRuns \in Nat
  BY <1>t, CollectorBounds DEF TypeOK
<1> USE DEF sourceVars, runVars
<1>1. CASE CadenceElapses
  <2>1. TypeOK'
    BY <1>t, <1>1 DEF CadenceElapses, TypeOK
  <2>2. DeletedOnlyAfterStaged' /\ StagedCameFromDrive' /\ OpenRunsAreExplained'
    BY <1>t, <1>1 DEF CadenceElapses, DeletedOnlyAfterStaged, StagedCameFromDrive,
                      EventsIn, OpenRunsAreExplained
  <2>3. /\ RunRowIsOpen' /\ ListingIsReadable' /\ TodoIsReadable'
        /\ PageAccountedFor' /\ NothingLeftToDo'
    BY <1>t, <1>1 DEF CadenceElapses, RunRowIsOpen, ListingIsReadable,
                      TodoIsReadable, PageAccountedFor, EventsIn, NothingLeftToDo
  <2>4. RunStartsClean' /\ CountsAddUp' /\ MineIsStaged'
    BY <1>t, <1>1 DEF CadenceElapses, RunStartsClean, CountsAddUp, MineIsStaged
  <2> QED
    BY <2>1, <2>2, <2>3, <2>4 DEF CollectorInv
<1>2. CASE BeginRun
  <2>i. pc = "idle" /\ pc' = "collect" /\ openRuns' = openRuns + 1
    BY <1>2 DEF BeginRun
  <2>u. UNCHANGED <<uploads, deleted, staged, listing, todo, mine, tally, failures>>
    BY <1>2 DEF BeginRun
  <2>1. TypeOK'
    <3>1. source' \in [due : BOOLEAN, healthy : BOOLEAN]
      BY <1>t, <1>2 DEF BeginRun, TypeOK
    <3>2. openRuns' \in Nat
      BY <1>f, <2>i
    <3> QED
      BY <1>t, <2>i, <2>u, <3>1, <3>2 DEF TypeOK, CollectorPc
  <2>2. DeletedOnlyAfterStaged' /\ StagedCameFromDrive'
    BY <1>t, <2>u DEF DeletedOnlyAfterStaged, StagedCameFromDrive, EventsIn
  <2>3. OpenRunsAreExplained' /\ RunRowIsOpen'
    BY <1>t, <1>f, <2>i, <2>u DEF OpenRunsAreExplained, RunRowIsOpen
  <2>4. ListingIsReadable' /\ TodoIsReadable'
    BY <1>t, <2>u DEF ListingIsReadable, TodoIsReadable
  <2>5. PageAccountedFor' /\ NothingLeftToDo' /\ CountsAddUp'
    BY <2>i DEF PageAccountedFor, NothingLeftToDo, CountsAddUp
  <2>6. RunStartsClean' /\ MineIsStaged'
    BY <1>t, <2>i, <2>u DEF RunStartsClean, MineIsStaged
  <2> QED
    BY <2>1, <2>2, <2>3, <2>4, <2>5, <2>6 DEF CollectorInv
<1>3. CASE Collect
  <2>1. CASE pc' = "fail"
    <3>1. /\ pc = "collect" /\ (Fails \/ UNCHANGED failures)
          /\ UNCHANGED <<uploads, deleted, staged, sourceVars, listing, todo, mine, tally>>
      BY <1>3, <2>1 DEF Collect
    <3> QED
      BY <2>1, <3>1, RunStops
  <2>2. CASE pc' # "fail"
    <3> DEFINE obs == Observations(Matched)
    <3>1. /\ pc = "collect" /\ pc' = "insert"
          /\ \A f \in Matched : uploads[f].kind = "batch"
          /\ listing' = Matched /\ todo' = obs
          /\ tally' = [tally EXCEPT !.seen = Cardinality(obs)]
          /\ UNCHANGED <<uploads, deleted, staged, sourceVars, mine, failures>>
      BY <1>3, <2>2 DEF Collect
    <3>2. Matched \subseteq 1 .. Len(uploads)
      BY MatchedFiles
    <3>3. /\ obs \subseteq (1 .. Len(uploads)) \X Event
          /\ \A o \in obs : o[1] \in Matched /\ o[2] \in uploads[o[1]].events
          /\ EventsIn(Matched) \subseteq {o[2] : o \in obs}
      BY <1>t, <3>2, ObservationsOfFiles
    <3>4. Cardinality(obs) \in Nat
      BY <1>t, <3>3, FiniteParts
    <3> HIDE DEF obs
    <3>5. TypeOK'
      <4>1. tally' \in [seen : Nat, imported : Nat, ignored : Nat]
        BY <1>t, <3>1, <3>4 DEF TypeOK
      <4> QED
        BY <1>t, <3>1, <3>2, <3>3, <4>1 DEF TypeOK, CollectorPc
    <3>6. DeletedOnlyAfterStaged' /\ StagedCameFromDrive'
      BY <1>t, <3>1 DEF DeletedOnlyAfterStaged, StagedCameFromDrive, EventsIn
    <3>7. OpenRunsAreExplained' /\ RunRowIsOpen'
      BY <1>t, <1>f, <3>1 DEF OpenRunsAreExplained, RunRowIsOpen
    <3>8. ListingIsReadable' /\ TodoIsReadable'
      BY <3>1, <3>3 DEF ListingIsReadable, TodoIsReadable
    <3>9. PageAccountedFor'
      <4>1. EventsIn(listing)' = EventsIn(Matched)
        BY <3>1 DEF EventsIn
      <4> QED
        BY <3>1, <3>3, <4>1 DEF PageAccountedFor
    <3>10. NothingLeftToDo' /\ RunStartsClean' /\ MineIsStaged'
      BY <1>t, <3>1 DEF NothingLeftToDo, RunStartsClean, MineIsStaged
    <3>11. CountsAddUp'
      <4>1. mine = {} /\ tally = NoTally
        BY <1>t, <3>1 DEF RunStartsClean
      <4>2. /\ tally'.imported = 0 /\ tally'.ignored = 0
            /\ tally'.seen = Cardinality(obs)
        BY <3>1, <4>1 DEF NoTally
      <4> QED
        BY <3>1, <3>4, <4>1, <4>2, FS_EmptySet DEF CountsAddUp
    <3> QED
      BY <3>5, <3>6, <3>7, <3>8, <3>9, <3>10, <3>11 DEF CollectorInv
  <2> QED
    BY <2>1, <2>2
<1>4. CASE InsertObservation
  <2>1. CASE pc' = "fail"
    <3>1. /\ pc = "insert" /\ (Fails \/ UNCHANGED failures)
          /\ UNCHANGED <<uploads, deleted, staged, sourceVars, listing, todo, mine, tally>>
      BY <1>4, <2>1 DEF InsertObservation
    <3> QED
      BY <2>1, <3>1, RunStops
  <2>2. CASE pc' # "fail"
    <3>1. PICK o \in todo :
            /\ pc = "insert" /\ UNCHANGED pc
            /\ todo' = todo \ {o}
            /\ staged' = staged \cup {o[2]}
            /\ mine' = IF o[2] \in staged THEN mine ELSE mine \cup {o[2]}
            /\ tally' = IF o[2] \in staged
                          THEN [tally EXCEPT !.ignored = @ + 1]
                          ELSE [tally EXCEPT !.imported = @ + 1]
            /\ UNCHANGED <<uploads, deleted, sourceVars, listing, failures>>
      BY <1>4, <2>2 DEF InsertObservation
    <3>2. o[1] \in 1 .. Len(uploads) /\ o[2] \in Event
      BY <1>t DEF TypeOK
    <3>3. uploads[o[1]].kind = "batch" /\ o[2] \in uploads[o[1]].events
      BY <1>t DEF TodoIsReadable
    <3>4. TypeOK'
      <4>1. tally' \in [seen : Nat, imported : Nat, ignored : Nat]
        BY <1>t, <3>1 DEF TypeOK
      <4> QED
        BY <1>t, <3>1, <3>2, <4>1 DEF TypeOK
    <3>5. DeletedOnlyAfterStaged'
      BY <1>t, <3>1 DEF DeletedOnlyAfterStaged, EventsIn
    <3>6. StagedCameFromDrive'
      <4>1. o[2] \in EventsIn({f \in 1 .. Len(uploads) : uploads[f].kind = "batch"})
        BY <3>2, <3>3 DEF EventsIn
      <4> QED
        BY <1>t, <3>1, <4>1 DEF StagedCameFromDrive, EventsIn
    <3>7. OpenRunsAreExplained' /\ RunRowIsOpen'
      BY <1>t, <3>1 DEF OpenRunsAreExplained, RunRowIsOpen
    <3>8. ListingIsReadable' /\ TodoIsReadable'
      BY <1>t, <3>1 DEF ListingIsReadable, TodoIsReadable
    <3>9. PageAccountedFor'
      <4>1. EventsIn(listing)' = EventsIn(listing)
        BY <3>1 DEF EventsIn
      <4>2. EventsIn(listing) \subseteq staged \cup {p[2] : p \in todo}
        BY <1>t, <3>1 DEF PageAccountedFor
      <4>3. {p[2] : p \in todo} \subseteq {p[2] : p \in todo'} \cup {o[2]}
        BY <3>1
      <4> QED
        BY <3>1, <4>1, <4>2, <4>3 DEF PageAccountedFor
    <3>10. NothingLeftToDo' /\ RunStartsClean'
      BY <3>1 DEF NothingLeftToDo, RunStartsClean
    <3>11. CountsAddUp'
      <4>1. /\ IsFiniteSet(todo) /\ Cardinality(todo) \in Nat
            /\ IsFiniteSet(mine) /\ Cardinality(mine) \in Nat
        BY <1>t, FiniteParts DEF TypeOK
      <4>2. Cardinality(todo') = Cardinality(todo) - 1
        BY <3>1, <4>1, FS_RemoveElement
      <4>3. mine \subseteq staged
        BY <1>t DEF MineIsStaged
      <4>4. /\ tally.imported = Cardinality(mine)
            /\ tally.seen = tally.imported + tally.ignored + Cardinality(todo)
            /\ tally.imported \in Nat /\ tally.ignored \in Nat /\ tally.seen \in Nat
        BY <1>t, <3>1 DEF CountsAddUp, TypeOK
      <4>5. CASE o[2] \in staged
        <5>1. /\ mine' = mine /\ tally'.imported = tally.imported
              /\ tally'.ignored = tally.ignored + 1 /\ tally'.seen = tally.seen
          BY <1>t, <3>1, <4>5 DEF TypeOK
        <5> QED
          BY <4>1, <4>2, <4>4, <5>1 DEF CountsAddUp
      <4>6. CASE o[2] \notin staged
        <5>1. /\ mine' = mine \cup {o[2]} /\ tally'.imported = tally.imported + 1
              /\ tally'.ignored = tally.ignored /\ tally'.seen = tally.seen
          BY <1>t, <3>1, <4>6 DEF TypeOK
        <5>2. Cardinality(mine') = Cardinality(mine) + 1
          BY <4>1, <4>3, <4>6, <5>1, FS_AddElement
        <5> QED
          BY <4>1, <4>2, <4>4, <5>1, <5>2 DEF CountsAddUp
      <4> QED
        BY <4>5, <4>6
    <3>12. MineIsStaged'
      BY <1>t, <3>1 DEF MineIsStaged
    <3> QED
      BY <3>4, <3>5, <3>6, <3>7, <3>8, <3>9, <3>10, <3>11, <3>12 DEF CollectorInv
  <2> QED
    BY <2>1, <2>2
<1>5. CASE InsertsDone
  <2>1. /\ pc = "insert" /\ pc' = "complete" /\ todo = {}
        /\ UNCHANGED <<uploads, deleted, staged, sourceVars, listing, todo, mine,
                       tally, failures>>
    BY <1>5 DEF InsertsDone
  <2>2. TypeOK'
    BY <1>t, <2>1 DEF TypeOK, CollectorPc
  <2>3. DeletedOnlyAfterStaged' /\ StagedCameFromDrive' /\ MineIsStaged'
    BY <1>t, <2>1 DEF DeletedOnlyAfterStaged, StagedCameFromDrive, EventsIn, MineIsStaged
  <2>4. OpenRunsAreExplained' /\ RunRowIsOpen'
    BY <1>t, <2>1 DEF OpenRunsAreExplained, RunRowIsOpen
  <2>5. ListingIsReadable' /\ TodoIsReadable'
    BY <1>t, <2>1 DEF ListingIsReadable, TodoIsReadable
  <2>6. PageAccountedFor' /\ NothingLeftToDo'
    BY <1>t, <2>1 DEF PageAccountedFor, EventsIn, NothingLeftToDo
  <2>7. RunStartsClean' /\ CountsAddUp'
    BY <1>t, <2>1 DEF RunStartsClean, CountsAddUp
  <2> QED
    BY <2>2, <2>3, <2>4, <2>5, <2>6, <2>7 DEF CollectorInv
<1>6. CASE CompleteRun
  <2>1. CASE pc' = "fail"
    <3>1. /\ pc = "complete" /\ Fails
          /\ UNCHANGED <<uploads, deleted, staged, sourceVars, listing, todo, mine, tally>>
      BY <1>6, <2>1 DEF CompleteRun
    <3> QED
      BY <2>1, <3>1, RunStops
  <2>2. CASE pc' # "fail"
    <3>1. /\ pc = "complete" /\ pc' = "acknowledge" /\ openRuns' = openRuns - 1
          /\ source' = [source EXCEPT !.healthy = TRUE]
          /\ UNCHANGED <<uploads, deleted, staged, listing, todo, mine, tally, failures>>
      BY <1>6, <2>2 DEF CompleteRun
    <3>2. openRuns >= 1
      BY <1>t, <3>1 DEF RunRowIsOpen
    <3>3. TypeOK'
      <4>1. source' \in [due : BOOLEAN, healthy : BOOLEAN]
        BY <1>t, <3>1 DEF TypeOK
      <4>2. openRuns' \in Nat
        BY <1>f, <3>1, <3>2
      <4> QED
        BY <1>t, <3>1, <4>1, <4>2 DEF TypeOK, CollectorPc
    <3>4. DeletedOnlyAfterStaged' /\ StagedCameFromDrive' /\ MineIsStaged'
      BY <1>t, <3>1 DEF DeletedOnlyAfterStaged, StagedCameFromDrive, EventsIn, MineIsStaged
    <3>5. OpenRunsAreExplained' /\ RunRowIsOpen'
      BY <1>t, <1>f, <3>1 DEF OpenRunsAreExplained, RunRowIsOpen
    <3>6. ListingIsReadable' /\ TodoIsReadable'
      BY <1>t, <3>1 DEF ListingIsReadable, TodoIsReadable
    <3>7. PageAccountedFor' /\ NothingLeftToDo'
      BY <1>t, <3>1 DEF PageAccountedFor, EventsIn, NothingLeftToDo
    <3>8. RunStartsClean' /\ CountsAddUp'
      BY <1>t, <3>1 DEF RunStartsClean, CountsAddUp
    <3> QED
      BY <3>3, <3>4, <3>5, <3>6, <3>7, <3>8 DEF CollectorInv
  <2> QED
    BY <2>1, <2>2
<1>7. CASE FailRun
  <2>1. /\ pc = "fail" /\ CycleEnds /\ UNCHANGED <<uploads, deleted, staged>>
    BY <1>7 DEF FailRun
  <2>2. openRuns >= 1
    BY <1>t, <2>1 DEF RunRowIsOpen
  <2>3. \/ openRuns' = openRuns - 1 /\ failures' = failures
        \/ openRuns' = openRuns /\ failures' = failures + 1
    BY <1>t, <1>7, FailureCount DEF FailRun
  <2>4. failures' \in 0 .. MaxFailures /\ source' \in [due : BOOLEAN, healthy : BOOLEAN]
    BY <1>t, <1>7, FailureCount DEF FailRun, TypeOK
  <2>5. CycleEnds /\ UNCHANGED uploads
    BY <2>1
  <2>6. TypeOK'
    BY <1>t, <1>f, <2>1, <2>2, <2>3, <2>4, <2>5, CycleEndsClean DEF TypeOK
  <2>7. DeletedOnlyAfterStaged' /\ StagedCameFromDrive'
    BY <1>t, <2>1 DEF DeletedOnlyAfterStaged, StagedCameFromDrive, EventsIn
  <2>8. OpenRunsAreExplained'
    BY <1>t, <1>f, <2>1, <2>3 DEF OpenRunsAreExplained, CycleEnds
  <2> QED
    BY <2>5, <2>6, <2>7, <2>8, CycleEndsClean DEF CollectorInv
<1>8. CASE Acknowledge
  <2>1. PICK f \in listing :
          /\ pc = "acknowledge"
          /\ deleted' \in {deleted, deleted \cup {f}}
          /\ \/ /\ listing' = listing \ {f}
                /\ UNCHANGED <<pc, todo, mine, tally, failures>>
             \/ CycleEnds /\ Fails
          /\ UNCHANGED <<uploads, staged, sourceVars>>
    BY <1>8 DEF Acknowledge, Oldest
  <2>2. todo = {} /\ EventsIn(listing) \subseteq staged
    BY <1>t, <2>1 DEF NothingLeftToDo, PageAccountedFor
  <2>3. f \in 1 .. Len(uploads) /\ uploads[f].events \subseteq staged
    BY <1>t, <2>1, <2>2 DEF TypeOK, EventsIn
  <2>4. DeletedOnlyAfterStaged' /\ StagedCameFromDrive'
    BY <1>t, <2>1, <2>3 DEF DeletedOnlyAfterStaged, StagedCameFromDrive, EventsIn
  <2>5. deleted' \subseteq 1 .. Len(uploads)
    BY <1>t, <2>1, <2>3 DEF TypeOK
  <2>6. CASE CycleEnds /\ Fails
    <3>1. failures' \in 0 .. MaxFailures /\ failures' = failures + 1
      BY <1>t, <2>6, FailureCount
    <3>2. TypeOK'
      BY <1>t, <1>f, <2>1, <2>5, <2>6, <3>1, CycleEndsClean DEF TypeOK
    <3>3. OpenRunsAreExplained'
      BY <1>t, <1>f, <2>1, <2>6, <3>1 DEF OpenRunsAreExplained, CycleEnds
    <3> QED
      BY <2>1, <2>4, <2>6, <3>2, <3>3, CycleEndsClean DEF CollectorInv
  <2>7. CASE listing' = listing \ {f} /\ UNCHANGED <<pc, todo, mine, tally, failures>>
    <3>1. TypeOK'
      BY <1>t, <2>1, <2>5, <2>7 DEF TypeOK
    <3>2. OpenRunsAreExplained' /\ RunRowIsOpen' /\ MineIsStaged'
      BY <1>t, <2>1, <2>7 DEF OpenRunsAreExplained, RunRowIsOpen, MineIsStaged
    <3>3. ListingIsReadable' /\ TodoIsReadable'
      BY <1>t, <2>1, <2>7 DEF ListingIsReadable, TodoIsReadable
    <3>4. PageAccountedFor' /\ NothingLeftToDo'
      BY <1>t, <2>1, <2>2, <2>7 DEF PageAccountedFor, EventsIn, NothingLeftToDo
    <3>5. RunStartsClean' /\ CountsAddUp'
      BY <1>t, <2>1, <2>7 DEF RunStartsClean, CountsAddUp
    <3> QED
      BY <2>4, <3>1, <3>2, <3>3, <3>4, <3>5 DEF CollectorInv
  <2> QED
    BY <2>1, <2>6, <2>7
<1>9. CASE AcknowledgeDone
  <2>1. /\ pc = "acknowledge" /\ CycleEnds
        /\ UNCHANGED <<uploads, deleted, staged, sourceVars, failures>>
    BY <1>9 DEF AcknowledgeDone
  <2>2. TypeOK'
    BY <1>t, <2>1, CycleEndsClean DEF TypeOK
  <2>3. DeletedOnlyAfterStaged' /\ StagedCameFromDrive'
    BY <1>t, <2>1 DEF DeletedOnlyAfterStaged, StagedCameFromDrive, EventsIn
  <2>4. OpenRunsAreExplained'
    BY <1>t, <1>f, <2>1 DEF OpenRunsAreExplained, CycleEnds
  <2> QED
    BY <2>1, <2>2, <2>3, <2>4, CycleEndsClean DEF CollectorInv
<1>10. CASE Crash
  <2>1. /\ CycleEnds /\ Fails
        /\ UNCHANGED <<uploads, deleted, staged, sourceVars>>
    BY <1>10 DEF Crash
  <2>2. failures' \in 0 .. MaxFailures /\ failures' = failures + 1
    BY <1>t, <2>1, FailureCount
  <2>3. TypeOK'
    BY <1>t, <2>1, <2>2, CycleEndsClean DEF TypeOK
  <2>4. DeletedOnlyAfterStaged' /\ StagedCameFromDrive'
    BY <1>t, <2>1 DEF DeletedOnlyAfterStaged, StagedCameFromDrive, EventsIn
  <2>5. OpenRunsAreExplained'
    BY <1>t, <1>f, <2>1, <2>2 DEF OpenRunsAreExplained, CycleEnds
  <2> QED
    BY <2>1, <2>3, <2>4, <2>5, CycleEndsClean DEF CollectorInv
<1> QED
  BY <1>1, <1>2, <1>3, <1>4, <1>5, <1>6, <1>7, <1>8, <1>9, <1>10
     DEF CollectorNext, CycleStep

LEMMA CollectorInvNext == CollectorInv /\ [Next]_vars => CollectorInv'
<1> SUFFICES ASSUME CollectorInv, [Next]_vars PROVE CollectorInv'
  OBVIOUS
<1>t. uploads \in Seq(DriveFile)
  BY DEF CollectorInv, TypeOK
<1>1. CASE CollectorNext
  BY <1>1, CollectorInvStep
<1>2. CASE FileArrives
  <2>1. PICK k \in Kind, E \in SUBSET Event :
          uploads' = Append(uploads, [kind |-> k, events |-> E])
    BY <1>2 DEF FileArrives
  <2>2. [kind |-> k, events |-> E] \in DriveFile
    BY DEF DriveFile
  <2>3. /\ uploads' \in Seq(DriveFile) /\ Len(uploads) <= Len(uploads')
        /\ \A f \in 1 .. Len(uploads) : uploads'[f] = uploads[f]
    BY <1>t, <2>1, <2>2
  <2>4. UNCHANGED collectorVars
    BY <1>2 DEF FileArrives
  <2> QED
    BY <2>3, <2>4, CollectorInvArrival
<1>3. CASE UNCHANGED vars
  <2>1. UNCHANGED uploads /\ UNCHANGED collectorVars
    BY <1>3 DEF vars
  <2>2. Len(uploads) \in Nat
    BY <1>t
  <2> QED
    BY <1>t, <2>1, <2>2, CollectorInvArrival
<1> QED
  BY <1>1, <1>2, <1>3 DEF Next

THEOREM CollectorInvariant == Spec => []CollectorInv
BY CollectorInvInit, CollectorInvNext, PTL DEF Spec

(* Every variable keeps its type: no run row is closed twice.              *)
THEOREM TypeCorrect == Spec => []TypeOK
<1>1. CollectorInv => TypeOK
  BY DEF CollectorInv
<1> QED
  BY <1>1, CollectorInvariant, PTL

(* No file leaves Drive before each of its events has a staged row.        *)
THEOREM DeletedOnlyAfterStagedHolds == Spec => []DeletedOnlyAfterStaged
<1>1. CollectorInv => DeletedOnlyAfterStaged
  BY DEF CollectorInv
<1> QED
  BY <1>1, CollectorInvariant, PTL

(* No row is staged that was not in a batch file of the folder.            *)
THEOREM StagedCameFromDriveHolds == Spec => []StagedCameFromDrive
<1>1. CollectorInv => StagedCameFromDrive
  BY DEF CollectorInv
<1> QED
  BY <1>1, CollectorInvariant, PTL

(* Only a crash or a lost connection leaves a run row 'started' for good.  *)
THEOREM OpenRunsAreExplainedHolds == Spec => []OpenRunsAreExplained
<1>1. CollectorInv => OpenRunsAreExplained
  BY DEF CollectorInv
<1> QED
  BY <1>1, CollectorInvariant, PTL

(* The counts complete_run records are those of the rows the run staged.   *)
THEOREM CompletedRunCountsItsRowsHolds == Spec => []CompletedRunCountsItsRows
<1>1. CollectorInv => CompletedRunCountsItsRows
  <2> SUFFICES ASSUME CollectorInv, pc = "acknowledge"
               PROVE  /\ tally.imported = Cardinality(mine)
                      /\ tally.seen = tally.imported + tally.ignored
    BY DEF CompletedRunCountsItsRows
  <2>1. /\ tally.imported = Cardinality(mine) /\ todo = {}
        /\ tally.seen = tally.imported + tally.ignored + Cardinality(todo)
    BY DEF CollectorInv, CountsAddUp, NothingLeftToDo
  <2>2. tally.imported \in Nat /\ tally.ignored \in Nat
    BY DEF CollectorInv, TypeOK
  <2> QED
    BY <2>1, <2>2, FS_EmptySet
<1> QED
  BY <1>1, CollectorInvariant, PTL

(* A source is marked healthy only when its whole page is staged.          *)
THEOREM SuccessMeansPageStagedHolds == Spec => SuccessMeansPageStaged
<1> DEFINE Marked == source'.healthy /\ openRuns' < openRuns
                       => EventsIn(listing) \subseteq staged
<1>1. CollectorInv /\ [Next]_vars => [Marked]_vars
  <2> SUFFICES ASSUME CollectorInv, Next PROVE Marked
    OBVIOUS
  <2>t. openRuns \in Nat /\ source \in [due : BOOLEAN, healthy : BOOLEAN]
    BY DEF CollectorInv, TypeOK
  <2>1. CASE CompleteRun
    <3>1. pc = "complete"
      BY <2>1 DEF CompleteRun
    <3>2. todo = {}
      BY <3>1 DEF CollectorInv, NothingLeftToDo
    <3> QED
      BY <3>1, <3>2 DEF CollectorInv, PageAccountedFor
  <2>2. CASE FailRun
    <3>1. ~source'.healthy \/ openRuns' = openRuns
      BY <2>t, <2>2 DEF FailRun, sourceVars
    <3> QED
      BY <2>t, <3>1
  <2>3. CASE BeginRun
    <3>1. openRuns' = openRuns + 1
      BY <2>3 DEF BeginRun
    <3> QED
      BY <2>t, <3>1
  <2>4. ASSUME ~CompleteRun, ~FailRun, ~BeginRun PROVE openRuns' = openRuns
    BY <2>4 DEF Next, CollectorNext, CycleStep, CadenceElapses, Collect,
                InsertObservation, InsertsDone, Acknowledge, AcknowledgeDone, Crash,
                FileArrives, collectorVars, sourceVars
  <2> QED
    BY <2>t, <2>1, <2>2, <2>3, <2>4
<1> QED
  BY <1>1, CollectorInvariant, PTL DEF Spec, SuccessMeansPageStaged

(***************************************************************************)
(* What EveryBatchConsumed takes for granted is also needed: each of three *)
(* pages stops the source for good, whatever is retried, restarted or      *)
(* added to the folder.  A rejected file of the page, seen before a run    *)
(* has collected it; an event of a batch file of the page that PostgreSQL  *)
(* refuses, as long as the run has not come to it; and a full page of      *)
(* foreign files.                                                          *)
(***************************************************************************)
RejectedInPage ==
  pc \in {"idle", "collect", "fail"} /\ \E f \in Page : uploads[f].kind = "malformed"

UnstorableInPage ==
  /\ pc \in {"idle", "collect", "insert", "fail"}
  /\ \E f \in Page : \E e \in uploads[f].events \cap Unstorable :
       uploads[f].kind = "batch" /\ (pc = "insert" => <<f, e>> \in todo)

ForeignPage ==
  listing = {} /\ todo = {} /\ Cardinality(Page) >= PageSize /\ Matched = {}

BlockedForGood ==
  [][/\ RejectedInPage \/ UnstorableInPage \/ ForeignPage
          => (RejectedInPage \/ UnstorableInPage \/ ForeignPage)' /\ deleted' = deleted
     /\ RejectedInPage \/ ForeignPage => staged' = staged]_vars

(* While nothing is deleted a file of the page stays on it, and a full     *)
(* page admits no newer file.                                              *)
LEMMA PageKept ==
  ASSUME uploads \in Seq(DriveFile), uploads' \in Seq(DriveFile), deleted' = deleted,
         Len(uploads) <= Len(uploads'),
         \A f \in 1 .. Len(uploads) : uploads'[f] = uploads[f]
  PROVE  /\ \A f \in Page : f \in Page' /\ uploads'[f] = uploads[f]
         /\ Cardinality(Page) >= PageSize => Page' = Page
<1> DEFINE Before(f) == {g \in Folder : g < f}
           After(f) == {g \in Folder' : g < f}
<1>n. Len(uploads) \in Nat /\ Len(uploads') \in Nat
  OBVIOUS
<1>1. Folder \subseteq 1 .. Len(uploads) /\ Folder \subseteq Folder'
  BY <1>n DEF Folder
<1>2. \A f \in 1 .. Len(uploads) :
         After(f) = Before(f) /\ (f \in Folder' => f \in Folder)
  BY <1>n DEF Folder
<1>3. \A f \in Page : f \in Page' /\ uploads'[f] = uploads[f]
  BY <1>1, <1>2 DEF Page
<1>4. ASSUME Cardinality(Page) >= PageSize, NEW f \in Page' PROVE f \in Page
  <2>1. CASE f \in 1 .. Len(uploads)
    BY <1>2, <2>1 DEF Page
  <2>2. CASE f \notin 1 .. Len(uploads)
    <3>1. f \in Folder' /\ Cardinality(After(f)) < PageSize
      BY <1>4 DEF Page
    <3>2. f \in 1 .. Len(uploads') /\ f > Len(uploads)
      BY <1>n, <2>2, <3>1 DEF Folder
    <3>p. \A g \in Page : g \in Folder
      BY DEF Page
    <3>g. \A g \in 1 .. Len(uploads) : g < f
      BY <1>n, <3>2
    <3>3. Page \subseteq After(f)
      BY <1>1, <3>p, <3>g
    <3>4. IsFiniteSet(1 .. Len(uploads')) /\ After(f) \subseteq 1 .. Len(uploads')
      BY <1>n, FS_Interval DEF Folder
    <3>5. IsFiniteSet(After(f))
      BY <3>4, FS_Subset
    <3>6. /\ Cardinality(Page) <= Cardinality(After(f))
          /\ Cardinality(Page) \in Nat /\ Cardinality(After(f)) \in Nat
      BY <3>3, <3>5, FS_Subset, FS_CardinalityType
    <3> QED
      BY <1>4, <3>1, <3>6, PageSizeAssumption
  <2> QED
    BY <2>1, <2>2
<1> QED
  BY <1>3, <1>4

(* What every step does to the folder when it deletes nothing.             *)
LEMMA FolderOnlyGrows ==
  ASSUME TypeOK, [Next]_vars
  PROVE  /\ uploads' \in Seq(DriveFile) /\ Len(uploads) <= Len(uploads')
         /\ \A f \in 1 .. Len(uploads) : uploads'[f] = uploads[f]
<1>t. uploads \in Seq(DriveFile)
  BY DEF TypeOK
<1>1. CASE FileArrives
  <2>1. PICK k \in Kind, E \in SUBSET Event :
          uploads' = Append(uploads, [kind |-> k, events |-> E])
    BY <1>1 DEF FileArrives
  <2>2. [kind |-> k, events |-> E] \in DriveFile
    BY DEF DriveFile
  <2> QED
    BY <1>t, <2>1, <2>2
<1>2. CASE ~FileArrives
  <2>1. uploads' = uploads
    BY <1>2 DEF Next, CollectorNext, CycleStep, CadenceElapses, BeginRun, Collect,
                InsertObservation, InsertsDone, CompleteRun, FailRun, Acknowledge,
                AcknowledgeDone, Crash, vars
  <2> QED
    BY <1>t, <2>1
<1> QED
  BY <1>1, <1>2

(* A rejected file of the page stays there and lets nothing be staged.     *)
LEMMA RejectedStays ==
  ASSUME TypeOK, [Next]_vars, RejectedInPage
  PROVE  RejectedInPage' /\ deleted' = deleted /\ staged' = staged
<1>1. PICK f \in Page : uploads[f].kind = "malformed"
  BY DEF RejectedInPage
<1>2. f \in Matched
  BY <1>1 DEF Matched
<1>3. /\ pc' \in {"idle", "collect", "fail"}
      /\ deleted' = deleted /\ staged' = staged
  BY <1>1, <1>2
     DEF RejectedInPage, Next, CollectorNext, CycleStep, CadenceElapses, BeginRun,
         Collect, InsertObservation, InsertsDone, CompleteRun, FailRun, Acknowledge,
         AcknowledgeDone, Crash, CycleEnds, FileArrives, collectorVars, runVars, vars
<1>4. f \in Page' /\ uploads'[f] = uploads[f]
  BY <1>3, FolderOnlyGrows, PageKept DEF TypeOK
<1> QED
  BY <1>1, <1>3, <1>4 DEF RejectedInPage

(* A row PostgreSQL refuses is never inserted, and no run that has listed  *)
(* it completes.                                                           *)
LEMMA UnstorableStays ==
  ASSUME TypeOK, [Next]_vars, UnstorableInPage
  PROVE  (RejectedInPage \/ UnstorableInPage)' /\ deleted' = deleted
<1>0. PICK f \in Page : \E e \in uploads[f].events \cap Unstorable :
         uploads[f].kind = "batch" /\ (pc = "insert" => <<f, e>> \in todo)
  BY DEF UnstorableInPage
<1>1. PICK e \in uploads[f].events \cap Unstorable :
         uploads[f].kind = "batch" /\ (pc = "insert" => <<f, e>> \in todo)
  BY <1>0
<1>2. f \in Matched /\ <<f, e>> \in Observations(Matched)
  BY <1>1 DEF Matched, Observations
<1>3. /\ pc' \in {"idle", "collect", "insert", "fail"}
      /\ pc' = "insert" => <<f, e>> \in todo'
      /\ deleted' = deleted
  <2>0. pc \in {"idle", "collect", "insert", "fail"}
    BY DEF UnstorableInPage
  <2>1. CASE Collect
    BY <1>2, <2>1 DEF Collect
  <2>2. CASE InsertObservation
    <3>1. /\ pc = "insert" /\ pc' \in {"insert", "fail"} /\ deleted' = deleted
          /\ \/ pc' = "fail"
             \/ \E o \in todo : o[2] \notin Unstorable /\ todo' = todo \ {o}
      BY <2>2 DEF InsertObservation
    <3> QED
      BY <1>1, <3>1
  <2>3. CASE CycleEnds /\ deleted' = deleted
    BY <2>3 DEF CycleEnds
  <2>4. CASE CadenceElapses \/ BeginRun \/ FileArrives \/ UNCHANGED vars
    BY <1>1, <2>0, <2>4 DEF CadenceElapses, BeginRun, FileArrives, collectorVars,
                            runVars, vars
  <2> QED
    BY <1>1, <2>0, <2>1, <2>2, <2>3, <2>4
       DEF Next, CollectorNext, CycleStep, InsertsDone, CompleteRun, FailRun,
           Acknowledge, AcknowledgeDone, Crash
<1>4. f \in Page' /\ uploads'[f] = uploads[f]
  BY <1>3, FolderOnlyGrows, PageKept DEF TypeOK
<1> QED
  BY <1>1, <1>3, <1>4 DEF UnstorableInPage

(* Foreign files are never listed, so never deleted, and a full page of    *)
(* them hides every newer file.                                            *)
LEMMA ForeignStays ==
  ASSUME TypeOK, [Next]_vars, ForeignPage
  PROVE  ForeignPage' /\ deleted' = deleted /\ staged' = staged
<1>1. listing = {} /\ todo = {} /\ Cardinality(Page) >= PageSize /\ Matched = {}
  BY DEF ForeignPage
<1>2. Observations(Matched) = {}
  BY <1>1 DEF Observations
<1>3. listing' = {} /\ todo' = {} /\ deleted' = deleted /\ staged' = staged
  BY <1>1, <1>2
     DEF Next, CollectorNext, CycleStep, CadenceElapses, BeginRun,
         Collect, InsertObservation, InsertsDone, CompleteRun, FailRun, Acknowledge,
         AcknowledgeDone, Crash, CycleEnds, FileArrives, collectorVars, runVars, vars
<1>4. /\ \A f \in Page : uploads'[f] = uploads[f]
      /\ Page' = Page
  BY <1>1, <1>3, FolderOnlyGrows, PageKept DEF TypeOK
<1>5. Matched' = {}
  BY <1>1, <1>4 DEF Matched
<1> QED
  BY <1>1, <1>3, <1>4, <1>5 DEF ForeignPage

(* Once one of the three pages is there, no file is deleted any more, and  *)
(* no row is staged in front of a rejected file or of a page of foreign    *)
(* ones: not after any restart, retry or arrival.                          *)
THEOREM BadPagesBlockForGood == Spec => BlockedForGood
<1> DEFINE Stuck == RejectedInPage \/ UnstorableInPage \/ ForeignPage
           Step == /\ Stuck => Stuck' /\ deleted' = deleted
                   /\ RejectedInPage \/ ForeignPage => staged' = staged
<1>1. TypeOK /\ [Next]_vars => [Step]_vars
  BY RejectedStays, UnstorableStays, ForeignStays
<1> QED
  BY <1>1, TypeCorrect, PTL DEF Spec, BlockedForGood

=============================================================================
