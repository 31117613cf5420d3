------------------------ MODULE RelayPipelineProofs -------------------------
(***************************************************************************)
(* The relay end to end, for every set of events and every bound: no event *)
(* is lost between the phone and the staging table, and the composition    *)
(* implements the safety part of EventRelay.                               *)
(*                                                                         *)
(* The invariants of the two ends are inductive in their own modules       *)
(* (AndroidRelayProofs, DriveCollectorProofs).  Here each step of one end  *)
(* is shown to leave the other end's invariant alone.                      *)
(***************************************************************************)
EXTENDS RelayPipeline, TLAPS

PhoneThms == INSTANCE AndroidRelayProofs
NasThms == INSTANCE DriveCollectorProofs WITH pc <- cycle, MaxFiles <- MaxOthers

----------------------------------------------------------------------------
(* The two ends' theorems, stated for the instances of RelayPipeline.      *)
LEMMA PhoneInvInit == Phone!PhoneInit /\ uploads = <<>> => Phone!RelayInv
<1>1. (PhoneThms!Init) = (Phone!PhoneInit /\ uploads = <<>>)
  BY DEF PhoneThms!Init, Phone!Init, PhoneThms!PhoneInit, Phone!PhoneInit,
         PhoneThms!Work, Phone!Work
<1>2. PhoneThms!RelayInv = Phone!RelayInv
  BY DEF PhoneThms!TypeOK, Phone!TypeOK, PhoneThms!RemovedOnlyAfterUpload,
         Phone!RemovedOnlyAfterUpload, PhoneThms!BatchesIntact,
         Phone!BatchesIntact, PhoneThms!BatchesUploaded,
         Phone!BatchesUploaded, PhoneThms!RelayInv, Phone!RelayInv,
         PhoneThms!Line, Phone!Line, PhoneThms!Work, Phone!Work,
         PhoneThms!WorkState, Phone!WorkState, PhoneThms!Returned,
         Phone!Returned, PhoneThms!WorkerPc, Phone!WorkerPc
<1> QED
  BY <1>1, <1>2, PhoneThms!RelayInvInit, PhoneAssumption
     DEF PhoneThms!TornAssumption, PhoneThms!BatchLimitAssumption,
         PhoneThms!TearsAssumption, PhoneThms!BoundsAssumption

LEMMA PhoneInvStep == Phone!RelayInv /\ Phone!Next => Phone!RelayInv'
<1>1. PhoneThms!RelayInv = Phone!RelayInv
  BY DEF PhoneThms!TypeOK, Phone!TypeOK, PhoneThms!RemovedOnlyAfterUpload,
         Phone!RemovedOnlyAfterUpload, PhoneThms!BatchesIntact,
         Phone!BatchesIntact, PhoneThms!BatchesUploaded,
         Phone!BatchesUploaded, PhoneThms!RelayInv, Phone!RelayInv,
         PhoneThms!Line, Phone!Line, PhoneThms!Work, Phone!Work,
         PhoneThms!WorkState, Phone!WorkState, PhoneThms!Returned,
         Phone!Returned, PhoneThms!WorkerPc, Phone!WorkerPc
<1>2. PhoneThms!RelayInv' = Phone!RelayInv'
  BY DEF PhoneThms!TypeOK, Phone!TypeOK, PhoneThms!RemovedOnlyAfterUpload,
         Phone!RemovedOnlyAfterUpload, PhoneThms!BatchesIntact,
         Phone!BatchesIntact, PhoneThms!BatchesUploaded,
         Phone!BatchesUploaded, PhoneThms!RelayInv, Phone!RelayInv,
         PhoneThms!Line, Phone!Line, PhoneThms!Work, Phone!Work,
         PhoneThms!WorkState, Phone!WorkState, PhoneThms!Returned,
         Phone!Returned, PhoneThms!WorkerPc, Phone!WorkerPc
<1>3. PhoneThms!Next = Phone!Next
  BY DEF PhoneThms!Cardinality, Phone!Cardinality, PhoneThms!vars,
         Phone!vars, PhoneThms!phoneVars, Phone!phoneVars,
         PhoneThms!queueVars, Phone!queueVars, PhoneThms!workVars,
         Phone!workVars, PhoneThms!authVars, Phone!authVars, PhoneThms!Line,
         Phone!Line, PhoneThms!Work, Phone!Work, PhoneThms!WorkState,
         Phone!WorkState, PhoneThms!Returned, Phone!Returned,
         PhoneThms!WorkerPc, Phone!WorkerPc, PhoneThms!FirstLines,
         Phone!FirstLines, PhoneThms!BatchFile, Phone!BatchFile,
         PhoneThms!EnqueueNow, Phone!EnqueueNow, PhoneThms!Fault,
         Phone!Fault, PhoneThms!NoFault, Phone!NoFault, PhoneThms!Connect,
         Phone!Connect, PhoneThms!AppendEvent, Phone!AppendEvent,
         PhoneThms!AppendCutShort, Phone!AppendCutShort,
         PhoneThms!ListenerEnqueue, Phone!ListenerEnqueue,
         PhoneThms!UserSync, Phone!UserSync, PhoneThms!Authorize,
         Phone!Authorize, PhoneThms!AuthorizeFails, Phone!AuthorizeFails,
         PhoneThms!Revoke, Phone!Revoke, PhoneThms!StartWork,
         Phone!StartWork, PhoneThms!GetToken, Phone!GetToken,
         PhoneThms!Upload, Phone!Upload, PhoneThms!Acknowledge,
         Phone!Acknowledge, PhoneThms!Recheck, Phone!Recheck,
         PhoneThms!Finish, Phone!Finish, PhoneThms!Crash, Phone!Crash,
         PhoneThms!WorkerStep, Phone!WorkerStep, PhoneThms!Next, Phone!Next
<1> QED
  BY <1>1, <1>2, <1>3, PhoneThms!RelayInvStep, PhoneAssumption
     DEF PhoneThms!TornAssumption, PhoneThms!BatchLimitAssumption,
         PhoneThms!TearsAssumption, PhoneThms!BoundsAssumption

(* The collector's constants meet its assumptions.                         *)
LEMMA NasConstants ==
  /\ NasThms!EventAssumption /\ NasThms!UnstorableAssumption
  /\ NasThms!PageSizeAssumption /\ NasThms!CollectorBounds
BY NasAssumption, OthersAssumption
   DEF NasThms!EventAssumption, NasThms!UnstorableAssumption,
       NasThms!PageSizeAssumption, NasThms!CollectorBounds,
       NasThms!IsFiniteSet, IsFiniteSet

LEMMA NasInvInit == Nas!CollectorInit /\ uploads = <<>> => Nas!CollectorInv
<1>1. NasThms!Init = (Nas!CollectorInit /\ uploads = <<>>)
  BY DEF NasThms!Init, Nas!Init, NasThms!CollectorInit, Nas!CollectorInit,
         NasThms!NoTally, Nas!NoTally
<1>2. NasThms!CollectorInv = Nas!CollectorInv
  BY DEF NasThms!TypeOK, Nas!TypeOK, NasThms!DeletedOnlyAfterStaged,
         Nas!DeletedOnlyAfterStaged, NasThms!StagedCameFromDrive,
         Nas!StagedCameFromDrive, NasThms!OpenRunsAreExplained,
         Nas!OpenRunsAreExplained, NasThms!RunRowIsOpen, Nas!RunRowIsOpen,
         NasThms!ListingIsReadable, Nas!ListingIsReadable,
         NasThms!TodoIsReadable, Nas!TodoIsReadable,
         NasThms!PageAccountedFor, Nas!PageAccountedFor,
         NasThms!NothingLeftToDo, Nas!NothingLeftToDo,
         NasThms!RunStartsClean, Nas!RunStartsClean, NasThms!CountsAddUp,
         Nas!CountsAddUp, NasThms!MineIsStaged, Nas!MineIsStaged,
         NasThms!CollectorInv, Nas!CollectorInv, NasThms!Cardinality,
         Nas!Cardinality, NasThms!Kind, Nas!Kind, NasThms!DriveFile,
         Nas!DriveFile, NasThms!CollectorPc, Nas!CollectorPc,
         NasThms!NoTally, Nas!NoTally, NasThms!EventsIn, Nas!EventsIn
<1> QED
  BY <1>1, <1>2, NasThms!CollectorInvInit, NasConstants

LEMMA NasInvSame ==
  /\ NasThms!CollectorInv = Nas!CollectorInv
  /\ NasThms!CollectorInv' = Nas!CollectorInv'
<1>1. NasThms!CollectorInv = Nas!CollectorInv
  BY DEF NasThms!TypeOK, Nas!TypeOK, NasThms!DeletedOnlyAfterStaged,
         Nas!DeletedOnlyAfterStaged, NasThms!StagedCameFromDrive,
         Nas!StagedCameFromDrive, NasThms!OpenRunsAreExplained,
         Nas!OpenRunsAreExplained, NasThms!RunRowIsOpen, Nas!RunRowIsOpen,
         NasThms!ListingIsReadable, Nas!ListingIsReadable,
         NasThms!TodoIsReadable, Nas!TodoIsReadable,
         NasThms!PageAccountedFor, Nas!PageAccountedFor,
         NasThms!NothingLeftToDo, Nas!NothingLeftToDo,
         NasThms!RunStartsClean, Nas!RunStartsClean, NasThms!CountsAddUp,
         Nas!CountsAddUp, NasThms!MineIsStaged, Nas!MineIsStaged,
         NasThms!CollectorInv, Nas!CollectorInv, NasThms!Cardinality,
         Nas!Cardinality, NasThms!Kind, Nas!Kind, NasThms!DriveFile,
         Nas!DriveFile, NasThms!CollectorPc, Nas!CollectorPc,
         NasThms!NoTally, Nas!NoTally, NasThms!EventsIn, Nas!EventsIn
<1>2. NasThms!CollectorInv' = Nas!CollectorInv'
  BY DEF NasThms!TypeOK, Nas!TypeOK, NasThms!DeletedOnlyAfterStaged,
         Nas!DeletedOnlyAfterStaged, NasThms!StagedCameFromDrive,
         Nas!StagedCameFromDrive, NasThms!OpenRunsAreExplained,
         Nas!OpenRunsAreExplained, NasThms!RunRowIsOpen, Nas!RunRowIsOpen,
         NasThms!ListingIsReadable, Nas!ListingIsReadable,
         NasThms!TodoIsReadable, Nas!TodoIsReadable,
         NasThms!PageAccountedFor, Nas!PageAccountedFor,
         NasThms!NothingLeftToDo, Nas!NothingLeftToDo,
         NasThms!RunStartsClean, Nas!RunStartsClean, NasThms!CountsAddUp,
         Nas!CountsAddUp, NasThms!MineIsStaged, Nas!MineIsStaged,
         NasThms!CollectorInv, Nas!CollectorInv, NasThms!Cardinality,
         Nas!Cardinality, NasThms!Kind, Nas!Kind, NasThms!DriveFile,
         Nas!DriveFile, NasThms!CollectorPc, Nas!CollectorPc,
         NasThms!NoTally, Nas!NoTally, NasThms!EventsIn, Nas!EventsIn
<1> QED
  BY <1>1, <1>2

LEMMA NasInvStep == Nas!CollectorInv /\ Nas!CollectorNext => Nas!CollectorInv'
<1>1. NasThms!CollectorNext = Nas!CollectorNext
  BY DEF NasThms!Cardinality, Nas!Cardinality, NasThms!vars, Nas!vars,
         NasThms!collectorVars, Nas!collectorVars, NasThms!sourceVars,
         Nas!sourceVars, NasThms!runVars, Nas!runVars, NasThms!Kind,
         Nas!Kind, NasThms!DriveFile, Nas!DriveFile, NasThms!CollectorPc,
         Nas!CollectorPc, NasThms!NoTally, Nas!NoTally, NasThms!Folder,
         Nas!Folder, NasThms!Page, Nas!Page, NasThms!Matched, Nas!Matched,
         NasThms!Oldest, Nas!Oldest, NasThms!Observations, Nas!Observations,
         NasThms!Fails, Nas!Fails, NasThms!CycleEnds, Nas!CycleEnds,
         NasThms!CadenceElapses, Nas!CadenceElapses, NasThms!BeginRun,
         Nas!BeginRun, NasThms!Collect, Nas!Collect,
         NasThms!InsertObservation, Nas!InsertObservation,
         NasThms!InsertsDone, Nas!InsertsDone, NasThms!CompleteRun,
         Nas!CompleteRun, NasThms!FailRun, Nas!FailRun, NasThms!Acknowledge,
         Nas!Acknowledge, NasThms!AcknowledgeDone, Nas!AcknowledgeDone,
         NasThms!Crash, Nas!Crash, NasThms!CycleStep, Nas!CycleStep,
         NasThms!CollectorNext, Nas!CollectorNext
<1> QED
  BY <1>1, NasInvSame, NasThms!CollectorInvStep, NasConstants

(* Files that only arrive leave the collector's invariant alone.           *)
LEMMA NasInvArrival ==
  ASSUME Nas!CollectorInv, UNCHANGED nasVars,
         uploads' \in Seq(Nas!DriveFile), Len(uploads) <= Len(uploads'),
         \A f \in 1 .. Len(uploads) : uploads'[f] = uploads[f]
  PROVE  Nas!CollectorInv'
<1>1. NasThms!DriveFile = Nas!DriveFile
  BY DEF NasThms!DriveFile, Nas!DriveFile, NasThms!Kind, Nas!Kind
<1>2. UNCHANGED NasThms!collectorVars
  BY DEF nasVars, NasThms!collectorVars, NasThms!sourceVars, NasThms!runVars
<1> QED
  BY <1>1, <1>2, NasInvSame, NasThms!CollectorInvArrival, NasConstants

----------------------------------------------------------------------------
(* What a step of the phone may do to the log and to Drive: append a line, *)
(* or add the batch file of one run.                                       *)
LEMMA PhoneEffect ==
  ASSUME Phone!RelayInv, Phone!Next
  PROVE  \/ UNCHANGED <<log, uploads>>
         \/ /\ \E l \in Event \cup {Torn} : log' = Append(log, l)
            /\ UNCHANGED uploads
         \/ /\ \E B \in SUBSET (1 .. Len(log)) :
                 /\ \A i \in B : log[i] \in Event
                 /\ uploads' = Append(uploads, [kind |-> "batch",
                                                events |-> {log[i] : i \in B}])
            /\ UNCHANGED log
<1> USE DEF Phone!queueVars, Phone!authVars, Phone!workVars
<1>1. CASE \E e \in Event : Phone!AppendEvent(e)
  BY <1>1 DEF Phone!AppendEvent
<1>2. CASE Phone!AppendCutShort
  BY <1>2 DEF Phone!AppendCutShort, Phone!Line
<1>3. ASSUME NEW w \in Phone!Work, Phone!Upload(w)
      PROVE  \/ UNCHANGED <<log, uploads>>
             \/ /\ \E B \in SUBSET (1 .. Len(log)) :
                     /\ \A i \in B : log[i] \in Event
                     /\ uploads' = Append(uploads, [kind |-> "batch",
                                                    events |-> {log[i] : i \in B}])
                /\ UNCHANGED log
  <2>1. batch[w] \in SUBSET (1 .. Len(log)) /\ log \in Seq(Event \cup {Torn})
    BY DEF Phone!RelayInv, Phone!TypeOK, Phone!Line
  <2>2. \A i \in batch[w] : log[i] \in Event
    BY <2>1 DEF Phone!RelayInv, Phone!BatchesIntact
  <2>3. /\ UNCHANGED log
        /\ UNCHANGED uploads \/ uploads' = Append(uploads, Phone!BatchFile(batch[w]))
    BY <1>3 DEF Phone!Upload
  <2> QED
    BY <2>1, <2>2, <2>3 DEF Phone!BatchFile
<1>4. ASSUME NEW w \in Phone!Work,
             Phone!StartWork(w) \/ Phone!GetToken(w) \/ Phone!Acknowledge(w)
             \/ Phone!Recheck(w) \/ Phone!Finish(w)
      PROVE  UNCHANGED <<log, uploads>>
  BY <1>4 DEF Phone!StartWork, Phone!GetToken, Phone!Acknowledge, Phone!Recheck,
              Phone!Finish
<1>5. CASE \/ Phone!Connect \/ Phone!ListenerEnqueue \/ Phone!UserSync
           \/ Phone!Authorize \/ Phone!AuthorizeFails \/ Phone!Revoke \/ Phone!Crash
  BY <1>5 DEF Phone!Connect, Phone!ListenerEnqueue, Phone!UserSync, Phone!Authorize,
              Phone!AuthorizeFails, Phone!Revoke, Phone!Crash
<1>6. CASE \E w \in Phone!Work : Phone!WorkerStep(w)
  BY <1>3, <1>4, <1>6 DEF Phone!WorkerStep
<1> QED
  BY <1>1, <1>2, <1>5, <1>6 DEF Phone!Next

(* A step of the collector adds no file and stages at most one event, of a *)
(* file in the folder.                                                     *)
LEMMA NasEffect ==
  ASSUME Nas!CollectorInv, Nas!CollectorNext
  PROVE  /\ UNCHANGED uploads
         /\ \/ UNCHANGED staged
            \/ \E f \in 1 .. Len(uploads), e \in Event :
                 e \in uploads[f].events /\ staged' = staged \cup {e}
<1> USE DEF Nas!sourceVars, Nas!runVars
<1>1. CASE Nas!InsertObservation
  <2>1. CASE UNCHANGED staged
    BY <1>1, <2>1 DEF Nas!InsertObservation
  <2>2. CASE ~ UNCHANGED staged
    <3>1. PICK o \in todo : staged' = staged \cup {o[2]} /\ UNCHANGED uploads
      BY <1>1, <2>2 DEF Nas!InsertObservation
    <3>2. /\ o[1] \in 1 .. Len(uploads) /\ o[2] \in Event
          /\ o[2] \in uploads[o[1]].events
      BY DEF Nas!CollectorInv, Nas!TypeOK, Nas!TodoIsReadable
    <3> QED
      BY <3>1, <3>2
  <2> QED
    BY <2>1, <2>2
<1>2. CASE \/ Nas!CadenceElapses \/ Nas!BeginRun \/ Nas!Collect \/ Nas!InsertsDone
           \/ Nas!CompleteRun \/ Nas!FailRun \/ Nas!Acknowledge
           \/ Nas!AcknowledgeDone \/ Nas!Crash
  BY <1>2 DEF Nas!CadenceElapses, Nas!BeginRun, Nas!Collect, Nas!InsertsDone,
              Nas!CompleteRun, Nas!FailRun, Nas!Acknowledge, Nas!AcknowledgeDone,
              Nas!Crash
<1> QED
  BY <1>1, <1>2 DEF Nas!CollectorNext, Nas!CycleStep

(* A step of the collector keeps the phone's invariant: it reads nothing   *)
(* the collector writes.                                                   *)
LEMMA PhoneInvUntouched ==
  ASSUME Phone!RelayInv, UNCHANGED phoneVars,
         uploads' \in Seq(Nas!DriveFile), Len(uploads) <= Len(uploads'),
         \A f \in 1 .. Len(uploads) : uploads'[f] = uploads[f]
  PROVE  Phone!RelayInv'
<1> USE DEF phoneVars, Phone!RelayInv
<1>1. Phone!TypeOK'
  BY DEF Phone!TypeOK, Nas!DriveFile, Nas!Kind
<1>2. Len(uploads) \in Nat /\ Len(uploads') \in Nat
  BY DEF Phone!TypeOK
<1>3. 1 .. Len(uploads) \subseteq 1 .. Len(uploads')
  BY <1>2
<1>4. Phone!RemovedOnlyAfterUpload'
  BY <1>3 DEF Phone!RemovedOnlyAfterUpload
<1>5. Phone!BatchesIntact'
  BY DEF Phone!BatchesIntact
<1>6. Phone!BatchesUploaded'
  BY <1>3 DEF Phone!BatchesUploaded
<1> QED
  BY <1>1, <1>4, <1>5, <1>6

(* Appending a file to the folder's history.                               *)
LEMMA FileAppended ==
  ASSUME uploads \in Seq(Nas!DriveFile), NEW file \in Nas!DriveFile,
         uploads' = Append(uploads, file)
  PROVE  /\ uploads' \in Seq(Nas!DriveFile) /\ Len(uploads) <= Len(uploads')
         /\ \A f \in 1 .. Len(uploads) : uploads'[f] = uploads[f]
         /\ \A f \in 1 .. Len(uploads') : f \in 1 .. Len(uploads) \/ uploads'[f] = file
OBVIOUS

(* Accepted follows the log.                                               *)
LEMMA AcceptedGrows ==
  ASSUME log \in Seq(Event \cup {Torn}), NEW l \in Event \cup {Torn},
         log' = Append(log, l)
  PROVE  Accepted' = IF l = Torn THEN Accepted ELSE Accepted \cup {l}
<1> DEFINE n == Len(log)
<1>1. n \in Nat /\ Len(log') = n + 1 /\ log'[n + 1] = l
      /\ \A i \in 1 .. n : log'[i] = log[i]
  OBVIOUS
<1>2. 1 .. Len(log') = (1 .. n) \cup {n + 1}
  BY <1>1
<1>3. {j \in 1 .. Len(log') : log'[j] # Torn} =
        {j \in 1 .. n : log[j] # Torn} \cup (IF l = Torn THEN {} ELSE {n + 1})
  <2> HIDE DEF n
  <2> QED
    BY <1>1, <1>2
<1>4. {log'[i] : i \in {j \in 1 .. n : log[j] # Torn}} = Accepted
  BY <1>1 DEF Accepted
<1>5. CASE l = Torn
  BY <1>3, <1>4, <1>5 DEF Accepted
<1>6. CASE l # Torn
  <2> HIDE DEF n
  <2>1. Accepted' = {log'[i] : i \in {j \in 1 .. n : log[j] # Torn} \cup {n + 1}}
    BY <1>3, <1>6 DEF Accepted
  <2> QED
    BY <1>1, <1>4, <1>6, <2>1
<1> QED
  BY <1>5, <1>6

----------------------------------------------------------------------------
THEOREM PipelineInvInit == Init => PipelineInv
<1> SUFFICES ASSUME Init PROVE PipelineInv
  OBVIOUS
<1>1. Phone!RelayInv /\ Nas!CollectorInv
  BY PhoneInvInit, NasInvInit DEF Init
<1>2. OnlyBatchesHoldEvents /\ UploadsHoldAccepted
  BY DEF Init, OnlyBatchesHoldEvents, UploadsHoldAccepted
<1> QED
  BY <1>1, <1>2 DEF PipelineInv

(* Stuttering keeps the invariant; so does a file that arrives, if it      *)
(* holds nothing or is a batch of accepted events.                         *)
LEMMA FileKeepsPipeline ==
  ASSUME OnlyBatchesHoldEvents, UploadsHoldAccepted, UNCHANGED log,
         uploads \in Seq(Nas!DriveFile), NEW file \in Nas!DriveFile,
         uploads' = Append(uploads, file),
         file.kind = "batch" \/ file.events = {}, file.events \subseteq Accepted
  PROVE  OnlyBatchesHoldEvents' /\ UploadsHoldAccepted'
<1>1. Accepted' = Accepted
  BY DEF Accepted
<1>2. /\ \A f \in 1 .. Len(uploads) : uploads'[f] = uploads[f]
      /\ \A f \in 1 .. Len(uploads') : f \in 1 .. Len(uploads) \/ uploads'[f] = file
  BY FileAppended
<1>3. OnlyBatchesHoldEvents'
  BY <1>2 DEF OnlyBatchesHoldEvents
<1>4. UploadsHoldAccepted'
  BY <1>1, <1>2 DEF UploadsHoldAccepted
<1> QED
  BY <1>3, <1>4

THEOREM PipelineInvStep == PipelineInv /\ [Next]_vars => PipelineInv'
<1> SUFFICES ASSUME PipelineInv, [Next]_vars PROVE PipelineInv'
  OBVIOUS
<1>t. /\ Phone!RelayInv /\ Nas!CollectorInv
      /\ OnlyBatchesHoldEvents /\ UploadsHoldAccepted
  BY DEF PipelineInv
<1>u. /\ uploads \in Seq(Nas!DriveFile) /\ Len(uploads) \in Nat
      /\ log \in Seq(Event \cup {Torn})
  BY <1>t DEF Nas!CollectorInv, Nas!TypeOK, Phone!RelayInv, Phone!TypeOK, Phone!Line
<1>1. CASE PhoneNext
  <2>1. Phone!RelayInv'
    BY <1>t, <1>1, PhoneInvStep DEF PhoneNext
  <2>n. UNCHANGED nasVars
    BY <1>1 DEF PhoneNext
  <2>2. CASE UNCHANGED <<log, uploads>>
    <3>1. Nas!CollectorInv'
      BY <1>t, <1>u, <2>n, <2>2, NasInvArrival
    <3>2. OnlyBatchesHoldEvents' /\ UploadsHoldAccepted'
      BY <1>t, <2>2 DEF OnlyBatchesHoldEvents, UploadsHoldAccepted, Accepted
    <3> QED
      BY <2>1, <3>1, <3>2 DEF PipelineInv
  <2>3. ASSUME NEW l \in Event \cup {Torn}, log' = Append(log, l), UNCHANGED uploads
        PROVE  PipelineInv'
    <3>1. Nas!CollectorInv'
      BY <1>t, <1>u, <2>n, <2>3, NasInvArrival
    <3>2. Accepted \subseteq Accepted'
      BY <1>u, <2>3, AcceptedGrows
    <3>3. OnlyBatchesHoldEvents' /\ UploadsHoldAccepted'
      BY <1>t, <2>3, <3>2 DEF OnlyBatchesHoldEvents, UploadsHoldAccepted
    <3> QED
      BY <2>1, <3>1, <3>3 DEF PipelineInv
  <2>4. ASSUME NEW B \in SUBSET (1 .. Len(log)), \A i \in B : log[i] \in Event,
               uploads' = Append(uploads, [kind |-> "batch",
                                           events |-> {log[i] : i \in B}]),
               UNCHANGED log
        PROVE  PipelineInv'
    <3> DEFINE file == [kind |-> "batch", events |-> {log[i] : i \in B}]
    <3>1. file \in Nas!DriveFile /\ file.kind = "batch"
      BY <2>4 DEF Nas!DriveFile, Nas!Kind
    <3>2. file.events \subseteq Accepted
      BY <2>4, PhoneAssumption DEF Accepted
    <3>3. Nas!CollectorInv'
      BY <1>t, <1>u, <2>n, <2>4, <3>1, FileAppended, NasInvArrival
    <3>4. OnlyBatchesHoldEvents' /\ UploadsHoldAccepted'
      BY <1>t, <1>u, <2>4, <3>1, <3>2, FileKeepsPipeline
    <3> QED
      BY <2>1, <3>3, <3>4 DEF PipelineInv
  <2> QED
    BY <1>t, <1>1, <2>2, <2>3, <2>4, PhoneEffect DEF PhoneNext
<1>2. CASE NasNext
  <2>1. Nas!CollectorInv' /\ UNCHANGED uploads /\ UNCHANGED phoneVars
    BY <1>t, <1>2, NasInvStep, NasEffect DEF NasNext
  <2>2. Phone!RelayInv'
    BY <1>t, <1>u, <2>1, PhoneInvUntouched
  <2>3. OnlyBatchesHoldEvents' /\ UploadsHoldAccepted'
    BY <1>t, <2>1 DEF OnlyBatchesHoldEvents, UploadsHoldAccepted, Accepted, phoneVars
  <2> QED
    BY <2>1, <2>2, <2>3 DEF PipelineInv
<1>3. CASE OtherFile
  <2>1. PICK k \in OtherKinds : uploads' = Append(uploads, [kind |-> k, events |-> {}])
    BY <1>3 DEF OtherFile
  <2>2. UNCHANGED phoneVars /\ UNCHANGED nasVars
    BY <1>3 DEF OtherFile
  <2>3. [kind |-> k, events |-> {}] \in Nas!DriveFile
    BY OthersAssumption DEF Nas!DriveFile, Nas!Kind
  <2>4. Phone!RelayInv' /\ Nas!CollectorInv'
    BY <1>t, <1>u, <2>1, <2>2, <2>3, FileAppended, PhoneInvUntouched, NasInvArrival
  <2>5. OnlyBatchesHoldEvents' /\ UploadsHoldAccepted'
    BY <1>t, <1>u, <2>1, <2>2, <2>3, FileKeepsPipeline DEF phoneVars
  <2> QED
    BY <2>4, <2>5 DEF PipelineInv
<1>4. CASE UNCHANGED vars
  <2>1. UNCHANGED phoneVars /\ UNCHANGED nasVars /\ UNCHANGED uploads
    BY <1>4 DEF vars
  <2>2. Phone!RelayInv' /\ Nas!CollectorInv'
    BY <1>t, <1>u, <2>1, PhoneInvUntouched, NasInvArrival
  <2>3. OnlyBatchesHoldEvents' /\ UploadsHoldAccepted'
    BY <1>t, <2>1 DEF OnlyBatchesHoldEvents, UploadsHoldAccepted, Accepted, phoneVars
  <2> QED
    BY <2>2, <2>3 DEF PipelineInv
<1> QED
  BY <1>1, <1>2, <1>3, <1>4 DEF Next

THEOREM PipelineInvariant == Spec => []PipelineInv
BY PipelineInvInit, PipelineInvStep, PTL DEF Spec

(* No event is lost between the phone's queue and the staging table.       *)
THEOREM NoEventLostHolds == Spec => []NoEventLost
<1>1. PipelineInv => NoEventLost
  <2> SUFFICES ASSUME PipelineInv, NEW i \in 1 .. Len(log), log[i] # Torn, i \notin pending
               PROVE  \/ \E f \in Nas!Folder : /\ uploads[f].kind = "batch"
                                               /\ log[i] \in uploads[f].events
                      \/ log[i] \in staged
    BY DEF NoEventLost
  <2>1. PICK f \in 1 .. Len(uploads) : log[i] \in uploads[f].events
    BY DEF PipelineInv, Phone!RelayInv, Phone!RemovedOnlyAfterUpload
  <2>2. uploads[f].kind = "batch"
    BY <2>1 DEF PipelineInv, OnlyBatchesHoldEvents
  <2>3. CASE f \in deleted
    BY <2>1, <2>3 DEF PipelineInv, Nas!CollectorInv, Nas!DeletedOnlyAfterStaged,
                      Nas!EventsIn
  <2>4. CASE f \notin deleted
    BY <2>1, <2>2, <2>4 DEF Nas!Folder
  <2> QED
    BY <2>3, <2>4
<1> QED
  BY <1>1, PipelineInvariant, PTL

(* The relay implements the safety part of EventRelay: it stages accepted  *)
(* events only, one at a time and each once.                               *)
THEOREM ImplementsSafetyHolds == Spec => ImplementsSafety
<1>1. Init => Abstract!Init
  BY DEF Init, Phone!PhoneInit, Nas!CollectorInit, Abstract!Init, Accepted
<1>2. PipelineInv /\ [Next]_vars => [Abstract!Next]_(Abstract!vars)
  <2> SUFFICES ASSUME PipelineInv, [Next]_vars
               PROVE  [Abstract!Next]_(Abstract!vars)
    OBVIOUS
  <2>t. Phone!RelayInv /\ Nas!CollectorInv /\ UploadsHoldAccepted
    BY DEF PipelineInv
  <2>u. log \in Seq(Event \cup {Torn})
    BY <2>t DEF Phone!RelayInv, Phone!TypeOK, Phone!Line
  <2>s. ASSUME UNCHANGED log, UNCHANGED staged PROVE UNCHANGED Abstract!vars
    BY <2>s DEF Abstract!vars, Accepted
  <2>1. CASE PhoneNext
    <3>1. UNCHANGED staged
      BY <2>1 DEF PhoneNext, nasVars
    <3>2. ASSUME NEW l \in Event \cup {Torn}, log' = Append(log, l)
          PROVE  [Abstract!Next]_(Abstract!vars)
      <4>1. Accepted' = IF l = Torn THEN Accepted ELSE Accepted \cup {l}
        BY <2>u, <3>2, AcceptedGrows
      <4>2. CASE l = Torn
        BY <3>1, <4>1, <4>2 DEF Abstract!vars
      <4>3. CASE l # Torn
        <5>1. l \in Event /\ Abstract!Accept(l)
          BY <3>1, <4>1, <4>3 DEF Abstract!Accept
        <5> QED
          BY <5>1 DEF Abstract!Next
      <4> QED
        BY <4>2, <4>3
    <3> QED
      BY <2>t, <2>1, <2>s, <3>1, <3>2, PhoneEffect DEF PhoneNext
  <2>2. CASE NasNext
    <3>1. UNCHANGED log /\ Accepted' = Accepted
      BY <2>2 DEF NasNext, phoneVars, Accepted
    <3>2. CASE UNCHANGED staged
      BY <2>s, <3>1, <3>2
    <3>3. ASSUME NEW f \in 1 .. Len(uploads), NEW e \in Event,
                 e \in uploads[f].events, staged' = staged \cup {e}
          PROVE  [Abstract!Next]_(Abstract!vars)
      <4>1. e \in Accepted
        BY <2>t, <3>3 DEF UploadsHoldAccepted
      <4>2. CASE e \in staged
        BY <2>s, <3>1, <3>3, <4>2
      <4>3. CASE e \notin staged
        <5>1. Abstract!Stage(e)
          BY <3>1, <3>3, <4>1, <4>3 DEF Abstract!Stage
        <5> QED
          BY <5>1 DEF Abstract!Next
      <4> QED
        BY <4>2, <4>3
    <3> QED
      BY <2>t, <2>2, <3>2, <3>3, NasEffect DEF NasNext
  <2>3. CASE OtherFile
    BY <2>s, <2>3 DEF OtherFile, phoneVars, nasVars
  <2>4. CASE UNCHANGED vars
    BY <2>s, <2>4 DEF vars, phoneVars, nasVars
  <2> QED
    BY <2>1, <2>2, <2>3, <2>4 DEF Next
<1> QED
  BY <1>1, <1>2, PipelineInvariant, PTL
     DEF Spec, ImplementsSafety, Abstract!Safety

=============================================================================
