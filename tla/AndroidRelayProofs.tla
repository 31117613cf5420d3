------------------------- MODULE AndroidRelayProofs -------------------------
(***************************************************************************)
(* Type correctness and RemovedOnlyAfterUpload of AndroidRelay, for every  *)
(* set of events, batch limit and fault bound.  The inductive invariant is *)
(* RelayInv; lemmas state what Append does to a log and to the uploads.    *)
(* The last part shows what a torn line does to the relay.                 *)
(***************************************************************************)
EXTENDS AndroidRelay, FiniteSetTheorems, TLAPS

(* The lines readBatch takes are lines of the file.                        *)
LEMMA FirstLinesOfFile ==
  ASSUME NEW lines, NEW n PROVE FirstLines(lines, n) \subseteq lines
BY DEF FirstLines

(* Appending to a sequence keeps its elements where they are.              *)
LEMMA AppendKeeps ==
  ASSUME NEW S, NEW s \in Seq(S), NEW e \in S
  PROVE  /\ Append(s, e) \in Seq(S)
         /\ Len(Append(s, e)) = Len(s) + 1
         /\ Append(s, e)[Len(s) + 1] = e
         /\ \A i \in 1 .. Len(s) : Append(s, e)[i] = s[i]
         /\ Len(s) \in Nat
OBVIOUS

File == [kind : {"batch", "malformed", "foreign"}, events : SUBSET Event]

(* A batch of intact lines is a well-formed file that holds their events.  *)
LEMMA BatchFileOfEvents ==
  ASSUME TypeOK, BatchesIntact, NEW w \in Work
  PROVE  /\ BatchFile(batch[w]) \in File
         /\ BatchFile(batch[w]).events = {log[i] : i \in batch[w]}
<1>1. batch[w] \subseteq 1 .. Len(log)
  BY DEF TypeOK
<1>2. \A i \in batch[w] : log[i] \in Event
  BY <1>1 DEF TypeOK, BatchesIntact, Line
<1> QED
  BY <1>2 DEF BatchFile, File

THEOREM RelayInvInit == Init => RelayInv
<1> SUFFICES ASSUME Init PROVE RelayInv
  OBVIOUS
<1> USE BoundsAssumption DEF Init, PhoneInit
<1>1. TypeOK
  <2>1. log \in Seq(Line) /\ pending \subseteq 1 .. Len(log)
    OBVIOUS
  <2>2. work \in [Work -> WorkState] /\ pc \in [Work -> WorkerPc]
    BY DEF WorkState, WorkerPc
  <2>3. batch \in [Work -> SUBSET (1 .. Len(log))]
    OBVIOUS
  <2>4. openTail \in BOOLEAN /\ grant \in BOOLEAN /\ authRequired \in BOOLEAN
    OBVIOUS
  <2>5. listener \in {"idle", "enqueue"} /\ faults \in 0 .. MaxFaults
    OBVIOUS
  <2>6. uploads \in Seq([kind : {"batch", "malformed", "foreign"},
                        events : SUBSET Event])
    OBVIOUS
  <2> QED
    BY <2>1, <2>2, <2>3, <2>4, <2>5, <2>6 DEF TypeOK
<1>2. RemovedOnlyAfterUpload
  BY DEF RemovedOnlyAfterUpload
<1>3. BatchesIntact /\ BatchesUploaded
  BY DEF BatchesIntact, BatchesUploaded, Work
<1> QED
  BY <1>1, <1>2, <1>3 DEF RelayInv

(* A step that appends a line keeps the invariant: no old position changes.*)
LEMMA AppendedLine ==
  ASSUME RelayInv, NEW l \in Line,
         log' = Append(log, l),
         pending' = pending \cup {Len(log) + 1},
         UNCHANGED <<batch, pc, uploads>>
  PROVE  /\ log' \in Seq(Line)
         /\ pending' \subseteq 1 .. Len(log')
         /\ batch' \in [Work -> SUBSET (1 .. Len(log'))]
         /\ RemovedOnlyAfterUpload' /\ BatchesIntact' /\ BatchesUploaded'
<1> DEFINE n == Len(log)
<1>1. log \in Seq(Line) /\ n \in Nat /\ pending \subseteq 1 .. n
  BY DEF RelayInv, TypeOK
<1>2. /\ log' \in Seq(Line) /\ Len(log') = n + 1
      /\ \A i \in 1 .. n : log'[i] = log[i]
  BY <1>1, AppendKeeps
<1>3. \A w \in Work : batch[w] \subseteq 1 .. n
  BY DEF RelayInv, TypeOK
<1>4. batch' \in [Work -> SUBSET (1 .. Len(log'))]
  <2>1. 1 .. n \subseteq 1 .. (n + 1)
    BY <1>1
  <2> QED
    BY <1>2, <1>3, <2>1 DEF RelayInv, TypeOK
<1>5. RemovedOnlyAfterUpload'
  BY <1>1, <1>2 DEF RelayInv, RemovedOnlyAfterUpload
<1>6. BatchesIntact'
  BY <1>2, <1>3 DEF RelayInv, BatchesIntact
<1>7. BatchesUploaded'
  BY <1>2, <1>3 DEF RelayInv, BatchesUploaded
<1>8. pending' \subseteq 1 .. Len(log')
  <2>1. 1 .. n \subseteq 1 .. (n + 1) /\ n + 1 \in 1 .. (n + 1)
    BY <1>1
  <2>2. pending' = pending \cup {n + 1}
    OBVIOUS
  <2> HIDE DEF n
  <2> QED
    BY <1>1, <1>2, <2>1, <2>2
<1> QED
  BY <1>2, <1>4, <1>5, <1>6, <1>7, <1>8

(* A fault is counted below its bound.                                     *)
LEMMA FaultCount ==
  ASSUME TypeOK, Fault \/ NoFault PROVE faults' \in 0 .. MaxFaults
<1>1. CASE Fault
  BY <1>1, BoundsAssumption DEF TypeOK, Fault
<1>2. CASE NoFault
  BY <1>2 DEF TypeOK, NoFault
<1> QED
  BY <1>1, <1>2

(* The step is one in which the queue and the uploads do not change and no *)
(* run comes to "acknowledge".                                             *)
LEMMA QuietStep ==
  ASSUME RelayInv,
         UNCHANGED <<log, pending, uploads>>,
         \A w \in Work : pc'[w] = "acknowledge" => pc[w] = "acknowledge",
         \A w \in Work : batch'[w] = batch[w] \/ batch'[w] = {}
  PROVE  RemovedOnlyAfterUpload' /\ BatchesIntact' /\ BatchesUploaded'
<1>1. RemovedOnlyAfterUpload'
  BY DEF RelayInv, RemovedOnlyAfterUpload
<1>2. BatchesIntact'
  BY DEF RelayInv, BatchesIntact
<1>3. BatchesUploaded'
  BY DEF RelayInv, BatchesUploaded
<1> QED
  BY <1>1, <1>2, <1>3

THEOREM RelayInvStep == RelayInv /\ [Next]_vars => RelayInv'
<1> SUFFICES ASSUME RelayInv, [Next]_vars PROVE RelayInv'
  OBVIOUS
<1> USE DEF RelayInv
<1>t. TypeOK
  OBVIOUS
<1> USE DEF vars, phoneVars, queueVars, workVars, authVars
<1>1. CASE Connect
  <2>1. TypeOK'
    BY <1>t, <1>1 DEF Connect, TypeOK, Work, WorkState
  <2> QED
    BY <2>1, <1>1, QuietStep DEF Connect
<1>2. ASSUME NEW e \in Event, AppendEvent(e) PROVE RelayInv'
  <2>1. CASE ~openTail
    <3>1. e \in Line
      BY DEF Line
    <3>2. /\ log' = Append(log, e) /\ pending' = pending \cup {Len(log) + 1}
          /\ UNCHANGED <<batch, pc, uploads>>
      BY <1>2, <2>1 DEF AppendEvent
    <3>3. /\ log' \in Seq(Line)
          /\ pending' \subseteq 1 .. Len(log')
          /\ batch' \in [Work -> SUBSET (1 .. Len(log'))]
          /\ RemovedOnlyAfterUpload' /\ BatchesIntact' /\ BatchesUploaded'
      BY <3>1, <3>2, AppendedLine
    <3>4. TypeOK'
      BY <1>t, <1>2, <2>1, <3>3 DEF AppendEvent, TypeOK
    <3> QED
      BY <3>3, <3>4
  <2>2. CASE openTail
    <3>1. TypeOK'
      BY <1>t, <1>2, <2>2 DEF AppendEvent, TypeOK
    <3> QED
      BY <3>1, <1>2, <2>2, QuietStep DEF AppendEvent
  <2> QED
    BY <2>1, <2>2
<1>3. CASE AppendCutShort
  <2>1. PICK line \in Line : log' = Append(log, line)
    BY <1>3 DEF AppendCutShort
  <2>2. pending' = pending \cup {Len(log) + 1} /\ UNCHANGED <<batch, pc, uploads>>
    BY <1>3 DEF AppendCutShort
  <2>3. /\ log' \in Seq(Line)
        /\ pending' \subseteq 1 .. Len(log')
        /\ batch' \in [Work -> SUBSET (1 .. Len(log'))]
        /\ RemovedOnlyAfterUpload' /\ BatchesIntact' /\ BatchesUploaded'
    BY <2>1, <2>2, AppendedLine
  <2>4. TypeOK'
    BY <1>t, <1>3, <2>3, FaultCount DEF AppendCutShort, TypeOK
  <2> QED
    BY <2>3, <2>4
<1>4. CASE ListenerEnqueue \/ UserSync \/ Authorize \/ AuthorizeFails \/ Revoke
  <2>e. EnqueueNow(work) \in [Work -> WorkState]
    BY <1>t DEF EnqueueNow, TypeOK, Work, WorkState
  <2>1. TypeOK'
    <3>1. CASE ListenerEnqueue \/ UserSync
      BY <1>t, <3>1, <2>e DEF ListenerEnqueue, UserSync, TypeOK
    <3>2. CASE Authorize
      BY <1>t, <3>2, <2>e DEF Authorize, TypeOK
    <3>3. CASE AuthorizeFails
      BY <1>t, <3>3 DEF AuthorizeFails, TypeOK
    <3>4. CASE Revoke
      <4>1. faults' \in 0 .. MaxFaults
        BY <1>t, <3>4, FaultCount DEF Revoke
      <4>2. grant' \in BOOLEAN /\ authRequired' \in BOOLEAN
        BY <1>t, <3>4 DEF Revoke, TypeOK
      <4> QED
        BY <1>t, <3>4, <4>1, <4>2 DEF Revoke, TypeOK
    <3> QED
      BY <1>4, <3>1, <3>2, <3>3, <3>4
  <2>2. UNCHANGED <<log, pending, uploads, pc, batch>>
    BY <1>4 DEF ListenerEnqueue, UserSync, Authorize, AuthorizeFails, Revoke
  <2> QED
    BY <2>1, <2>2, QuietStep
<1>5. ASSUME NEW w \in Work, WorkerStep(w) PROVE RelayInv'
  <2>1. CASE StartWork(w)
    <3> DEFINE lines == FirstLines(pending, BatchLimit)
    <3>1. lines \subseteq 1 .. Len(log)
      BY <1>t, FirstLinesOfFile DEF TypeOK
    <3>2. TypeOK'
      <4>1. faults' \in 0 .. MaxFaults
        BY <1>t, <2>1, FaultCount DEF StartWork
      <4>2. work' \in [Work -> WorkState]
        BY <1>t, <2>1 DEF StartWork, TypeOK, WorkState
      <4>3. pc' \in [Work -> WorkerPc]
        BY <1>t, <2>1 DEF StartWork, TypeOK, WorkerPc, Returned
      <4>4. batch' \in [Work -> SUBSET (1 .. Len(log))]
        BY <1>t, <2>1, <3>1 DEF StartWork, TypeOK
      <4> QED
        BY <1>t, <2>1, <4>1, <4>2, <4>3, <4>4 DEF StartWork, TypeOK
    <3>3. UNCHANGED <<log, pending, uploads>>
      BY <2>1 DEF StartWork
    <3>4. RemovedOnlyAfterUpload'
      BY <3>3 DEF RemovedOnlyAfterUpload
    <3>5. BatchesIntact'
      BY <1>t, <2>1 DEF StartWork, BatchesIntact, TypeOK
    <3>6. BatchesUploaded'
      BY <1>t, <2>1 DEF StartWork, BatchesUploaded, TypeOK
    <3> QED
      BY <3>2, <3>4, <3>5, <3>6
  <2>2. CASE GetToken(w) \/ Recheck(w) \/ Finish(w)
    <3>1. TypeOK'
      <4>1. CASE GetToken(w)
        <5>1. pc' \in [Work -> WorkerPc]
          BY <1>t, <4>1 DEF GetToken, TypeOK, WorkerPc, Returned
        <5>2. authRequired' \in BOOLEAN
          BY <1>t, <4>1, Zenon DEF GetToken, TypeOK
        <5>3. faults' \in 0 .. MaxFaults
          BY <1>t, <4>1, FaultCount DEF GetToken
        <5> QED
          BY <1>t, <4>1, <5>1, <5>2, <5>3 DEF GetToken, TypeOK
      <4>2. CASE Recheck(w)
        <5>1. work' \in [Work -> WorkState]
          BY <1>t, <4>2 DEF Recheck, EnqueueNow, TypeOK, Work, WorkState
        <5>2. pc' \in [Work -> WorkerPc]
          BY <1>t, <4>2 DEF Recheck, TypeOK, WorkerPc, Returned
        <5>3. faults' \in 0 .. MaxFaults
          BY <1>t, <4>2, FaultCount DEF Recheck
        <5> QED
          BY <1>t, <4>2, <5>1, <5>2, <5>3 DEF Recheck, TypeOK
      <4>3. CASE Finish(w)
        BY <1>t, <4>3 DEF Finish, TypeOK, WorkState, WorkerPc
      <4> QED
        BY <2>2, <4>1, <4>2, <4>3
    <3>2. /\ UNCHANGED <<log, pending, uploads>>
          /\ \A v \in Work : pc'[v] = "acknowledge" => pc[v] = "acknowledge"
          /\ \A v \in Work : batch'[v] = batch[v] \/ batch'[v] = {}
      BY <1>t, <2>2 DEF GetToken, Recheck, Finish, TypeOK
    <3> QED
      BY <3>1, <3>2, QuietStep
  <2>3. CASE Upload(w)
    <3> DEFINE file == BatchFile(batch[w])
    <3>1. file \in File /\ file.events = {log[i] : i \in batch[w]}
      BY <1>t, BatchFileOfEvents
    <3>2. /\ uploads \in Seq(File)
          /\ uploads' = uploads \/ uploads' = Append(uploads, file)
          /\ pc'[w] = "acknowledge" => uploads' = Append(uploads, file)
          /\ \A v \in Work : v # w => pc'[v] = pc[v]
          /\ UNCHANGED <<log, pending, batch>>
      BY <1>t, <2>3 DEF Upload, TypeOK, File
    <3>3. /\ uploads' \in Seq(File)
          /\ Len(uploads) \in Nat
          /\ 1 .. Len(uploads) \subseteq 1 .. Len(uploads')
          /\ \A f \in 1 .. Len(uploads) : uploads'[f] = uploads[f]
      BY <3>1, <3>2, AppendKeeps
    <3>4. TypeOK'
      <4>1. faults' \in 0 .. MaxFaults
        BY <1>t, <2>3, FaultCount DEF Upload
      <4>2. pc' \in [Work -> WorkerPc]
        BY <1>t, <2>3 DEF Upload, TypeOK, WorkerPc, Returned
      <4> QED
        BY <1>t, <2>3, <3>3, <4>1, <4>2 DEF Upload, TypeOK, File
    <3>5. RemovedOnlyAfterUpload'
      BY <3>2, <3>3 DEF RemovedOnlyAfterUpload
    <3>6. BatchesIntact'
      BY <3>2 DEF BatchesIntact
    <3>7. BatchesUploaded'
      <4> SUFFICES ASSUME NEW v \in Work, pc'[v] = "acknowledge", NEW i \in batch[v]
                   PROVE  \E f \in 1 .. Len(uploads') : log[i] \in uploads'[f].events
        BY <3>2 DEF BatchesUploaded
      <4>1. CASE v = w
        <5>1. uploads' = Append(uploads, file)
          BY <4>1, <3>2
        <5>2. /\ Len(uploads) + 1 \in 1 .. Len(uploads')
              /\ uploads'[Len(uploads) + 1] = file
          BY <5>1, <3>1, <3>2, AppendKeeps
        <5> QED
          BY <4>1, <5>2, <3>1
      <4>2. CASE v # w
        BY <4>2, <3>2, <3>3 DEF BatchesUploaded
      <4> QED
        BY <4>1, <4>2
    <3> QED
      BY <3>4, <3>5, <3>6, <3>7
  <2>4. CASE Acknowledge(w)
    <3>1. TypeOK'
      <4>1. pc' \in [Work -> WorkerPc]
        BY <1>t, <2>4 DEF Acknowledge, TypeOK, WorkerPc, Returned
      <4>2. pending' \subseteq 1 .. Len(log)
        BY <1>t, <2>4 DEF Acknowledge, TypeOK
      <4>3. faults' \in 0 .. MaxFaults
        BY <1>t, <2>4, FaultCount DEF Acknowledge
      <4>4. openTail' \in BOOLEAN /\ authRequired' \in BOOLEAN
        BY <1>t, <2>4, Zenon DEF Acknowledge, TypeOK
      <4> QED
        BY <1>t, <2>4, <4>1, <4>2, <4>3, <4>4 DEF Acknowledge, TypeOK
    <3>2. /\ UNCHANGED <<log, batch, uploads>>
          /\ pending' \subseteq pending
          /\ \A i \in pending : i \in pending' \/ log[i] \in {log[j] : j \in batch[w]}
          /\ pc[w] = "acknowledge"
      BY <2>4 DEF Acknowledge
    <3>3. \A v \in Work : pc'[v] = "acknowledge" => pc[v] = "acknowledge"
      BY <1>t, <2>4 DEF Acknowledge, TypeOK
    <3>4. RemovedOnlyAfterUpload'
      BY <3>2 DEF RemovedOnlyAfterUpload, BatchesUploaded
    <3>5. BatchesIntact' /\ BatchesUploaded'
      BY <3>2, <3>3 DEF BatchesIntact, BatchesUploaded
    <3> QED
      BY <3>1, <3>4, <3>5
  <2> QED
    BY <1>5, <2>1, <2>2, <2>3, <2>4 DEF WorkerStep
<1>6. CASE Crash
  <2>1. TypeOK'
    BY <1>t, <1>6, FaultCount DEF Crash, TypeOK, Work, WorkState, WorkerPc
  <2>2. /\ UNCHANGED <<log, pending, uploads>>
        /\ \A v \in Work : pc'[v] = "idle" /\ batch'[v] = {}
    BY <1>6 DEF Crash
  <2> QED
    BY <2>1, <2>2, QuietStep
<1>7. CASE UNCHANGED vars
  <2>1. TypeOK'
    BY <1>t, <1>7 DEF TypeOK
  <2> QED
    BY <2>1, <1>7, QuietStep
<1> QED
  BY <1>1, <1>2, <1>3, <1>4, <1>5, <1>6, <1>7 DEF Next

(* Every variable keeps its type (AndroidRelay's TypeOK).                  *)
THEOREM TypeCorrect == Spec => []TypeOK
<1>1. RelayInv => TypeOK
  BY DEF RelayInv
<1> QED
  BY <1>1, RelayInvInit, RelayInvStep, PTL DEF Spec

(* An event leaves the queue only once a batch file in Drive holds it      *)
(* (EventStore.acknowledge after DriveRelay.upload).                       *)
THEOREM RemovedOnlyAfterUploadHolds == Spec => []RemovedOnlyAfterUpload
<1>1. RelayInv => RemovedOnlyAfterUpload
  BY DEF RelayInv
<1> QED
  BY <1>1, RelayInvInit, RelayInvStep, PTL DEF Spec

(***************************************************************************)
(* An unreadable line among those readBatch takes stops the relay for good *)
(* (EventStore.readBatch throws outside doWork's try): it never leaves the *)
(* head of the queue, no run gets past readBatch again, and when those     *)
(* under way are over nothing more is uploaded or removed.                 *)
(***************************************************************************)
TornInHead == \E i \in FirstLines(pending, BatchLimit) : log[i] = Torn

Underway(w) == pc[w] \in {"token", "upload", "acknowledge"}

TornHeadStopsRelay ==
  [][TornInHead =>
       /\ TornInHead'
       /\ \A w \in Work : Underway(w)' => Underway(w)
       /\ (\A w \in Work : ~Underway(w)) => uploads' = uploads /\ pending \subseteq pending']_vars

(* A line keeps its place in the head when no line comes in front of it.   *)
LEMMA HeadIsKept ==
  ASSUME NEW k \in Nat, NEW lines, lines \subseteq 1 .. k, NEW later,
         NEW i \in FirstLines(lines, BatchLimit), i \in later,
         \A j \in later : j < i => j \in lines
  PROVE  i \in FirstLines(later, BatchLimit)
<1> DEFINE before == {j \in lines : j < i}
           stillBefore == {j \in later : j < i}
<1>1. IsFiniteSet(before)
  <2>1. IsFiniteSet(1 .. k)
    BY FS_Interval
  <2>2. before \subseteq 1 .. k
    OBVIOUS
  <2> QED
    BY <2>1, <2>2, FS_Subset
<1>2. /\ Cardinality(stillBefore) <= Cardinality(before)
      /\ Cardinality(stillBefore) \in Nat /\ Cardinality(before) \in Nat
  <2>1. stillBefore \subseteq before
    OBVIOUS
  <2> QED
    BY <1>1, <2>1, FS_Subset, FS_CardinalityType
<1>3. Cardinality(before) < BatchLimit
  BY DEF FirstLines
<1>4. Cardinality(stillBefore) < BatchLimit
  BY <1>2, <1>3, BatchLimitAssumption
<1> QED
  BY <1>4 DEF FirstLines

(* The lines of the log stay, new ones come behind, and no torn line ever  *)
(* leaves the queue: acknowledge takes intact ones.                        *)
LEMMA TornLinesStay ==
  ASSUME RelayInv, [Next]_vars, NEW i \in pending, log[i] = Torn
  PROVE  /\ i \in pending' /\ log'[i] = Torn
         /\ \A j \in pending' : j < i => j \in pending
<1>t. log \in Seq(Line) /\ pending \subseteq 1 .. Len(log)
  BY DEF RelayInv, TypeOK
<1>1. CASE (\E e \in Event : AppendEvent(e)) \/ AppendCutShort
  <2>1. \/ UNCHANGED <<log, pending>>
        \/ \E l \in Line : log' = Append(log, l) /\ pending' = pending \cup {Len(log) + 1}
    BY <1>1 DEF AppendEvent, AppendCutShort, Line
  <2>2. ASSUME NEW l \in Line, log' = Append(log, l)
        PROVE  Len(log) \in Nat /\ \A j \in 1 .. Len(log) : log'[j] = log[j]
    BY <1>t, <2>2, AppendKeeps
  <2> QED
    BY <1>t, <2>1, <2>2
<1>2. CASE \E w \in Work : Acknowledge(w)
  <2>1. PICK w \in Work : Acknowledge(w)
    BY <1>2
  <2>2. /\ log' = log
        /\ \/ pending' = pending
           \/ pending' = {j \in pending : log[j] \notin {log[b] : b \in batch[w]}}
    BY <2>1 DEF Acknowledge
  <2>3. Torn \notin {log[b] : b \in batch[w]}
    BY DEF RelayInv, BatchesIntact
  <2> QED
    BY <2>2, <2>3
<1>3. CASE UNCHANGED <<log, pending>>
  BY <1>3
<1>4. ASSUME NEW w \in Work, WorkerStep(w), ~Acknowledge(w)
      PROVE  UNCHANGED <<log, pending>>
  BY <1>4 DEF WorkerStep, StartWork, GetToken, Upload, Recheck, Finish, queueVars
<1> QED
  BY <1>1, <1>2, <1>3, <1>4
     DEF Next, Connect, ListenerEnqueue, UserSync, Authorize, AuthorizeFails, Revoke,
         Crash, queueVars, phoneVars, vars, WorkerStep

(* With a torn line in the head only a run that is under way uploads a     *)
(* batch or removes lines, and none gets under way.                        *)
LEMMA NoRunGetsPastTornHead ==
  ASSUME RelayInv, [Next]_vars, TornInHead
  PROVE  /\ \A w \in Work : Underway(w)' => Underway(w)
         /\ \/ \E w \in Work : Underway(w)
            \/ uploads' = uploads /\ pending \subseteq pending'
<1>t. pc \in [Work -> WorkerPc]
  BY DEF RelayInv, TypeOK
<1>1. ASSUME NEW w \in Work, WorkerStep(w)
      PROVE  /\ \A v \in Work : Underway(v)' => Underway(v)
             /\ Underway(w) \/ (uploads' = uploads /\ pending' = pending)
  <2>1. CASE StartWork(w)
    BY <1>t, <2>1 DEF StartWork, TornInHead, Underway, queueVars
  <2>2. CASE GetToken(w) \/ Upload(w) \/ Acknowledge(w)
    BY <1>t, <2>2 DEF GetToken, Upload, Acknowledge, Underway
  <2>3. CASE Recheck(w) \/ Finish(w)
    BY <1>t, <2>3 DEF Recheck, Finish, Underway, queueVars, Returned
  <2> QED
    BY <1>1, <2>1, <2>2, <2>3 DEF WorkerStep
<1>2. CASE Crash
  BY <1>2 DEF Crash, Underway, queueVars
<1>3. ASSUME ~Crash, ~\E w \in Work : WorkerStep(w)
      PROVE  pc' = pc /\ uploads' = uploads /\ pending \subseteq pending'
  BY <1>3 DEF Next, Connect, AppendEvent, AppendCutShort, ListenerEnqueue, UserSync,
     Authorize, AuthorizeFails, Revoke, queueVars, workVars, phoneVars, vars
<1> QED
  BY <1>1, <1>2, <1>3 DEF Underway

(* A torn line that has come within the first MAX_BATCH lines stays there: *)
(* every later run fails before it has read its batch.                     *)
THEOREM TornHeadStopsRelayForGood == Spec => TornHeadStopsRelay
<1> DEFINE Step == TornInHead =>
                     /\ TornInHead'
                     /\ \A w \in Work : Underway(w)' => Underway(w)
                     /\ (\A w \in Work : ~Underway(w))
                          => uploads' = uploads /\ pending \subseteq pending'
<1>1. ASSUME RelayInv, [Next]_vars, TornInHead PROVE TornInHead'
  <2>1. PICK i \in FirstLines(pending, BatchLimit) : log[i] = Torn
    BY <1>1 DEF TornInHead
  <2>2. i \in pending
    BY FirstLinesOfFile
  <2>3. /\ i \in pending' /\ log'[i] = Torn
        /\ \A j \in pending' : j < i => j \in pending
    BY <1>1, <2>1, <2>2, TornLinesStay
  <2>4. Len(log) \in Nat /\ pending \subseteq 1 .. Len(log)
    BY <1>1 DEF RelayInv, TypeOK
  <2>5. i \in FirstLines(pending', BatchLimit)
    BY <2>3, <2>4, HeadIsKept
  <2> QED
    BY <2>3, <2>5 DEF TornInHead
<1>2. RelayInv /\ [Next]_vars => [Step]_vars
  BY <1>1, NoRunGetsPastTornHead
<1> QED
  BY <1>2, RelayInvInit, RelayInvStep, PTL DEF Spec, TornHeadStopsRelay

============================================================================
