---------------------------- MODULE AndroidRelay ----------------------------
(***************************************************************************)
(* The Android companion: the notification listener appends normalized     *)
(* events to an app-private NDJSON queue, and two WorkManager works (the   *)
(* unique immediate work and the periodic safety work) run RelayWorker,    *)
(* which uploads the head of the queue to the Drive appDataFolder as one   *)
(* batch file and then removes the uploaded lines from the queue.          *)
(*                                                                         *)
(* The queue is kept as an immutable log of every line ever written plus   *)
(* the positions of the lines that are still in the file.  The Drive side  *)
(* is seen through `uploads`, the history of every file ever created: the  *)
(* phone never lists, reads or deletes a file.                             *)
(***************************************************************************)
EXTENDS Naturals, Sequences, FiniteSets

CONSTANTS
  Event,       \* normalized events, identified by NormalizedEvent.eventId
  Torn,        \* a queue line that is not a JSON object (a cut-short append)
  BatchLimit,  \* readBatch's limit (100 in the code)
  Tears,       \* whether an append may be cut short (disk full, power loss)
  MaxAppends,  \* bound: lines ever written to the queue
  MaxFaults    \* bound: crashes, lost replies, failed calls, revocations

ASSUME TornAssumption == Torn \notin Event
ASSUME BatchLimitAssumption == BatchLimit \in Nat \ {0}
ASSUME TearsAssumption == Tears \in BOOLEAN
ASSUME BoundsAssumption == MaxAppends \in Nat /\ MaxFaults \in Nat

VARIABLES
  log,          \* every line ever written to pending-events.ndjson, in order
  pending,      \* positions of the lines still in the file
  openTail,     \* the file ends in a line without its newline
  listener,     \* where onNotificationPosted is: "idle" or "enqueue"
  work,         \* WorkManager's state of each unique work
  pc,           \* where doWork is in each work's run, or what it returned
  batch,        \* the lines each run has read with readBatch
  grant,        \* Google would currently issue an access token
  authRequired, \* shared preference drive_auth_required
  uploads,      \* every file ever created in appDataFolder, oldest first
  faults        \* faults so far (bound only)

queueVars == <<log, pending, openTail>>
workVars == <<work, pc, batch>>
authVars == <<grant, authRequired>>
phoneVars == <<queueVars, listener, workVars, authVars, faults>>
vars == <<phoneVars, uploads>>

----------------------------------------------------------------------------
Line == Event \cup {Torn}
Work == {"now", "safety"}
WorkState == {"none", "enqueued", "running"}
Returned == {"success", "retry", "failure"}
WorkerPc == {"idle", "token", "upload", "acknowledge", "recheck"} \cup Returned

(* The first n lines of the file, as positions. *)
FirstLines(lines, n) ==
  {i \in lines : Cardinality({j \in lines : j < i}) < n}

(* A batch file the NAS parser accepts: buildBatch over the events read. *)
BatchFile(lines) == [kind |-> "batch", events |-> {log[i] : i \in lines}]

(* enqueueUniqueWork(IMMEDIATE_WORK, KEEP): dropped while a request with   *)
(* that name is enqueued or running.                                       *)
EnqueueNow(w) ==
  IF w["now"] = "none" THEN [w EXCEPT !["now"] = "enqueued"] ELSE w

TypeOK ==
  /\ log \in Seq(Line)
  /\ pending \subseteq 1 .. Len(log)
  /\ openTail \in BOOLEAN
  /\ listener \in {"idle", "enqueue"}
  /\ work \in [Work -> WorkState]
  /\ pc \in [Work -> WorkerPc]
  /\ batch \in [Work -> SUBSET (1 .. Len(log))]
  /\ grant \in BOOLEAN
  /\ authRequired \in BOOLEAN
  /\ uploads \in Seq([kind : {"batch", "malformed", "foreign"},
                      events : SUBSET Event])
  /\ faults \in 0 .. MaxFaults

PhoneInit ==
  /\ log = <<>>
  /\ pending = {}
  /\ openTail = FALSE
  /\ listener = "idle"
  /\ work = [w \in Work |-> "none"]
  /\ pc = [w \in Work |-> "idle"]
  /\ batch = [w \in Work |-> {}]
  /\ grant \in BOOLEAN
  /\ authRequired = FALSE
  /\ faults = 0

Init == PhoneInit /\ uploads = <<>>

Fault == faults < MaxFaults /\ faults' = faults + 1
NoFault == UNCHANGED faults

----------------------------------------------------------------------------
(* The listener service and the activity.                                  *)

(* Mutant of Connect: the periodic work is forgotten.                      *)
ConnectWithoutSchedule == work["safety"] = "none" /\ UNCHANGED vars

(* onListenerConnected and MainActivity.onCreate: ensureSafetySchedule.    *)
Connect ==
  /\ work["safety"] = "none"
  /\ work' = [work EXCEPT !["safety"] = "enqueued"]
  /\ UNCHANGED <<queueVars, listener, pc, batch, authVars, uploads, faults>>

(* Mutant of AppendEvent: the line is counted from zero.                   *)
AppendFromZero(e) ==
  /\ listener = "idle" /\ ~openTail
  /\ Len(log) < MaxAppends
  /\ listener' = "enqueue"
  /\ log' = Append(log, e)
  /\ pending' = pending \cup {Len(log)}
  /\ UNCHANGED <<openTail, workVars, authVars, uploads, faults>>

(* Mutant of AppendEvent: the event goes to Drive first, and the process   *)
(* dies before it is queued.                                               *)
UploadUnqueued(e) ==
  /\ listener = "idle"
  /\ Len(log) < MaxAppends /\ Len(uploads) < MaxAppends
  /\ uploads' = Append(uploads, [kind |-> "batch", events |-> {e}])
  /\ UNCHANGED phoneVars

(* onNotificationPosted up to EventStore.append.  Behind a line without    *)
(* newline the new text joins that line: an unreadable one stays so, of a  *)
(* readable one JSONObject reads the first object, and either way the new  *)
(* event is lost.                                                          *)
AppendEvent(e) ==
  /\ listener = "idle"
  /\ listener' = "enqueue"
  /\ \/ /\ ~openTail
        /\ Len(log) < MaxAppends
        /\ log' = Append(log, e)
        /\ pending' = pending \cup {Len(log) + 1}
        /\ UNCHANGED openTail
     \/ /\ openTail
        /\ openTail' = FALSE
        /\ UNCHANGED <<log, pending>>
  /\ UNCHANGED <<workVars, authVars, uploads, faults>>

(* appendText stops part-way, or with nothing left to write but the        *)
(* newline, and the exception ends onNotificationPosted.                   *)
AppendCutShort ==
  /\ Tears /\ Fault
  /\ listener = "idle" /\ ~openTail
  /\ Len(log) < MaxAppends
  /\ \E line \in Line : log' = Append(log, line)
  /\ pending' = pending \cup {Len(log) + 1}
  /\ openTail' = TRUE
  /\ UNCHANGED <<listener, workVars, authVars, uploads>>

(* onNotificationPosted's RelayScheduler.enqueueNow.                       *)
ListenerEnqueue ==
  /\ listener = "enqueue"
  /\ listener' = "idle"
  /\ work' = EnqueueNow(work)
  /\ UNCHANGED <<queueVars, pc, batch, authVars, uploads, faults>>

(* The "relay now" button.                                                 *)
UserSync ==
  /\ work["now"] = "none"
  /\ work' = EnqueueNow(work)
  /\ UNCHANGED <<queueVars, listener, pc, batch, authVars, uploads, faults>>

(* requestDriveAuthorization ends with a token: markDriveAuthorized, then  *)
(* enqueueNow.                                                             *)
Authorize ==
  /\ grant' = TRUE
  /\ authRequired' = FALSE
  /\ work' = EnqueueNow(work)
  /\ UNCHANGED <<queueVars, listener, pc, batch, uploads, faults>>

(* requestDriveAuthorization's failure listener.                           *)
AuthorizeFails ==
  /\ authRequired' = TRUE
  /\ UNCHANGED <<queueVars, listener, workVars, grant, uploads, faults>>

(* The consent is withdrawn or expires on Google's side.                   *)
Revoke ==
  /\ grant /\ Fault
  /\ grant' = FALSE
  /\ UNCHANGED <<queueVars, listener, workVars, authRequired, uploads>>

----------------------------------------------------------------------------
(* One run of RelayWorker.doWork for work w.                               *)

(* WorkManager starts the run and doWork reads the head of the queue.  An  *)
(* I/O error, or an unreadable line that makes JSONObject throw, happens   *)
(* outside doWork's try, and WorkManager records a failure.                *)
StartWork(w) ==
  /\ work[w] = "enqueued"
  /\ work' = [work EXCEPT ![w] = "running"]
  /\ LET lines == FirstLines(pending, BatchLimit)
     IN \/ /\ lines = {} /\ NoFault
           /\ pc' = [pc EXCEPT ![w] = "success"]
           /\ UNCHANGED batch
        \/ /\ (\E i \in lines : log[i] = Torn) /\ NoFault
           /\ pc' = [pc EXCEPT ![w] = "failure"]
           /\ UNCHANGED batch
        \/ /\ lines # {} /\ (\A i \in lines : log[i] # Torn) /\ NoFault
           /\ pc' = [pc EXCEPT ![w] = "token"]
           /\ batch' = [batch EXCEPT ![w] = lines]
        \/ /\ Fault
           /\ pc' = [pc EXCEPT ![w] = "failure"]
           /\ UNCHANGED batch
  /\ UNCHANGED <<queueVars, listener, authVars, uploads>>

(* Mutant of GetToken: a missing token is retried without a word.          *)
GetTokenSilently(w) ==
  /\ pc[w] = "token"
  /\ pc' = [pc EXCEPT ![w] = IF grant THEN "upload" ELSE "retry"]
  /\ UNCHANGED <<queueVars, listener, work, batch, authVars, uploads, faults>>

(* DriveRelay.accessToken: a token, none because consent is needed, or an  *)
(* exception.                                                              *)
GetToken(w) ==
  /\ pc[w] = "token"
  /\ \/ /\ grant /\ NoFault
        /\ pc' = [pc EXCEPT ![w] = "upload"]
        /\ UNCHANGED authRequired
     \/ /\ ~grant /\ NoFault
        /\ pc' = [pc EXCEPT ![w] = "retry"]
        /\ authRequired' = TRUE
     \/ /\ Fault
        /\ pc' = [pc EXCEPT ![w] = "retry"]
        /\ UNCHANGED authRequired
  /\ UNCHANGED <<queueVars, listener, work, batch, grant, uploads>>

(* buildBatch and upload: stored and confirmed, stored with the reply      *)
(* lost, or not stored.                                                    *)
Upload(w) ==
  /\ pc[w] = "upload"
  /\ \/ /\ NoFault
        /\ uploads' = Append(uploads, BatchFile(batch[w]))
        /\ pc' = [pc EXCEPT ![w] = "acknowledge"]
     \/ /\ Fault
        /\ uploads' = Append(uploads, BatchFile(batch[w]))
        /\ pc' = [pc EXCEPT ![w] = "retry"]
     \/ /\ Fault
        /\ UNCHANGED uploads
        /\ pc' = [pc EXCEPT ![w] = "retry"]
  /\ UNCHANGED <<queueVars, listener, work, batch, authVars>>

(* Mutant of Acknowledge: it drops as many lines as were uploaded from the *)
(* head of the file instead of the lines with the uploaded ids.            *)
AcknowledgeHead(w) ==
  /\ pc[w] = "acknowledge"
  /\ pending' = pending \ FirstLines(pending, Cardinality(batch[w]))
  /\ openTail' = FALSE
  /\ authRequired' = FALSE
  /\ pc' = [pc EXCEPT ![w] = "recheck"]
  /\ UNCHANGED <<log, listener, work, batch, grant, uploads, faults>>

(* EventStore.acknowledge rewrites the file without the lines that carry   *)
(* an uploaded event id, each with its newline, and the preferences record *)
(* the success; an I/O error instead ends in a retry.                      *)
Acknowledge(w) ==
  /\ pc[w] = "acknowledge"
  /\ \/ /\ NoFault
        /\ pending' = {i \in pending : log[i] \notin {log[j] : j \in batch[w]}}
        /\ openTail' = FALSE
        /\ authRequired' = FALSE
        /\ pc' = [pc EXCEPT ![w] = "recheck"]
     \/ /\ Fault
        /\ pc' = [pc EXCEPT ![w] = "retry"]
        /\ UNCHANGED <<pending, openTail, authRequired>>
  /\ UNCHANGED <<log, listener, work, batch, grant, uploads>>

(* pendingCount and the worker's own enqueueNow, then Result.success; an   *)
(* I/O error of the count ends in a retry.                                 *)
Recheck(w) ==
  /\ pc[w] = "recheck"
  /\ \/ /\ NoFault
        /\ work' = IF pending # {} THEN EnqueueNow(work) ELSE work
        /\ pc' = [pc EXCEPT ![w] = "success"]
     \/ /\ Fault
        /\ pc' = [pc EXCEPT ![w] = "retry"]
        /\ UNCHANGED work
  /\ UNCHANGED <<queueVars, listener, batch, authVars, uploads>>

(* WorkManager records the result: a retry is enqueued again with backoff, *)
(* the periodic work waits for its next period, the unique work is over.   *)
Finish(w) ==
  /\ pc[w] \in Returned
  /\ work' = [work EXCEPT ![w] =
                IF w = "safety" \/ pc[w] = "retry" THEN "enqueued" ELSE "none"]
  /\ pc' = [pc EXCEPT ![w] = "idle"]
  /\ batch' = [batch EXCEPT ![w] = {}]
  /\ UNCHANGED <<queueVars, listener, authVars, uploads, faults>>

(* The process dies: the queue file and WorkManager's database survive,    *)
(* and works that were running are enqueued again.                         *)
Crash ==
  /\ Fault
  /\ listener # "idle" \/ \E w \in Work : work[w] = "running"
  /\ listener' = "idle"
  /\ work' = [w \in Work |-> IF work[w] = "running" THEN "enqueued" ELSE work[w]]
  /\ pc' = [w \in Work |-> "idle"]
  /\ batch' = [w \in Work |-> {}]
  /\ UNCHANGED <<queueVars, authVars, uploads>>

WorkerStep(w) ==
  \/ StartWork(w) \/ GetToken(w) \/ Upload(w)
  \/ Acknowledge(w) \/ Recheck(w) \/ Finish(w)

Next ==
  \/ Connect
  \/ \E e \in Event : AppendEvent(e)
  \/ AppendCutShort
  \/ ListenerEnqueue
  \/ UserSync
  \/ Authorize
  \/ AuthorizeFails
  \/ Revoke
  \/ \E w \in Work : WorkerStep(w)
  \/ Crash

(* WorkManager keeps starting and running enqueued works, the listener     *)
(* service is bound again by the system and its handler runs to the end.   *)
PhoneFairness ==
  /\ WF_vars(Connect)
  /\ WF_vars(ListenerEnqueue)
  /\ \A w \in Work : WF_vars(WorkerStep(w))

Spec == Init /\ [][Next]_vars
FairSpec == Spec /\ PhoneFairness

----------------------------------------------------------------------------
(* An event that was written to a line of its own leaves the queue only    *)
(* once a batch file that holds it exists in Drive, whatever the two       *)
(* works, the listener and crashes do in between (EventStore.acknowledge   *)
(* after DriveRelay.upload in RelayWorker.doWork).                         *)
RemovedOnlyAfterUpload ==
  \A i \in 1 .. Len(log) :
    log[i] # Torn =>
      \/ i \in pending
      \/ \E f \in 1 .. Len(uploads) : log[i] \in uploads[f].events

(* The strengthening of the two that every step keeps: a run reads intact  *)
(* lines only, and when it comes to acknowledge them their upload is done. *)
BatchesIntact ==
  \A w \in Work : \A i \in batch[w] : log[i] # Torn
BatchesUploaded ==
  \A w \in Work : pc[w] = "acknowledge" =>
    \A i \in batch[w] : \E f \in 1 .. Len(uploads) : log[i] \in uploads[f].events
RelayInv ==
  TypeOK /\ RemovedOnlyAfterUpload /\ BatchesIntact /\ BatchesUploaded

(* Every line is uploaded and removed in the end, as long as the consent   *)
(* holds from some time on: the periodic work picks up what the dropped    *)
(* immediate requests left behind.                                         *)
PendingEventuallyUploaded ==
  <>[]grant =>
    \A i \in 1 .. MaxAppends : (i \in pending) ~> (i \notin pending)

(* While events wait and the consent is gone for good, the activity ends   *)
(* up showing that authorization is required, although a run that had its  *)
(* token earlier may clear the flag again.                                 *)
ConsentLossIsShown ==
  <>[](~grant /\ pending # {}) => <>[]authRequired

(* The claim of docs/operations/android-notification-relay.md:52, that an  *)
(* immediate unique work is queued whenever an event is normalized: once   *)
(* the listener has returned, waiting lines have an immediate work.        *)
PendingHasImmediateWork ==
  (listener = "idle" /\ pending # {}) => work["now"] # "none"

============================================================================
