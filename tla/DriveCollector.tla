--------------------------- MODULE DriveCollector ---------------------------
(***************************************************************************)
(* The NAS collector's handling of one drive_appdata source: the run       *)
(* protocol of main._collect_drive_appdata_source over CollectionStore     *)
(* (begin_run, one transaction per observation, complete_run or fail_run)  *)
(* and DriveAppDataClient (list and download the oldest files, delete them *)
(* once the run is complete).                                              *)
(*                                                                         *)
(* Files are numbered in creation order.  `uploads` is the history of      *)
(* every file ever created in appDataFolder, `deleted` the files the       *)
(* collector has deleted; the folder holds the others.  The collector's    *)
(* Drive client and its database connection are the only ones that write   *)
(* `deleted` and the ingest tables.                                        *)
(*                                                                         *)
(* Reconciliation runs between complete_run and the first delete; it only  *)
(* rewrites a JSON tag of staged rows and its exceptions are swallowed:    *)
(* module TransferReconciliation models it.                                *)
(***************************************************************************)
EXTENDS Integers, Sequences, FiniteSets

CONSTANTS
  Event,       \* device events, identified by external_event_hash
  Unstorable,  \* events the parser accepts and PostgreSQL rejects
  PageSize,    \* max_files_per_cycle
  MaxFiles,    \* bound: files other than the phone's that ever arrive
  MaxFailures  \* bound: failed calls, lost connections and crashes

ASSUME EventAssumption == IsFiniteSet(Event)
ASSUME UnstorableAssumption == Unstorable \subseteq Event
ASSUME PageSizeAssumption == PageSize \in Nat \ {0}
ASSUME CollectorBounds == MaxFiles \in Nat /\ MaxFailures \in Nat

VARIABLES
  uploads,   \* every file ever created in appDataFolder, oldest first
  deleted,   \* the files deleted so far
  staged,    \* collection_observations: the events with a row
  source,    \* the collection_sources row: due = the cadence has elapsed
             \* since last_attempt_at, healthy = last_success_at is set and
             \* last_error_type is NULL
  openRuns,  \* collection_runs rows whose status is 'started'
  pc,        \* where the cycle is
  listing,   \* processed_file_ids of the run in progress, not yet deleted
  todo,      \* its <<file, event>> observations not yet inserted
  mine,      \* the events whose row carries the run's collection_run_id
  tally,     \* the run's seen, imported and ignored
  failures   \* failures so far (bound only)

sourceVars == <<source, openRuns>>
runVars == <<pc, listing, todo, mine, tally>>
collectorVars == <<deleted, staged, sourceVars, runVars, failures>>
vars == <<uploads, collectorVars>>

----------------------------------------------------------------------------
Kind == {"batch", "malformed", "foreign"}
DriveFile == [kind : Kind, events : SUBSET Event]
CollectorPc == {"idle", "collect", "insert", "complete", "fail", "acknowledge"}
NoTally == [seen |-> 0, imported |-> 0, ignored |-> 0]

Folder == (1 .. Len(uploads)) \ deleted

(* Mutant of Page: one file less than the page holds.                      *)
PageOneShort == {f \in Folder : Cardinality({g \in Folder : g < f}) < PageSize - 1}

(* files.list: orderBy createdTime asc, one page of pageSize files of any  *)
(* name; then the names that carry file_prefix.                            *)
Page == {f \in Folder : Cardinality({g \in Folder : g < f}) < PageSize}
Matched == {f \in Page : uploads[f].kind # "foreign"}

Oldest(files) == {f \in files : \A g \in files : f <= g}

(* parse_notification_batch over the downloaded files.                     *)
Observations(files) ==
  UNION {{<<f, e>> : e \in uploads[f].events} : f \in files}

EventsIn(files) == UNION {uploads[f].events : f \in files}

TypeOK ==
  /\ uploads \in Seq(DriveFile)
  /\ deleted \subseteq 1 .. Len(uploads)
  /\ staged \subseteq Event
  /\ source \in [due : BOOLEAN, healthy : BOOLEAN]
  /\ openRuns \in Nat
  /\ pc \in CollectorPc
  /\ listing \subseteq 1 .. Len(uploads)
  /\ todo \subseteq (1 .. Len(uploads)) \X Event
  /\ mine \subseteq Event
  /\ tally \in [seen : Nat, imported : Nat, ignored : Nat]
  /\ failures \in 0 .. MaxFailures

CollectorInit ==
  /\ deleted = {}
  /\ staged = {}
  /\ source = [due |-> TRUE, healthy |-> FALSE]
  /\ openRuns = 0
  /\ pc = "idle"
  /\ listing = {}
  /\ todo = {}
  /\ mine = {}
  /\ tally = NoTally
  /\ failures = 0

Init == CollectorInit /\ uploads = <<>>

Fails == failures < MaxFailures /\ failures' = failures + 1

(* The cycle is over and its local variables are gone.                     *)
CycleEnds ==
  /\ pc' = "idle"
  /\ listing' = {}
  /\ todo' = {}
  /\ mine' = {}
  /\ tally' = NoTally

----------------------------------------------------------------------------
(* Mutant of CadenceElapses: a source that failed is not tried again.      *)
CadenceElapsesIfHealthy ==
  /\ ~source.due /\ source.healthy
  /\ source' = [source EXCEPT !.due = TRUE]
  /\ UNCHANGED <<uploads, deleted, staged, openRuns, runVars, failures>>

(* The cadence has elapsed since last_attempt_at: is_due answers TRUE.     *)
CadenceElapses ==
  /\ ~source.due
  /\ source' = [source EXCEPT !.due = TRUE]
  /\ UNCHANGED <<uploads, deleted, staged, openRuns, runVars, failures>>

(* ensure_source and is_due, then begin_run: last_attempt_at and a         *)
(* 'started' row in one transaction.                                       *)
BeginRun ==
  /\ pc = "idle" /\ source.due
  /\ source' = [source EXCEPT !.due = FALSE]
  /\ openRuns' = openRuns + 1
  /\ pc' = "collect"
  /\ UNCHANGED <<uploads, deleted, staged, listing, todo, mine, tally, failures>>

(* Mutant of Collect: its exception ends the cycle without fail_run.       *)
CollectOutsideTry ==
  /\ pc = "collect"
  /\ \/ /\ \A f \in Matched : uploads[f].kind = "batch"
        /\ listing' = Matched
        /\ todo' = Observations(Matched)
        /\ tally' = [tally EXCEPT !.seen = Cardinality(Observations(Matched))]
        /\ pc' = "insert"
        /\ UNCHANGED mine
     \/ /\ \E f \in Matched : uploads[f].kind = "malformed"
        /\ CycleEnds
  /\ UNCHANGED <<uploads, deleted, staged, sourceVars, failures>>

(* DriveAppDataClient.collect: one rejected file, or a failed call, fails  *)
(* the whole collection before anything is inserted.                       *)
Collect ==
  /\ pc = "collect"
  /\ \/ /\ \A f \in Matched : uploads[f].kind = "batch"
        /\ listing' = Matched
        /\ todo' = Observations(Matched)
        /\ tally' = [tally EXCEPT !.seen = Cardinality(Observations(Matched))]
        /\ pc' = "insert"
        /\ UNCHANGED failures
     \/ /\ \E f \in Matched : uploads[f].kind = "malformed"
        /\ pc' = "fail"
        /\ UNCHANGED <<listing, todo, tally, failures>>
     \/ /\ Fails
        /\ pc' = "fail"
        /\ UNCHANGED <<listing, todo, tally>>
  /\ UNCHANGED <<uploads, deleted, staged, sourceVars, mine>>

(* Mutant of InsertObservation: a rejected row is skipped.                 *)
InsertSkippingErrors ==
  /\ pc = "insert"
  /\ \E o \in todo :
       /\ todo' = todo \ {o}
       /\ staged' = staged \cup ({o[2]} \ Unstorable)
  /\ UNCHANGED <<uploads, deleted, sourceVars, pc, listing, mine, tally, failures>>

(* Mutant of InsertObservation: a row that was there counts as imported.   *)
InsertCountingDuplicates ==
  /\ pc = "insert"
  /\ \E o \in todo :
       /\ todo' = todo \ {o}
       /\ staged' = staged \cup {o[2]}
       /\ mine' = mine \cup ({o[2]} \ staged)
       /\ tally' = [tally EXCEPT !.imported = @ + 1]
  /\ UNCHANGED <<uploads, deleted, sourceVars, pc, listing, failures>>

(* insert_observation for the next event of the oldest file, in its own    *)
(* transaction; ON CONFLICT DO NOTHING keeps the first row of an event.    *)
InsertObservation ==
  /\ pc = "insert" /\ todo # {}
  /\ \E o \in todo :
       /\ \A p \in todo : o[1] <= p[1]
       /\ \/ /\ o[2] \notin Unstorable
             /\ todo' = todo \ {o}
             /\ staged' = staged \cup {o[2]}
             /\ mine' = IF o[2] \in staged THEN mine ELSE mine \cup {o[2]}
             /\ tally' = IF o[2] \in staged
                           THEN [tally EXCEPT !.ignored = @ + 1]
                           ELSE [tally EXCEPT !.imported = @ + 1]
             /\ UNCHANGED <<pc, failures>>
          \/ /\ o[2] \in Unstorable
             /\ pc' = "fail"
             /\ UNCHANGED <<todo, staged, mine, tally, failures>>
          \/ /\ Fails
             /\ pc' = "fail"
             /\ UNCHANGED <<todo, staged, mine, tally>>
  /\ UNCHANGED <<uploads, deleted, sourceVars, listing>>

(* Mutant of InsertsDone: the loop stops at the first row it knows.        *)
InsertsDoneAtKnownRow ==
  /\ pc = "insert"
  /\ todo = {} \/ \E o \in todo : o[2] \in staged
  /\ pc' = "complete"
  /\ UNCHANGED <<uploads, deleted, staged, sourceVars, listing, todo, mine,
                 tally, failures>>

(* The loop over the observations ends.                                    *)
InsertsDone ==
  /\ pc = "insert" /\ todo = {}
  /\ pc' = "complete"
  /\ UNCHANGED <<uploads, deleted, staged, sourceVars, listing, todo, mine,
                 tally, failures>>

(* complete_run: the run row, the cursor and last_success_at together (a   *)
(* commit whose reply is lost is the first case, then Crash).              *)
CompleteRun ==
  /\ pc = "complete"
  /\ \/ /\ openRuns' = openRuns - 1
        /\ source' = [source EXCEPT !.healthy = TRUE]
        /\ pc' = "acknowledge"
        /\ UNCHANGED failures
     \/ /\ Fails
        /\ pc' = "fail"
        /\ UNCHANGED sourceVars
  /\ UNCHANGED <<uploads, deleted, staged, listing, todo, mine, tally>>

(* fail_run closes the row and records last_error_type; cursor and         *)
(* last_success_at stay.  When the connection is gone it fails too, and    *)
(* the row stays 'started'.                                                *)
FailRun ==
  /\ pc = "fail"
  /\ \/ /\ openRuns' = openRuns - 1
        /\ source' = [source EXCEPT !.healthy = FALSE]
        /\ UNCHANGED failures
     \/ /\ Fails
        /\ UNCHANGED sourceVars
  /\ CycleEnds
  /\ UNCHANGED <<uploads, deleted, staged>>

(* Mutant of Acknowledge: inside the try, its failure calls fail_run.      *)
AcknowledgeInsideTry ==
  /\ pc = "acknowledge" /\ listing # {}
  /\ \E f \in Oldest(listing) :
       \/ /\ deleted' = deleted \cup {f}
          /\ listing' = listing \ {f}
          /\ UNCHANGED <<pc, failures>>
       \/ /\ Fails
          /\ pc' = "fail"
          /\ UNCHANGED <<deleted, listing>>
  /\ UNCHANGED <<uploads, staged, sourceVars, todo, mine, tally>>

(* acknowledge deletes the files one by one, oldest first.  A failed       *)
(* delete (which Drive may still have carried out) ends it, is swallowed,  *)
(* and leaves the completed run as it is.                                  *)
Acknowledge ==
  /\ pc = "acknowledge" /\ listing # {}
  /\ \E f \in Oldest(listing) :
       \/ /\ deleted' = deleted \cup {f}
          /\ listing' = listing \ {f}
          /\ UNCHANGED <<pc, todo, mine, tally, failures>>
       \/ /\ Fails
          /\ \/ deleted' = deleted \cup {f}
             \/ UNCHANGED deleted
          /\ CycleEnds
  /\ UNCHANGED <<uploads, staged, sourceVars>>

AcknowledgeDone ==
  /\ pc = "acknowledge" /\ listing = {}
  /\ CycleEnds
  /\ UNCHANGED <<uploads, deleted, staged, sourceVars, failures>>

(* The container stops or the host restarts in the middle of a cycle: the  *)
(* committed rows stay, the 'started' row is never closed.                 *)
Crash ==
  /\ Fails /\ pc # "idle"
  /\ CycleEnds
  /\ UNCHANGED <<uploads, deleted, staged, sourceVars>>

CycleStep ==
  \/ BeginRun \/ Collect \/ InsertObservation \/ InsertsDone
  \/ CompleteRun \/ FailRun \/ Acknowledge \/ AcknowledgeDone

CollectorNext == CadenceElapses \/ CycleStep \/ Crash

(* Any other writer of the folder; without the phone, every batch too.     *)
FileArrives ==
  /\ Len(uploads) < MaxFiles
  /\ \E k \in Kind, E \in (SUBSET Event) \ {{}} :
       uploads' = Append(uploads, [kind |-> k, events |-> E])
  /\ UNCHANGED collectorVars

Next == CollectorNext \/ FileArrives

(* main's loop ticks forever and each cycle runs to its end.               *)
CollectorFairness == WF_vars(CadenceElapses) /\ WF_vars(CycleStep)

Spec == Init /\ [][Next]_vars
FairSpec == Spec /\ CollectorFairness

----------------------------------------------------------------------------
(* A file is gone from Drive only when each of its events has a staged     *)
(* row, over any crashes, failed statements and half-done acknowledgements *)
(* (docs/operations/android-notification-relay.md:55).                     *)
DeletedOnlyAfterStaged == EventsIn(deleted) \subseteq staged

(* The collector makes up no event: a staged row's event was in a batch    *)
(* file that reached the folder.                                           *)
StagedCameFromDrive ==
  staged \subseteq EventsIn({f \in 1 .. Len(uploads) : uploads[f].kind = "batch"})

(* A run that completes has counted what it staged: imported is the number *)
(* of rows that carry the run's id, and seen = imported + ignored, also    *)
(* when an earlier run already staged part of the same files.              *)
CompletedRunCountsItsRows ==
  pc = "acknowledge" =>
    /\ tally.imported = Cardinality(mine)
    /\ tally.seen = tally.imported + tally.ignored

(* A run row stays 'started' only for the run in progress or because a     *)
(* crash or a lost connection cut a run off: no other path leaves one.     *)
OpenRunsAreExplained ==
  openRuns <= failures + (IF pc \in {"idle", "acknowledge"} THEN 0 ELSE 1)

(* last_success_at and a cleared error are recorded only in a step before  *)
(* which every event of the page has been staged: a source that counts as  *)
(* fresh has lost nothing of what it listed.                               *)
SuccessMeansPageStaged ==
  [][source'.healthy /\ openRuns' < openRuns
       => EventsIn(listing) \subseteq staged]_vars

(* What every step keeps, and the properties above follow from: what a run *)
(* has listed is readable, what it has not inserted yet is part of it, the *)
(* rest of it is staged, and its counts add up with what is left to do.    *)
RunRowIsOpen == pc \in {"collect", "insert", "complete", "fail"} => openRuns >= 1
ListingIsReadable == \A f \in listing : uploads[f].kind = "batch"
TodoIsReadable ==
  \A o \in todo : uploads[o[1]].kind = "batch" /\ o[2] \in uploads[o[1]].events
PageAccountedFor ==
  pc \in {"insert", "complete", "acknowledge"} =>
    EventsIn(listing) \subseteq staged \cup {o[2] : o \in todo}
NothingLeftToDo == pc \in {"complete", "acknowledge"} => todo = {}
RunStartsClean == pc \in {"idle", "collect"} => mine = {} /\ tally = NoTally
MineIsStaged == mine \subseteq staged
CountsAddUp ==
  pc \in {"insert", "complete", "acknowledge"} =>
    /\ tally.imported = Cardinality(mine)
    /\ tally.seen = tally.imported + tally.ignored + Cardinality(todo)
CollectorInv ==
  /\ TypeOK
  /\ DeletedOnlyAfterStaged /\ StagedCameFromDrive /\ OpenRunsAreExplained
  /\ RunRowIsOpen /\ ListingIsReadable /\ TodoIsReadable
  /\ PageAccountedFor /\ NothingLeftToDo
  /\ RunStartsClean /\ CountsAddUp /\ MineIsStaged

(* Every readable batch file is staged and deleted in the end when no file *)
(* of the folder is rejected and fewer foreign files than a page lie in    *)
(* front of it.                                                            *)
OnlyGoodFiles ==
  /\ \A f \in 1 .. Len(uploads) :
       /\ uploads[f].kind # "malformed"
       /\ uploads[f].kind = "batch" => uploads[f].events \cap Unstorable = {}
  /\ Cardinality({f \in 1 .. Len(uploads) : uploads[f].kind = "foreign"}) < PageSize
EveryBatchConsumed ==
  []OnlyGoodFiles =>
    \A f \in 1 .. MaxFiles :
      (f \in Folder /\ uploads[f].kind = "batch") ~> (f \in deleted)

============================================================================
