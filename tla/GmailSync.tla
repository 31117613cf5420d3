------------------------------- MODULE GmailSync -------------------------------
(***************************************************************************)
(* The NAS collector's handling of one gmail source: the run protocol of   *)
(* main._collect_gmail_source over CollectionStore and GmailClient, with   *)
(* the historyId cursor kept in collection_sources.                        *)
(*                                                                         *)
(* Messages are numbered in the order they arrive, and a history id is the *)
(* number of messages that had arrived.  The pages of one listing count as *)
(* one call: a page token goes on with the same listing, so a message that *)
(* arrives between two pages of messages.list is as late as one that       *)
(* arrives after it, and one that arrives during history.list is on its    *)
(* last page.  The counters of a run are left out: module DriveCollector   *)
(* has them.                                                               *)
(***************************************************************************)
EXTENDS Integers, Sequences, FiniteSets

CONSTANTS
  Rule,        \* the configured mail rules
  Unstorable,  \* rules whose extracted amount PostgreSQL rejects
  MaxInitial,  \* max_initial_messages
  MaxMail,     \* bound: messages that ever arrive
  MaxFailures  \* bound: failed calls, lost connections and crashes

ASSUME UnstorableAssumption == Unstorable \subseteq Rule
ASSUME MaxInitialAssumption == MaxInitial \in Nat \ {0}
ASSUME MailBounds == MaxMail \in Nat /\ MaxFailures \in Nat

VARIABLES
  mail,      \* every message that ever arrived: does it match initial_query,
             \* and which rules does classify match it with
  gone,      \* the messages deleted from the mailbox
  expired,   \* a startHistoryId below this one is answered with 404
  staged,    \* collection_observations, as <<message, rule>>
  source,    \* the collection_sources row: history_id of its cursor, due =
             \* the cadence has elapsed since last_attempt_at, healthy =
             \* last_success_at is set and last_error_type is NULL
  openRuns,  \* collection_runs rows whose status is 'started'
  pc,        \* where the cycle is
  fullSync,  \* GmailBatch.full_sync
  ids,       \* the message ids the run has listed
  toGet,     \* those not yet fetched
  todo,      \* the <<message, rule>> observations not yet inserted
  latest,    \* GmailBatch.history_id
  base,      \* history id when the run's listing of ids started
  failures   \* failures so far (bound only)

mailboxVars == <<mail, gone, expired>>
runVars == <<pc, fullSync, ids, toGet, todo, latest, base>>
vars == <<mailboxVars, staged, source, openRuns, runVars, failures>>

----------------------------------------------------------------------------
NoCursor == -1
Message == [inQuery : BOOLEAN, rules : SUBSET Rule]
SyncPc == {"idle", "collect", "profile", "get", "insert", "complete", "fail"}
HistoryId == Len(mail)

Observations(m) == {<<m, r>> : r \in mail[m].rules}

(* messages.list: newest first, at most max_initial_messages that match    *)
(* initial_query.                                                          *)
InitialList ==
  LET found == {m \in 1 .. Len(mail) : mail[m].inQuery /\ m \notin gone}
  IN  {m \in found : Cardinality({n \in found : n > m}) < MaxInitial}

(* The order of the batch: list is newest first, history oldest first.     *)
Precedes(m, n) == IF fullSync THEN m >= n ELSE m <= n

TypeOK ==
  /\ mail \in Seq(Message)
  /\ gone \subseteq 1 .. Len(mail)
  /\ expired \in 0 .. Len(mail)
  /\ staged \subseteq (1 .. Len(mail)) \X Rule
  /\ source \in [cursor : NoCursor .. Len(mail), due : BOOLEAN, healthy : BOOLEAN]
  /\ openRuns \in Nat
  /\ pc \in SyncPc
  /\ fullSync \in BOOLEAN
  /\ ids \subseteq 1 .. Len(mail)
  /\ toGet \subseteq ids
  /\ todo \subseteq ids \X Rule
  /\ latest \in 0 .. Len(mail)
  /\ base \in 0 .. Len(mail)
  /\ failures \in 0 .. MaxFailures

Init ==
  /\ mail = <<>>
  /\ gone = {}
  /\ expired = 0
  /\ staged = {}
  /\ source = [cursor |-> NoCursor, due |-> TRUE, healthy |-> FALSE]
  /\ openRuns = 0
  /\ pc = "idle"
  /\ fullSync = FALSE
  /\ ids = {}
  /\ toGet = {}
  /\ todo = {}
  /\ latest = 0
  /\ base = 0
  /\ failures = 0

Fails == failures < MaxFailures /\ failures' = failures + 1

CycleEnds ==
  /\ pc' = "idle"
  /\ fullSync' = FALSE
  /\ ids' = {}
  /\ toGet' = {}
  /\ todo' = {}
  /\ latest' = 0
  /\ base' = 0

----------------------------------------------------------------------------
(* The mailbox.                                                            *)

MailArrives ==
  /\ Len(mail) < MaxMail
  /\ \E msg \in Message : mail' = Append(mail, msg)
  /\ UNCHANGED <<gone, expired, staged, source, openRuns, runVars, failures>>

MailDeleted ==
  /\ \E m \in (1 .. Len(mail)) \ gone : gone' = gone \cup {m}
  /\ UNCHANGED <<mail, expired, staged, source, openRuns, runVars, failures>>

(* Gmail forgets its oldest history records.                               *)
HistoryExpires ==
  /\ \E h \in (expired + 1) .. Len(mail) : expired' = h
  /\ UNCHANGED <<mail, gone, staged, source, openRuns, runVars, failures>>

----------------------------------------------------------------------------
(* One cycle of the collector.                                             *)

CadenceElapses ==
  /\ ~source.due
  /\ source' = [source EXCEPT !.due = TRUE]
  /\ UNCHANGED <<mailboxVars, staged, openRuns, runVars, failures>>

(* ensure_source and is_due, then begin_run.                               *)
BeginRun ==
  /\ pc = "idle" /\ source.due
  /\ source' = [source EXCEPT !.due = FALSE]
  /\ openRuns' = openRuns + 1
  /\ pc' = "collect"
  /\ UNCHANGED <<mailboxVars, staged, fullSync, ids, toGet, todo, latest, base,
                 failures>>

(* Gmail still has the history since the cursor.                           *)
CursorIsKnown == source.cursor # NoCursor /\ source.cursor >= expired

(* incremental_sync: history.list names every message added since the      *)
(* cursor, deleted ones too, and the mailbox's current history id.         *)
Incremental ==
  /\ pc = "collect" /\ CursorIsKnown
  /\ ids' = (source.cursor + 1) .. HistoryId
  /\ toGet' = ids'
  /\ latest' = HistoryId
  /\ base' = source.cursor
  /\ pc' = "get"
  /\ UNCHANGED <<mailboxVars, staged, source, openRuns, fullSync, todo, failures>>

(* Mutant of FullList: no fallback when the history is gone.               *)
FullListOnlyInitially ==
  /\ pc = "collect"
  /\ IF source.cursor = NoCursor
       THEN /\ fullSync' = TRUE
            /\ ids' = InitialList
            /\ toGet' = ids'
            /\ base' = HistoryId
            /\ pc' = "profile"
       ELSE /\ ~CursorIsKnown
            /\ pc' = "fail"
            /\ UNCHANGED <<fullSync, ids, toGet, base>>
  /\ UNCHANGED <<mailboxVars, staged, source, openRuns, todo, latest, failures>>

(* full_sync's messages.list, with no cursor or after history.list has     *)
(* answered 404.                                                           *)
FullList ==
  /\ pc = "collect" /\ ~CursorIsKnown
  /\ fullSync' = TRUE
  /\ ids' = InitialList
  /\ toGet' = ids'
  /\ base' = HistoryId
  /\ pc' = "profile"
  /\ UNCHANGED <<mailboxVars, staged, source, openRuns, todo, latest, failures>>

(* Mutant of GetProfile: the cursor is the first id still to come.         *)
GetProfileNextId ==
  /\ pc = "profile"
  /\ latest' = HistoryId + 1
  /\ pc' = "get"
  /\ UNCHANGED <<mailboxVars, staged, source, openRuns, fullSync, ids, toGet,
                 todo, base, failures>>

(* Mutant of GetProfile: the history id of the newest message listed.      *)
GetProfileFromList ==
  /\ pc = "profile"
  /\ \E m \in ids \cup {0} : (\A n \in ids : n <= m) /\ latest' = m
  /\ pc' = "get"
  /\ UNCHANGED <<mailboxVars, staged, source, openRuns, fullSync, ids, toGet,
                 todo, base, failures>>

(* full_sync's getProfile, a later call.                                   *)
GetProfile ==
  /\ pc = "profile"
  /\ latest' = HistoryId
  /\ pc' = "get"
  /\ UNCHANGED <<mailboxVars, staged, source, openRuns, fullSync, ids, toGet,
                 todo, base, failures>>

(* Mutant of GetMessage: a message that is gone ends the loop quietly.     *)
GetMessageUntilGone ==
  /\ pc = "get"
  /\ \E m \in toGet :
       /\ \A n \in toGet : Precedes(m, n)
       /\ IF m \in gone
            THEN toGet' = {} /\ UNCHANGED todo
            ELSE toGet' = toGet \ {m} /\ todo' = todo \cup Observations(m)
  /\ UNCHANGED <<mailboxVars, staged, source, openRuns, pc, fullSync, ids,
                 latest, base, failures>>

(* _get_messages fetches the next message, which classify then matches     *)
(* with the rules.  A message that has been deleted meanwhile is a 404     *)
(* that nothing catches.                                                   *)
GetMessage ==
  /\ pc = "get"
  /\ \E m \in toGet :
       /\ \A n \in toGet : Precedes(m, n)
       /\ \/ /\ m \notin gone
             /\ toGet' = toGet \ {m}
             /\ todo' = todo \cup Observations(m)
             /\ UNCHANGED pc
          \/ /\ m \in gone
             /\ pc' = "fail"
             /\ UNCHANGED <<toGet, todo>>
  /\ UNCHANGED <<mailboxVars, staged, source, openRuns, fullSync, ids, latest,
                 base, failures>>

GetDone ==
  /\ pc = "get" /\ toGet = {}
  /\ pc' = "insert"
  /\ UNCHANGED <<mailboxVars, staged, source, openRuns, fullSync, ids, toGet,
                 todo, latest, base, failures>>

(* insert_observation, one transaction each, in the order of the batch.    *)
InsertObservation ==
  /\ pc = "insert"
  /\ \E o \in todo :
       /\ \A p \in todo : Precedes(o[1], p[1])
       /\ \/ /\ o[2] \notin Unstorable
             /\ todo' = todo \ {o}
             /\ staged' = staged \cup {o}
             /\ UNCHANGED pc
          \/ /\ o[2] \in Unstorable
             /\ pc' = "fail"
             /\ UNCHANGED <<todo, staged>>
  /\ UNCHANGED <<mailboxVars, source, openRuns, fullSync, ids, toGet, latest,
                 base, failures>>

InsertsDone ==
  /\ pc = "insert" /\ todo = {}
  /\ pc' = "complete"
  /\ UNCHANGED <<mailboxVars, staged, source, openRuns, fullSync, ids, toGet,
                 todo, latest, base, failures>>

(* complete_run stores the new cursor with the run's end.                  *)
CompleteRun ==
  /\ pc = "complete"
  /\ openRuns' = openRuns - 1
  /\ source' = [source EXCEPT !.healthy = TRUE, !.cursor = latest]
  /\ CycleEnds
  /\ UNCHANGED <<mailboxVars, staged, failures>>

(* Any call of the run that raises: Gmail, the token, a statement.         *)
CallFails ==
  /\ Fails
  /\ pc \in {"collect", "profile", "get", "insert", "complete"}
  /\ pc' = "fail"
  /\ UNCHANGED <<mailboxVars, staged, source, openRuns, fullSync, ids, toGet,
                 todo, latest, base>>

(* fail_run leaves the cursor; when the connection is gone the row stays   *)
(* 'started'.                                                              *)
FailRun ==
  /\ pc = "fail"
  /\ \/ /\ openRuns' = openRuns - 1
        /\ source' = [source EXCEPT !.healthy = FALSE]
        /\ UNCHANGED failures
     \/ /\ Fails
        /\ UNCHANGED <<openRuns, source>>
  /\ CycleEnds
  /\ UNCHANGED <<mailboxVars, staged>>

(* The container stops: committed rows stay.                               *)
Crash ==
  /\ Fails /\ pc # "idle"
  /\ CycleEnds
  /\ UNCHANGED <<mailboxVars, staged, source, openRuns>>

CycleStep ==
  \/ BeginRun \/ Incremental \/ FullList \/ GetProfile
  \/ GetMessage \/ GetDone \/ InsertObservation \/ InsertsDone
  \/ CompleteRun \/ FailRun

Next ==
  \/ MailArrives \/ MailDeleted \/ HistoryExpires
  \/ CadenceElapses \/ CycleStep \/ CallFails \/ Crash

(* main's loop ticks forever, each cycle runs to its end, and Gmail keeps  *)
(* its history for a limited time.                                         *)
Fairness ==
  WF_vars(CadenceElapses) /\ WF_vars(CycleStep) /\ WF_vars(HistoryExpires)

Spec == Init /\ [][Next]_vars
FairSpec == Spec /\ Fairness

----------------------------------------------------------------------------
(* The cursor moves only over mail that is staged: a completed run has an  *)
(* observation for every rule that matches a message it listed and, when   *)
(* it is incremental, a message after the old cursor, whatever earlier     *)
(* runs failed half-way.  A full one passes the others for a reason only.  *)
LeftOut(m) ==
  \/ ~mail[m].inQuery \/ m \in gone
  \/ Cardinality({n \in ids : n > m}) >= MaxInitial
  \/ m > base   \* it arrived after the list
CursorMovesOverStagedMail ==
  [][source'.cursor # source.cursor =>
       \A m \in 1 .. source'.cursor :
         (m \in ids \/ m > source.cursor) =>
           \/ Observations(m) \subseteq staged
           \/ fullSync /\ m \notin ids /\ LeftOut(m)]_vars

(* The cursor never goes back, also when a run falls back to a full        *)
(* synchronization because the history behind the cursor is gone.          *)
CursorNeverGoesBack == [][source'.cursor >= source.cursor]_vars

(* As long as PostgreSQL can store what the rules extract, the cursor      *)
(* catches up with the mailbox: a message deleted before it was fetched    *)
(* fails every incremental run, and the fallback after the history has     *)
(* expired gets the source going again.                                    *)
CursorCatchesUp ==
  [](\A m \in 1 .. Len(mail) : mail[m].rules \cap Unstorable = {})
    => []<>(source.cursor = HistoryId)

(* The claim of docs/collection/continuous-collection.md:56, that what     *)
(* follows the bounded initial collection is requested through the         *)
(* history: mail of the configured query that arrived after the run's      *)
(* listing, and that the new cursor covers, is staged.                     *)
LaterMailIsStaged ==
  [][\A m \in (base + 1) .. source'.cursor :
       (source'.cursor # source.cursor /\ mail[m].inQuery)
         => Observations(m) \subseteq staged]_vars

(* What every step keeps, and the two safety properties follow from.       *)
Listed == {"get", "insert", "complete"}
LatestIsAhead == pc \in Listed => source.cursor <= latest
IncrementalListsAll ==
  (pc \in Listed /\ ~fullSync) => (source.cursor + 1) .. latest \subseteq ids
FetchedIsKept ==
  pc \in Listed =>
    \A m \in ids \ toGet : Observations(m) \subseteq staged \cup todo
PhaseIsDone ==
  /\ pc \in {"insert", "complete"} => toGet = {}
  /\ pc = "complete" => todo = {}
RunRowIsOpen == pc # "idle" => openRuns >= 1
StartsClean ==
  /\ pc \in {"idle", "collect"} => todo = {}
  /\ pc = "profile" => (fullSync /\ toGet = ids /\ todo = {})
FullListsNewest ==
  /\ pc \in {"idle", "collect"} => ~fullSync
  /\ pc \in Listed \cup {"profile"} /\ fullSync =>
       \A m \in (1 .. base) \ ids : LeftOut(m)
SyncInv ==
  /\ TypeOK /\ LatestIsAhead /\ IncrementalListsAll /\ FetchedIsKept
  /\ FullListsNewest /\ PhaseIsDone /\ RunRowIsOpen /\ StartsClean

============================================================================
