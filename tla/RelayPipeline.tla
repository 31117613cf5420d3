--------------------------- MODULE RelayPipeline ----------------------------
(***************************************************************************)
(* The notification relay end to end: the phone of AndroidRelay and the    *)
(* NAS collector of DriveCollector, which share nothing but the Drive      *)
(* appDataFolder.  The phone only adds files, the collector only reads and *)
(* deletes them.  The module shows that the two together implement the     *)
(* abstract EventRelay.                                                    *)
(***************************************************************************)
EXTENDS Naturals, Sequences, FiniteSets

CONSTANTS
  Event, Torn, BatchLimit, Tears, MaxAppends, MaxFaults,  \* the phone's
  Unstorable, PageSize, MaxFailures,                      \* the collector's
  OtherKinds,  \* kinds of file some other client may leave in the folder
  MaxOthers    \* how many of them

ASSUME PhoneAssumption ==
  /\ Torn \notin Event
  /\ BatchLimit \in Nat \ {0}
  /\ Tears \in BOOLEAN
  /\ MaxAppends \in Nat /\ MaxFaults \in Nat
ASSUME NasAssumption ==
  /\ IsFiniteSet(Event) /\ Unstorable \subseteq Event
  /\ PageSize \in Nat \ {0}
  /\ MaxFailures \in Nat
ASSUME OthersAssumption ==
  OtherKinds \subseteq {"malformed", "foreign"} /\ MaxOthers \in Nat

VARIABLES
  log, pending, openTail, listener, work, pc, batch, grant, authRequired, faults,
  uploads,
  deleted, staged, source, openRuns, cycle, listing, todo, mine, tally, failures

Phone == INSTANCE AndroidRelay
Nas == INSTANCE DriveCollector WITH pc <- cycle, MaxFiles <- MaxOthers

phoneVars == <<log, pending, openTail, listener, work, pc, batch, grant,
               authRequired, faults>>
nasVars == <<deleted, staged, source, openRuns, cycle, listing, todo, mine,
             tally, failures>>
vars == <<phoneVars, uploads, nasVars>>

TypeOK == Phone!TypeOK /\ Nas!TypeOK

Init == Phone!PhoneInit /\ Nas!CollectorInit /\ uploads = <<>>

(* A file in the folder that is no batch of the phone.                     *)
OtherFile ==
  /\ Cardinality({f \in 1 .. Len(uploads) : uploads[f].kind # "batch"}) < MaxOthers
  /\ \E k \in OtherKinds :
       uploads' = Append(uploads, [kind |-> k, events |-> {}])
  /\ UNCHANGED <<phoneVars, nasVars>>

PhoneNext == Phone!Next /\ UNCHANGED nasVars
NasNext == Nas!CollectorNext /\ UNCHANGED phoneVars

Next == PhoneNext \/ NasNext \/ OtherFile

Spec == Init /\ [][Next]_vars

(* Besides the schedulers' fairness, the user renews a lost consent.       *)
FairSpec ==
  /\ Spec
  /\ Phone!PhoneFairness /\ Nas!CollectorFairness
  /\ WF_vars(~grant /\ Phone!Authorize /\ UNCHANGED nasVars)

----------------------------------------------------------------------------
(* The events written to a line of their own in the phone's queue, all but *)
(* perhaps the newline.                                                    *)
Accepted == {log[i] : i \in {j \in 1 .. Len(log) : log[j] # Torn}}

(* No event is lost between the two ends: its line is still queued, or a   *)
(* batch file in the folder holds it, or it has its staged row; whatever   *)
(* crashes, lost replies, repeated uploads and failed deletes intervene.   *)
NoEventLost ==
  \A i \in 1 .. Len(log) :
    log[i] # Torn =>
      \/ i \in pending
      \/ \E f \in Nas!Folder : uploads[f].kind = "batch" /\ log[i] \in uploads[f].events
      \/ log[i] \in staged

(* What every step keeps: both ends' own invariants, only the phone's      *)
(* batches hold events, and they hold accepted ones.                       *)
OnlyBatchesHoldEvents ==
  \A f \in 1 .. Len(uploads) : uploads[f].kind = "batch" \/ uploads[f].events = {}
UploadsHoldAccepted ==
  \A f \in 1 .. Len(uploads) : uploads[f].events \subseteq Accepted
PipelineInv ==
  /\ Phone!RelayInv /\ Nas!CollectorInv
  /\ OnlyBatchesHoldEvents /\ UploadsHoldAccepted

(* The relay stages accepted events only, each once, and (under FairSpec)  *)
(* every accepted event.                                                   *)
Abstract == INSTANCE EventRelay WITH accepted <- Accepted
ImplementsSafety == Abstract!Safety
ImplementsRelay == Abstract!Spec

============================================================================
