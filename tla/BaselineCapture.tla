-------------------------- MODULE BaselineCapture --------------------------
(***************************************************************************)
(* capture_household_baseline.sh: one transaction per capture writes the   *)
(* snapshots of its as-of date, and the household's monthly spend as a     *)
(* recurring obligation that is to replace the one before.  Any valid date *)
(* is accepted, and captures may overlap.                                  *)
(*                                                                         *)
(* Under READ COMMITTED each statement of the transaction sees what was    *)
(* committed when it began: Supersede is that moment for the DELETE and    *)
(* the UPDATE of the obligations, everything else shows at the commit.  A  *)
(* row that another transaction has changed meanwhile is looked at again,  *)
(* so the effect is that of the commits' order.  Captures of one date wait *)
(* for each other in the unique index of import_batches, the very first    *)
(* ones in that of households.  Amounts are left out.                      *)
(***************************************************************************)
EXTENDS Integers, FiniteSets

CONSTANTS
  Capture,     \* processes of capture_household_baseline.sh
  Days,        \* bound: dates are 1 .. Days
  MaxCaptures  \* bound: captures ever begun and not rolled back

Date == 1 .. Days
NoEnd == 0

ASSUME CaptureAssumption ==
  Days \in Nat \ {0} /\ MaxCaptures \in Nat /\ IsFiniteSet(Capture)

VARIABLES
  captured,     \* dates whose batch and snapshots are committed
  obligations,  \* finance.recurring_obligations of the baseline's label
  commits,      \* captures committed so far, the next row's id
  phase,        \* where each capture is
  asOf,         \* its date
  seen,         \* ids of the rows its UPDATE found
  today,        \* CURRENT_DATE
  orderly       \* no capture so far was backdated or overlapped another

captureVars == <<captured, obligations, commits, phase, asOf, seen, today, orderly>>

Obligation ==
  [id : Nat, starts : Date, ends : Date \cup {NoEnd}, active : BOOLEAN]

CaptureTypeOK ==
  /\ captured \in SUBSET Date
  /\ obligations \in SUBSET Obligation
  /\ commits \in 0 .. MaxCaptures
  /\ phase \in [Capture -> {"idle", "open", "superseded"}]
  /\ asOf \in [Capture -> Date \cup {0}]
  /\ \A c \in Capture : phase[c] # "idle" => asOf[c] \in Date
  /\ seen \in [Capture -> SUBSET Nat]
  /\ today \in Date
  /\ orderly \in BOOLEAN

CaptureInit ==
  /\ captured = {} /\ obligations = {} /\ commits = 0
  /\ phase = [c \in Capture |-> "idle"]
  /\ asOf = [c \in Capture |-> 0]
  /\ seen = [c \in Capture |-> {}]
  /\ today = 1 /\ orderly = TRUE

Open == {c \in Capture : phase[c] # "idle"}

Closes(c) ==
  /\ phase' = [phase EXCEPT ![c] = "idle"]
  /\ asOf' = [asOf EXCEPT ![c] = 0]
  /\ seen' = [seen EXCEPT ![c] = {}]

----------------------------------------------------------------------------
(* Mutant of BeginCapture: no unique index makes two captures of one date  *)
(* wait for each other.                                                    *)
BeginCaptureAnyDate(c) ==
  /\ phase[c] = "idle" /\ commits + Cardinality(Open) < MaxCaptures
  /\ \E d \in Date :
       /\ captured # {} \/ Open = {}
       /\ asOf' = [asOf EXCEPT ![c] = d]
  /\ phase' = [phase EXCEPT ![c] = "open"]
  /\ UNCHANGED <<captured, obligations, commits, seen, today, orderly>>

(* BEGIN and the INSERTs of batch, household and snapshots. *)
BeginCapture(c) ==
  /\ phase[c] = "idle" /\ commits + Cardinality(Open) < MaxCaptures
  /\ \E d \in Date :
       /\ d \notin {asOf[o] : o \in Open}
       /\ captured # {} \/ Open = {}
       /\ asOf' = [asOf EXCEPT ![c] = d]
  /\ phase' = [phase EXCEPT ![c] = "open"]
  /\ UNCHANGED <<captured, obligations, commits, seen, today, orderly>>

(* The rows DELETE and UPDATE find: those of the capture's own date, and   *)
(* the active ones that started earlier.                                   *)
Found(c) ==
  {o.id : o \in {p \in obligations :
                   p.starts = asOf[c] \/ (p.active /\ p.starts < asOf[c])}}

InOrder(c) ==
  /\ \A o \in obligations : o.starts <= asOf[c]
  /\ \A b \in Open : phase[b] # "superseded"

(* Mutant of Supersede: the UPDATE takes every active row, whatever its    *)
(* date.                                                                   *)
SupersedeAnyDate(c) ==
  /\ phase[c] = "open"
  /\ seen' = [seen EXCEPT ![c] = {o.id : o \in {p \in obligations : p.active \/ p.starts = asOf[c]}}]
  /\ orderly' = (orderly /\ InOrder(c))
  /\ phase' = [phase EXCEPT ![c] = "superseded"]
  /\ UNCHANGED <<captured, obligations, commits, asOf, today>>

(* DELETE and UPDATE find their rows.                                      *)
Supersede(c) ==
  /\ phase[c] = "open"
  /\ seen' = [seen EXCEPT ![c] = Found(c)]
  /\ orderly' = (orderly /\ InOrder(c))
  /\ phase' = [phase EXCEPT ![c] = "superseded"]
  /\ UNCHANGED <<captured, obligations, commits, asOf, today>>

(* What DELETE leaves, and a row after the UPDATE. *)
Kept(c) == {o \in obligations : ~(o.id \in seen[c] /\ o.starts = asOf[c])}
Closed(c, o) ==
  IF o.active /\ o.id \in seen[c]
    THEN [o EXCEPT !.active = FALSE, !.ends = asOf[c] - 1] ELSE o

NewRow(c) == [id |-> commits, starts |-> asOf[c], ends |-> NoEnd, active |-> TRUE]

(* Mutant of CommitCapture: the earlier obligations stay as they are.      *)
CommitCaptureOnly(c) ==
  /\ phase[c] = "superseded"
  /\ captured' = captured \cup {asOf[c]}
  /\ obligations' = Kept(c) \cup {NewRow(c)}
  /\ commits' = commits + 1
  /\ Closes(c)
  /\ UNCHANGED <<today, orderly>>

(* Mutant of CommitCapture: the snapshots of later dates are removed.      *)
CommitCaptureTruncating(c) ==
  /\ phase[c] = "superseded"
  /\ captured' = {d \in captured : d < asOf[c]} \cup {asOf[c]}
  /\ obligations' = {Closed(c, o) : o \in Kept(c)} \cup {NewRow(c)}
  /\ commits' = commits + 1
  /\ Closes(c)
  /\ UNCHANGED <<today, orderly>>

(* COMMIT: the snapshots are there, found rows of the same date are gone,  *)
(* the other rows found are closed, the new one is inserted.               *)
CommitCapture(c) ==
  /\ phase[c] = "superseded"
  /\ captured' = captured \cup {asOf[c]}
  /\ obligations' = {Closed(c, o) : o \in Kept(c)} \cup {NewRow(c)}
  /\ commits' = commits + 1
  /\ Closes(c)
  /\ UNCHANGED <<today, orderly>>

(* An error, a deadlock or a lost connection rolls the transaction back.   *)
RollBack(c) ==
  /\ phase[c] # "idle"
  /\ Closes(c)
  /\ UNCHANGED <<captured, obligations, commits, today, orderly>>

NextDay ==
  /\ today < Days
  /\ today' = today + 1
  /\ UNCHANGED <<captured, obligations, commits, phase, asOf, seen, orderly>>

CaptureStep(c) == BeginCapture(c) \/ Supersede(c) \/ CommitCapture(c) \/ RollBack(c)

CaptureNext == NextDay \/ \E c \in Capture : CaptureStep(c)

CaptureSpec == CaptureInit /\ [][CaptureNext]_captureVars

----------------------------------------------------------------------------
(* The rows analytics.v_active_recurring_obligations adds up today. *)
Counting ==
  {o \in obligations : o.active /\ o.starts <= today /\ (o.ends = NoEnd \/ o.ends >= today)}

(* A date has exactly one obligation once it is captured, however often    *)
(* and by whom: DELETE and INSERT rely on captures of one date being one   *)
(* after the other.                                                        *)
OneObligationPerDate ==
  \A d \in Date :
    Cardinality({o \in obligations : o.starts = d}) = IF d \in captured THEN 1 ELSE 0

(* The spend of the latest baseline counts from its day on, whatever was   *)
(* captured before or after it, backdated or at the same time.             *)
LatestBaselineCounts ==
  \A d \in captured :
    (\A e \in captured : e <= d) /\ d <= today => \E o \in Counting : o.starts = d

(* No spend counts twice as long as captures follow each other in the      *)
(* order of their dates, also when one is repeated or dated ahead.         *)
SpendCountedOnce ==
  orderly => \A o, p \in Counting : o = p

(* The inductive invariant.  Rows are told apart by id and by date ...     *)
CommitsAreBounded == commits + Cardinality(Open) <= MaxCaptures
IdsAreUnique ==
  /\ \A o \in obligations : o.id < commits
  /\ \A o, p \in obligations : o.id = p.id => o = p
  /\ \A c \in Capture : \A i \in seen[c] : i < commits
DatesAreUnique ==
  /\ captured = {o.starts : o \in obligations}
  /\ \A o, p \in obligations : o.starts = p.starts => o = p
  /\ \A a, b \in Open : asOf[a] = asOf[b] => a = b
(* ... a capture closes earlier rows and deletes the one of its date ...   *)
SeenAreEarlier ==
  \A c \in Capture, o \in obligations :
    phase[c] = "superseded" =>
      /\ o.id \in seen[c] => o.starts <= asOf[c]
      /\ o.starts = asOf[c] => o.id \in seen[c]
(* ... so that nobody closes the latest; and in orderly times the one      *)
(* capture past its UPDATE has found every active row.                     *)
LatestIsActive ==
  /\ \A o \in obligations : o.active => o.ends = NoEnd
  /\ \A o \in obligations : (\A p \in obligations : p.starts <= o.starts) => o.active
OneIsActive ==
  orderly =>
    /\ \A o, p \in obligations : o.active /\ p.active => o = p
    /\ \A c \in Capture : phase[c] = "superseded" =>
         /\ \A o \in obligations : o.active => o.id \in seen[c]
         /\ \A b \in Capture : phase[b] = "superseded" => b = c

CaptureInv ==
  /\ CaptureTypeOK /\ CommitsAreBounded /\ IdsAreUnique /\ DatesAreUnique
  /\ SeenAreEarlier /\ LatestIsActive /\ OneIsActive

=============================================================================
