--------------------------- MODULE GmailSyncProofs ---------------------------
(***************************************************************************)
(* GmailSync's safety for every rule set, initial limit, mailbox and       *)
(* failure bound: SyncInv is inductive, and the two action properties of   *)
(* the cursor follow from it.                                              *)
(***************************************************************************)
EXTENDS GmailSync, FiniteSetTheorems, WellFoundedInduction, TLAPS

(* A failure is counted below its bound.                                   *)
LEMMA FailureCount ==
  ASSUME TypeOK, Fails
  PROVE  failures' \in 0 .. MaxFailures
BY MailBounds DEF TypeOK, Fails

(* The messages that have arrived keep their observations.                 *)
LEMMA ObservationsTyped ==
  ASSUME TypeOK, NEW m \in 1 .. Len(mail)
  PROVE  Observations(m) \subseteq {m} \X Rule
<1>1. mail[m] \in Message
  BY DEF TypeOK
<1>2. mail[m].rules \subseteq Rule
  BY <1>1 DEF Message
<1> QED
  BY <1>2 DEF Observations

----------------------------------------------------------------------------
(* The largest of some numbers up to k, by the well-foundedness of <.      *)
LEMMA LargestExists ==
  ASSUME NEW k \in Nat, NEW T, T \subseteq 1 .. k, T # {}
  PROVE  \E x \in T : \A y \in T : y <= x
<1> DEFINE R == {p \in Nat \X Nat : p[1] < p[2]}
           Mirrored == {k - y : y \in T}
<1>1. IsWellFoundedOn(R, Nat)
  BY NatLessThanWellFounded, Zenon DEF OpToRel
<1>2. Mirrored \subseteq Nat /\ Mirrored # {}
  <2>1. \A y \in T : k - y \in Nat
    OBVIOUS
  <2> QED
    BY <2>1
<1> HIDE DEF R
<1>3. PICK z \in Mirrored : \A y \in Mirrored : <<y, z>> \notin R
  <2> HIDE DEF Mirrored
  <2> QED
    BY <1>1, <1>2, WFMin, Zenon
<1>4. PICK x \in T : z = k - x
  OBVIOUS
<1>5. ASSUME NEW y \in T PROVE y <= x
  <2>1. k - y \in Mirrored /\ k - y \in Nat /\ z \in Nat
    BY <1>2
  <2>2. ~(k - y < z)
    BY <1>3, <2>1 DEF R
  <2> QED
    BY <1>4, <2>2
<1> QED
  BY <1>5

(* What messages.list leaves out of the query is older than MaxInitial     *)
(* messages that it returns.                                               *)
LEMMA ListedAreNewest ==
  ASSUME Len(mail) \in Nat, NEW m \in 1 .. Len(mail),
         mail[m].inQuery, m \notin gone, m \notin InitialList
  PROVE  Cardinality({n \in InitialList : n > m}) >= MaxInitial
<1> DEFINE found == {n \in 1 .. Len(mail) : mail[n].inQuery /\ n \notin gone}
           Newer(n) == {x \in found : x > n}
           rest == Newer(m) \ InitialList
<1>1. /\ IsFiniteSet(1 .. Len(mail))
      /\ \A n \in found : IsFiniteSet(Newer(n)) /\ Cardinality(Newer(n)) \in Nat
  <2>1. IsFiniteSet(1 .. Len(mail))
    BY FS_Interval
  <2> QED
    BY <2>1, FS_Subset, FS_CardinalityType
<1>2. InitialList = {n \in found : Cardinality(Newer(n)) < MaxInitial}
  BY DEF InitialList
<1>3. m \in found /\ \A n \in found \ InitialList : Cardinality(Newer(n)) >= MaxInitial
  <2>1. m \in found
    OBVIOUS
  <2> HIDE DEF found, Newer
  <2> QED
    BY <1>1, <1>2, <2>1, MaxInitialAssumption
<1>4. ASSUME NEW t \in found \ InitialList, t >= m, Newer(t) \subseteq InitialList
      PROVE  Cardinality({n \in InitialList : n > m}) >= MaxInitial
  <2> DEFINE listed == {n \in InitialList : n > m}
  <2>1. Newer(t) \subseteq listed /\ listed \subseteq 1 .. Len(mail)
    BY <1>4, <1>2
  <2>2. IsFiniteSet(listed) /\ Cardinality(listed) \in Nat
    BY <1>1, <2>1, FS_Subset, FS_CardinalityType
  <2>3. Cardinality(Newer(t)) <= Cardinality(listed)
    BY <2>1, <2>2, FS_Subset
  <2> HIDE DEF listed, found, Newer
  <2>4. Cardinality(Newer(t)) >= MaxInitial /\ Cardinality(Newer(t)) \in Nat
    BY <1>1, <1>3
  <2>5. Cardinality(listed) >= MaxInitial
    BY <2>2, <2>3, <2>4, MaxInitialAssumption
  <2> QED
    BY <2>5 DEF listed
<1>5. CASE rest = {}
  BY <1>3, <1>4, <1>5
<1>6. CASE rest # {}
  <2>1. PICK t \in rest : \A y \in rest : y <= t
    BY <1>6, LargestExists
  <2>2. t \in found \ InitialList /\ t >= m
    OBVIOUS
  <2>3. Newer(t) \subseteq InitialList
    BY <2>1, <2>2
  <2> QED
    BY <1>4, <2>2, <2>3
<1> QED
  BY <1>5, <1>6

(* The part of SyncInv about full synchronizations depends on few fields.  *)
LEMMA FullListsSame ==
  ASSUME FullListsNewest, UNCHANGED <<mailboxVars, ids, base, fullSync>>,
         pc' \in {"idle", "collect"} => ~fullSync,
         pc' \in Listed \cup {"profile"} => pc \in Listed \cup {"profile"}
  PROVE  FullListsNewest'
BY DEF FullListsNewest, LeftOut, mailboxVars, Listed

----------------------------------------------------------------------------
THEOREM SyncInvInit == Init => SyncInv
<1> SUFFICES ASSUME Init PROVE SyncInv
  OBVIOUS
<1> USE DEF Init
<1>1. mail \in Seq(Message) /\ Len(mail) = 0
  OBVIOUS
<1>2. source \in [cursor : NoCursor .. Len(mail), due : BOOLEAN, healthy : BOOLEAN]
  BY <1>1 DEF NoCursor
<1>3. TypeOK
  <2>1. /\ gone \subseteq 1 .. Len(mail) /\ staged \subseteq (1 .. Len(mail)) \X Rule
        /\ ids \subseteq 1 .. Len(mail) /\ toGet \subseteq ids /\ todo \subseteq ids \X Rule
    OBVIOUS
  <2>2. /\ expired \in 0 .. Len(mail) /\ latest \in 0 .. Len(mail)
        /\ base \in 0 .. Len(mail) /\ openRuns \in Nat /\ failures \in 0 .. MaxFailures
    BY <1>1, MailBounds
  <2>3. pc \in SyncPc /\ fullSync \in BOOLEAN
    BY DEF SyncPc
  <2> QED
    BY <1>1, <1>2, <2>1, <2>2, <2>3, Zenon DEF TypeOK
<1>4. LatestIsAhead /\ IncrementalListsAll /\ FetchedIsKept
  BY DEF LatestIsAhead, IncrementalListsAll, FetchedIsKept, Listed
<1>5. FullListsNewest /\ PhaseIsDone /\ RunRowIsOpen /\ StartsClean
  BY DEF FullListsNewest, Listed, PhaseIsDone, RunRowIsOpen, StartsClean
<1> QED
  BY <1>3, <1>4, <1>5 DEF SyncInv

(* The end of a cycle leaves only the facts about the rows to show.        *)
LEMMA CycleEndsClean ==
  ASSUME SyncInv, CycleEnds, UNCHANGED mail
  PROVE  /\ pc' \in SyncPc /\ fullSync' \in BOOLEAN
         /\ ids' \subseteq 1 .. Len(mail') /\ toGet' \subseteq ids'
         /\ todo' \subseteq ids' \X Rule
         /\ latest' \in 0 .. Len(mail') /\ base' \in 0 .. Len(mail')
         /\ LatestIsAhead' /\ IncrementalListsAll' /\ FetchedIsKept'
         /\ FullListsNewest' /\ PhaseIsDone' /\ RunRowIsOpen' /\ StartsClean'
<1> USE DEF CycleEnds
<1>1. Len(mail) \in Nat
  BY DEF SyncInv, TypeOK
<1>2. pc' \in SyncPc /\ latest' \in 0 .. Len(mail') /\ base' \in 0 .. Len(mail')
  BY <1>1 DEF SyncPc
<1>3. LatestIsAhead' /\ IncrementalListsAll' /\ FetchedIsKept'
  BY DEF LatestIsAhead, IncrementalListsAll, FetchedIsKept, Listed
<1>4. FullListsNewest' /\ PhaseIsDone' /\ RunRowIsOpen' /\ StartsClean'
  BY DEF FullListsNewest, Listed, PhaseIsDone, RunRowIsOpen, StartsClean
<1> QED
  BY <1>2, <1>3, <1>4

(* A step inside the run that keeps the mailbox, the source and the counts *)
(* of rows and failures.                                                   *)
LEMMA RunStepTyped ==
  ASSUME SyncInv, UNCHANGED <<mailboxVars, source, openRuns>>,
         staged' \subseteq (1 .. Len(mail)) \X Rule, pc' \in SyncPc,
         fullSync' \in BOOLEAN, ids' \subseteq 1 .. Len(mail),
         toGet' \subseteq ids', todo' \subseteq ids' \X Rule,
         latest' \in 0 .. Len(mail), base' \in 0 .. Len(mail),
         failures' \in 0 .. MaxFailures
  PROVE  TypeOK'
BY Zenon DEF SyncInv, TypeOK, mailboxVars

(* Mail arriving disturbs nothing: every fact is about earlier messages.   *)
LEMMA SyncInvMail == SyncInv /\ (MailArrives \/ MailDeleted \/ HistoryExpires) => SyncInv'
<1> SUFFICES ASSUME SyncInv, MailArrives \/ MailDeleted \/ HistoryExpires
             PROVE  SyncInv'
  OBVIOUS
<1> USE DEF SyncInv
<1>1. UNCHANGED <<staged, source, openRuns, runVars, failures>>
  BY DEF MailArrives, MailDeleted, HistoryExpires
<1>2. /\ mail' \in Seq(Message) /\ Len(mail) <= Len(mail')
      /\ \A m \in 1 .. Len(mail) : mail'[m] = mail[m]
  <2>1. mail \in Seq(Message)
    BY DEF TypeOK
  <2>2. CASE MailArrives
    <3>1. PICK msg \in Message : mail' = Append(mail, msg)
      BY <2>2 DEF MailArrives
    <3> QED
      BY <2>1, <3>1
  <2>3. CASE MailDeleted \/ HistoryExpires
    BY <2>1, <2>3 DEF MailDeleted, HistoryExpires
  <2> QED
    BY <2>2, <2>3
<1>3. Len(mail) \in Nat /\ Len(mail') \in Nat
  BY <1>2 DEF TypeOK
<1>4. gone' \subseteq 1 .. Len(mail')
  <2>1. CASE MailArrives \/ HistoryExpires
    <3>1. gone' = gone /\ gone \subseteq 1 .. Len(mail)
      BY <2>1 DEF MailArrives, HistoryExpires, TypeOK
    <3> QED
      BY <1>2, <1>3, <3>1
  <2>2. CASE MailDeleted
    BY <1>2, <1>3, <2>2 DEF MailDeleted, TypeOK
  <2> QED
    BY <2>1, <2>2
<1>5. expired' \in 0 .. Len(mail')
  <2>1. expired \in 0 .. Len(mail)
    BY DEF TypeOK
  <2>2. CASE MailArrives \/ MailDeleted
    BY <1>2, <1>3, <2>1, <2>2 DEF MailArrives, MailDeleted
  <2>3. CASE HistoryExpires
    BY <1>3, <2>1, <2>3 DEF HistoryExpires
  <2> QED
    BY <2>2, <2>3
<1>6. 1 .. Len(mail) \subseteq 1 .. Len(mail') /\ 0 .. Len(mail) \subseteq 0 .. Len(mail')
  BY <1>2, <1>3
<1>7. NoCursor .. Len(mail) \subseteq NoCursor .. Len(mail')
  BY <1>2, <1>3 DEF NoCursor
<1>8. source' \in [cursor : NoCursor .. Len(mail'), due : BOOLEAN, healthy : BOOLEAN]
  BY <1>1, <1>7 DEF TypeOK
<1>9. staged' \subseteq (1 .. Len(mail')) \X Rule
  BY <1>1, <1>6, SMT DEF TypeOK
<1>10. TypeOK'
  BY <1>1, <1>2, <1>4, <1>5, <1>6, <1>8, <1>9, Zenon DEF TypeOK, runVars
<1>11. FetchedIsKept'
  <2> SUFFICES ASSUME pc' \in Listed, NEW m \in (ids \ toGet)'
               PROVE  Observations(m)' \subseteq staged' \cup todo'
    BY DEF FetchedIsKept, Listed
  <2>1. m \in 1 .. Len(mail) /\ m \in ids \ toGet /\ pc \in Listed
    BY <1>1 DEF TypeOK, runVars
  <2>2. Observations(m)' = Observations(m)
    BY <1>2, <2>1 DEF Observations
  <2> QED
    BY <1>1, <2>1, <2>2 DEF FetchedIsKept, runVars
<1>12. LatestIsAhead' /\ IncrementalListsAll' /\ PhaseIsDone'
  BY <1>1, Zenon DEF LatestIsAhead, IncrementalListsAll, PhaseIsDone, Listed, runVars
<1>13. RunRowIsOpen' /\ StartsClean'
  BY <1>1, Zenon DEF RunRowIsOpen, StartsClean, runVars
<1>14. FullListsNewest'
  <2>1. UNCHANGED <<pc, fullSync, ids, base>> /\ gone \subseteq gone'
    BY <1>1 DEF runVars, MailArrives, MailDeleted, HistoryExpires
  <2> SUFFICES ASSUME pc \in Listed \cup {"profile"}, fullSync, NEW m \in (1 .. base) \ ids
               PROVE  LeftOut(m)'
    BY <2>1 DEF FullListsNewest, Listed
  <2>2. m \in 1 .. Len(mail) /\ mail'[m] = mail[m]
    BY <1>2, <1>3 DEF TypeOK
  <2>3. LeftOut(m)
    BY DEF FullListsNewest
  <2> QED
    BY <2>1, <2>2, <2>3 DEF LeftOut
<1> QED
  BY <1>10, <1>11, <1>12, <1>13, <1>14

(* The steps of a run up to the listing of its messages.                   *)
LEMMA SyncInvListing ==
  SyncInv /\ (CadenceElapses \/ BeginRun \/ Incremental \/ FullList \/ GetProfile)
    => SyncInv'
<1> SUFFICES ASSUME SyncInv,
                    CadenceElapses \/ BeginRun \/ Incremental \/ FullList \/ GetProfile
             PROVE  SyncInv'
  OBVIOUS
<1> USE DEF SyncInv
<1>0. Len(mail) \in Nat
  BY DEF TypeOK
<1>1. CASE CadenceElapses
  <2> USE <1>1 DEF CadenceElapses
  <2>1. UNCHANGED <<mailboxVars, staged, openRuns, runVars, failures>>
    OBVIOUS
  <2>2. /\ source' \in [cursor : NoCursor .. Len(mail), due : BOOLEAN, healthy : BOOLEAN]
        /\ source'.cursor = source.cursor
    BY DEF TypeOK
  <2>3. TypeOK'
    BY <2>1, <2>2, Zenon DEF TypeOK, mailboxVars, runVars
  <2>4. LatestIsAhead' /\ IncrementalListsAll'
    BY <2>1, <2>2 DEF LatestIsAhead, IncrementalListsAll, Listed, runVars
  <2>5. FetchedIsKept'
    BY <2>1 DEF FetchedIsKept, Observations, Listed, runVars, mailboxVars
  <2>6. PhaseIsDone' /\ RunRowIsOpen'
    BY <2>1 DEF PhaseIsDone, RunRowIsOpen, runVars
  <2>7. StartsClean' /\ FullListsNewest'
    BY <2>1, FullListsSame DEF StartsClean, runVars, FullListsNewest
  <2> QED
    BY <2>3, <2>4, <2>5, <2>6, <2>7
<1>2. CASE BeginRun
  <2> USE <1>2 DEF BeginRun
  <2>1. UNCHANGED <<mailboxVars, staged, fullSync, ids, toGet, todo, latest, base, failures>>
    OBVIOUS
  <2>2. source' \in [cursor : NoCursor .. Len(mail), due : BOOLEAN, healthy : BOOLEAN]
    BY DEF TypeOK
  <2>3. openRuns' \in Nat /\ openRuns' >= 1 /\ pc' = "collect" /\ pc' \in SyncPc
    BY DEF TypeOK, SyncPc
  <2>4. TypeOK'
    BY <2>1, <2>2, <2>3, Zenon DEF TypeOK, mailboxVars
  <2>5. LatestIsAhead' /\ IncrementalListsAll' /\ FetchedIsKept'
    BY <2>3 DEF LatestIsAhead, IncrementalListsAll, FetchedIsKept, Listed
  <2>6. PhaseIsDone' /\ RunRowIsOpen' /\ StartsClean'
    BY <2>1, <2>3 DEF PhaseIsDone, RunRowIsOpen, StartsClean
  <2>7. FullListsNewest'
    BY <2>1, <2>3 DEF FullListsNewest, Listed
  <2> QED
    BY <2>4, <2>5, <2>6, <2>7
<1>3. CASE Incremental
  <2> USE <1>3 DEF Incremental
  <2>1. UNCHANGED <<mailboxVars, staged, source, openRuns, fullSync, todo, failures>>
    OBVIOUS
  <2>2. source.cursor \in 0 .. Len(mail)
    BY <1>0 DEF CursorIsKnown, NoCursor, TypeOK
  <2>3. ids' \subseteq 1 .. Len(mail) /\ toGet' = ids'
    BY <1>0, <2>2 DEF HistoryId
  <2>4. latest' = Len(mail) /\ latest' \in 0 .. Len(mail) /\ base' \in 0 .. Len(mail)
    BY <1>0, <2>2 DEF HistoryId
  <2>5. todo' = {} /\ pc' = "get" /\ pc' \in SyncPc
    BY DEF StartsClean, SyncPc
  <2>6. TypeOK'
    BY <2>1, <2>3, <2>4, <2>5, RunStepTyped DEF TypeOK
  <2>7. LatestIsAhead' /\ FetchedIsKept'
    BY <1>0, <2>1, <2>2, <2>3, <2>4 DEF LatestIsAhead, FetchedIsKept
  <2>8. IncrementalListsAll'
    BY <2>1, <2>4 DEF IncrementalListsAll, HistoryId
  <2>9. PhaseIsDone' /\ RunRowIsOpen' /\ StartsClean' /\ FullListsNewest'
    BY <2>1, <2>5 DEF PhaseIsDone, RunRowIsOpen, StartsClean, FullListsNewest
  <2> QED
    BY <2>6, <2>7, <2>8, <2>9
<1>4. CASE FullList
  <2> USE <1>4 DEF FullList
  <2>1. UNCHANGED <<mailboxVars, staged, source, openRuns, todo, latest, failures>>
    OBVIOUS
  <2>2. ids' \subseteq 1 .. Len(mail) /\ toGet' = ids' /\ base' \in 0 .. Len(mail)
    BY <1>0 DEF InitialList, HistoryId
  <2>3. todo' = {} /\ pc' = "profile" /\ pc' \in SyncPc /\ fullSync' = TRUE
    BY DEF StartsClean, SyncPc
  <2>4. TypeOK'
    BY <2>1, <2>2, <2>3, RunStepTyped DEF TypeOK
  <2>5. LatestIsAhead' /\ IncrementalListsAll' /\ FetchedIsKept' /\ PhaseIsDone'
    BY <2>3 DEF LatestIsAhead, IncrementalListsAll, FetchedIsKept, Listed, PhaseIsDone
  <2>6. RunRowIsOpen' /\ StartsClean'
    BY <2>1, <2>2, <2>3 DEF RunRowIsOpen, StartsClean
  <2>7. FullListsNewest'
    <3>1. ids' = InitialList /\ base' = Len(mail) /\ UNCHANGED <<mail, gone>>
      BY <2>1 DEF HistoryId, mailboxVars
    <3> SUFFICES ASSUME NEW m \in (1 .. Len(mail)) \ InitialList,
                        mail[m].inQuery, m \notin gone
                 PROVE  Cardinality({n \in ids' : n > m}) >= MaxInitial
      BY <2>3, <3>1 DEF FullListsNewest, LeftOut
    <3> QED
      BY <1>0, <3>1, ListedAreNewest
  <2> QED
    BY <2>4, <2>5, <2>6, <2>7
<1>5. CASE GetProfile
  <2> USE <1>5 DEF GetProfile
  <2>1. UNCHANGED <<mailboxVars, staged, source, openRuns, fullSync, ids, toGet,
                    todo, base, failures>>
    OBVIOUS
  <2>2. latest' = Len(mail) /\ latest' \in 0 .. Len(mail)
    BY <1>0 DEF HistoryId
  <2>3. pc' = "get" /\ pc' \in SyncPc /\ fullSync' /\ toGet' = ids' /\ todo' = {}
    BY DEF StartsClean, SyncPc
  <2>4. TypeOK'
    BY <2>1, <2>2, <2>3, RunStepTyped DEF TypeOK
  <2>5. LatestIsAhead'
    BY <1>0, <2>1, <2>2 DEF LatestIsAhead, TypeOK, NoCursor
  <2>6. IncrementalListsAll' /\ FetchedIsKept' /\ PhaseIsDone'
    BY <2>3 DEF IncrementalListsAll, FetchedIsKept, PhaseIsDone
  <2>7. RunRowIsOpen' /\ StartsClean' /\ FullListsNewest'
    BY <2>1, <2>3, FullListsSame DEF RunRowIsOpen, StartsClean
  <2> QED
    BY <2>4, <2>5, <2>6, <2>7
<1> QED
  BY <1>1, <1>2, <1>3, <1>4, <1>5

(* The steps of a run from its listing to its end.                         *)
LEMMA SyncInvFetching ==
  SyncInv /\ (GetMessage \/ GetDone \/ InsertObservation \/ InsertsDone)
    => SyncInv'
<1> SUFFICES ASSUME SyncInv, GetMessage \/ GetDone \/ InsertObservation \/ InsertsDone
             PROVE  SyncInv'
  OBVIOUS
<1> USE DEF SyncInv
<1>1. CASE GetMessage
  <2>1. PICK m \in toGet :
          \/ /\ toGet' = toGet \ {m} /\ todo' = todo \cup Observations(m)
             /\ pc' = "get"
          \/ pc' = "fail" /\ UNCHANGED <<toGet, todo>>
    BY <1>1 DEF GetMessage
  <2>2. /\ UNCHANGED <<mailboxVars, staged, source, openRuns, fullSync, ids, latest,
                       base, failures>>
        /\ pc = "get"
    BY <1>1 DEF GetMessage
  <2>3. m \in ids /\ m \in 1 .. Len(mail) /\ Observations(m) \subseteq {m} \X Rule
    BY ObservationsTyped DEF TypeOK
  <2>4. toGet' \subseteq ids' /\ todo' \subseteq ids' \X Rule /\ pc' \in SyncPc
    BY <2>1, <2>2, <2>3 DEF TypeOK, SyncPc
  <2>5. TypeOK'
    BY <2>2, <2>4, RunStepTyped DEF TypeOK
  <2>6. LatestIsAhead' /\ IncrementalListsAll'
    BY <2>1, <2>2 DEF LatestIsAhead, IncrementalListsAll, Listed
  <2>7. FetchedIsKept'
    BY <2>1, <2>2 DEF FetchedIsKept, Observations, Listed, mailboxVars
  <2>8. PhaseIsDone' /\ RunRowIsOpen' /\ StartsClean'
    BY <2>1, <2>2 DEF PhaseIsDone, RunRowIsOpen, StartsClean
  <2>9. FullListsNewest'
    BY <2>1, <2>2, FullListsSame DEF Listed
  <2> QED
    BY <2>5, <2>6, <2>7, <2>8, <2>9
<1>2. CASE InsertObservation
  <2>1. PICK o \in todo :
          \/ todo' = todo \ {o} /\ staged' = staged \cup {o} /\ pc' = "insert"
          \/ pc' = "fail" /\ UNCHANGED <<todo, staged>>
    BY <1>2 DEF InsertObservation
  <2>2. /\ UNCHANGED <<mailboxVars, source, openRuns, fullSync, ids, toGet, latest,
                       base, failures>>
        /\ pc = "insert"
    BY <1>2 DEF InsertObservation
  <2>3. o \in (1 .. Len(mail)) \X Rule
    BY DEF TypeOK
  <2>4. /\ staged' \subseteq (1 .. Len(mail)) \X Rule /\ todo' \subseteq ids' \X Rule
        /\ pc' \in SyncPc
    BY <2>1, <2>2, <2>3 DEF TypeOK, SyncPc
  <2>5. TypeOK'
    BY <2>2, <2>4, RunStepTyped DEF TypeOK
  <2>6. LatestIsAhead' /\ IncrementalListsAll'
    BY <2>1, <2>2 DEF LatestIsAhead, IncrementalListsAll, Listed
  <2>7. FetchedIsKept'
    BY <2>1, <2>2 DEF FetchedIsKept, Observations, Listed, mailboxVars
  <2>8. PhaseIsDone' /\ RunRowIsOpen' /\ StartsClean'
    BY <2>1, <2>2 DEF PhaseIsDone, RunRowIsOpen, StartsClean
  <2>9. FullListsNewest'
    BY <2>1, <2>2, FullListsSame DEF Listed
  <2> QED
    BY <2>5, <2>6, <2>7, <2>8, <2>9
<1>3. CASE GetDone \/ InsertsDone
  <2>1. /\ UNCHANGED <<mailboxVars, staged, source, openRuns, fullSync, ids, toGet,
                       todo, latest, base, failures>>
        /\ pc \in Listed /\ pc' \in {"insert", "complete"} /\ toGet = {}
        /\ pc' = "complete" => todo = {}
    BY <1>3 DEF GetDone, InsertsDone, PhaseIsDone, Listed
  <2>2. TypeOK'
    BY <2>1, RunStepTyped DEF TypeOK, SyncPc
  <2>3. LatestIsAhead' /\ IncrementalListsAll'
    BY <2>1 DEF LatestIsAhead, IncrementalListsAll, Listed
  <2>4. FetchedIsKept'
    BY <2>1 DEF FetchedIsKept, Observations, Listed, mailboxVars
  <2>5. PhaseIsDone' /\ RunRowIsOpen' /\ StartsClean'
    BY <2>1 DEF PhaseIsDone, RunRowIsOpen, StartsClean, Listed
  <2>6. FullListsNewest'
    BY <2>1, FullListsSame
  <2> QED
    BY <2>2, <2>3, <2>4, <2>5, <2>6
<1> QED
  BY <1>1, <1>2, <1>3

LEMMA SyncInvEnding ==
  SyncInv /\ (CompleteRun \/ CallFails \/ FailRun \/ Crash) => SyncInv'
<1> SUFFICES ASSUME SyncInv, CompleteRun \/ CallFails \/ FailRun \/ Crash
             PROVE  SyncInv'
  OBVIOUS
<1> USE DEF SyncInv
<1>1. CASE CompleteRun \/ FailRun \/ Crash
  <2>1. CycleEnds /\ UNCHANGED <<mailboxVars, staged>> /\ pc # "idle"
    BY <1>1 DEF CompleteRun, FailRun, Crash
  <2>2. openRuns' \in Nat
    BY <1>1, <2>1 DEF CompleteRun, FailRun, Crash, RunRowIsOpen, TypeOK
  <2>3. failures' \in 0 .. MaxFailures
    BY <1>1, FailureCount DEF CompleteRun, FailRun, Crash, TypeOK
  <2>4. latest \in NoCursor .. Len(mail)
    BY DEF TypeOK, NoCursor
  <2>5. source' \in [cursor : NoCursor .. Len(mail), due : BOOLEAN, healthy : BOOLEAN]
    <3>1. CASE CompleteRun
      BY <3>1, <2>4 DEF CompleteRun, TypeOK
    <3>2. CASE FailRun \/ Crash
      BY <3>2 DEF FailRun, Crash, TypeOK
    <3> QED
      BY <1>1, <3>1, <3>2
  <2>6. UNCHANGED mail
    BY <2>1 DEF mailboxVars
  <2>7. TypeOK'
    BY <2>1, <2>2, <2>3, <2>5, <2>6, CycleEndsClean, Zenon DEF TypeOK, mailboxVars
  <2> QED
    BY <2>1, <2>6, <2>7, CycleEndsClean
<1>2. CASE CallFails
  <2>1. /\ UNCHANGED <<mailboxVars, staged, source, openRuns, fullSync, ids, toGet,
                       todo, latest, base>>
        /\ pc' = "fail" /\ pc # "idle"
    BY <1>2 DEF CallFails
  <2>2. failures' \in 0 .. MaxFailures
    BY <1>2, FailureCount DEF CallFails
  <2>3. TypeOK'
    BY <2>1, <2>2, RunStepTyped DEF TypeOK, SyncPc
  <2>4. LatestIsAhead' /\ IncrementalListsAll' /\ FetchedIsKept'
    BY <2>1 DEF LatestIsAhead, IncrementalListsAll, FetchedIsKept, Listed
  <2>5. PhaseIsDone' /\ RunRowIsOpen' /\ StartsClean' /\ FullListsNewest'
    BY <2>1 DEF PhaseIsDone, RunRowIsOpen, StartsClean, FullListsNewest, Listed
  <2> QED
    BY <2>3, <2>4, <2>5
<1> QED
  BY <1>1, <1>2

THEOREM SyncInvStep == SyncInv /\ [Next]_vars => SyncInv'
<1>1. SyncInv /\ Next => SyncInv'
  BY SyncInvMail, SyncInvListing, SyncInvFetching, SyncInvEnding DEF Next, CycleStep
<1>2. SyncInv /\ UNCHANGED vars => SyncInv'
  <2> SUFFICES ASSUME SyncInv, UNCHANGED vars PROVE SyncInv'
    OBVIOUS
  <2>1. UNCHANGED <<mailboxVars, staged, source, openRuns, runVars, failures>>
    BY DEF vars
  <2>2. TypeOK'
    BY <2>1, Zenon DEF SyncInv, TypeOK, mailboxVars, runVars
  <2>3. LatestIsAhead' /\ IncrementalListsAll'
    BY <2>1 DEF SyncInv, LatestIsAhead, IncrementalListsAll, Listed, runVars
  <2>4. FetchedIsKept'
    BY <2>1 DEF SyncInv, FetchedIsKept, Observations, Listed, runVars, mailboxVars
  <2>5. PhaseIsDone' /\ RunRowIsOpen' /\ StartsClean'
    BY <2>1 DEF SyncInv, PhaseIsDone, RunRowIsOpen, StartsClean, runVars
  <2>6. FullListsNewest'
    BY <2>1, FullListsSame DEF SyncInv, FullListsNewest, runVars
  <2> QED
    BY <2>2, <2>3, <2>4, <2>5, <2>6 DEF SyncInv
<1> QED
  BY <1>1, <1>2

THEOREM SyncInvariant == Spec => []SyncInv
<1> QED
  BY SyncInvInit, SyncInvStep, PTL DEF Spec

(* Type correctness: every variable keeps its type.                        *)
THEOREM TypeCorrect == Spec => []TypeOK
<1>1. SyncInv => TypeOK
  BY DEF SyncInv
<1> QED
  BY <1>1, SyncInvariant, PTL

(* Only complete_run moves the cursor.                                     *)
LEMMA OnlyCompletionMovesCursor ==
  ASSUME SyncInv, [Next]_vars, source'.cursor # source.cursor
  PROVE  CompleteRun /\ source'.cursor = latest
<1>1. source \in [cursor : NoCursor .. Len(mail), due : BOOLEAN, healthy : BOOLEAN]
  BY DEF SyncInv, TypeOK
<1>2. ASSUME CadenceElapses \/ BeginRun \/ FailRun PROVE source'.cursor = source.cursor
  BY <1>1, <1>2 DEF CadenceElapses, BeginRun, FailRun
<1>3. ASSUME MailArrives \/ MailDeleted \/ HistoryExpires \/ CallFails \/ Crash
      PROVE  source' = source
  BY <1>3 DEF MailArrives, MailDeleted, HistoryExpires, CallFails, Crash
<1>4. ASSUME Incremental \/ FullList \/ GetProfile \/ GetMessage \/ GetDone
             \/ InsertObservation \/ InsertsDone
      PROVE  source' = source
  BY <1>4 DEF Incremental, FullList, GetProfile, GetMessage, GetDone,
     InsertObservation, InsertsDone
<1>5. UNCHANGED vars => source' = source
  BY DEF vars
<1>6. CompleteRun
  BY <1>2, <1>3, <1>4, <1>5 DEF Next, CycleStep
<1> QED
  BY <1>1, <1>6 DEF CompleteRun

(* The cursor moves only over staged mail: by SyncInv the batch of a run   *)
(* that completes is fetched and inserted whole, an incremental batch has  *)
(* every message after the old cursor, and a full one every message of the *)
(* query but those that LeftOut names.                                     *)
THEOREM CursorMovesOverStagedMailHolds == Spec => CursorMovesOverStagedMail
<1> DEFINE Step ==
             source'.cursor # source.cursor =>
               \A m \in 1 .. source'.cursor :
                 (m \in ids \/ m > source.cursor) =>
                   \/ Observations(m) \subseteq staged
                   \/ fullSync /\ m \notin ids /\ LeftOut(m)
<1>1. SyncInv /\ [Next]_vars => Step
  <2> SUFFICES ASSUME SyncInv, [Next]_vars, source'.cursor # source.cursor,
                      NEW m \in 1 .. source'.cursor, m \in ids \/ m > source.cursor
               PROVE  \/ Observations(m) \subseteq staged
                      \/ fullSync /\ m \notin ids /\ LeftOut(m)
    OBVIOUS
  <2>1. pc = "complete" /\ source'.cursor = latest
    BY OnlyCompletionMovesCursor DEF CompleteRun
  <2>2. toGet = {} /\ todo = {}
    BY <2>1 DEF SyncInv, PhaseIsDone
  <2>3. CASE m \in ids
    BY <2>1, <2>2, <2>3 DEF SyncInv, FetchedIsKept, Listed
  <2>4. CASE m \notin ids
    <3>1. fullSync
      <4>1. source.cursor \in Int /\ latest \in Int
        BY DEF SyncInv, TypeOK, NoCursor
      <4> QED
        BY <2>1, <2>4, <4>1 DEF SyncInv, IncrementalListsAll, Listed
    <3>2. CASE m > base
      BY <2>4, <3>1, <3>2 DEF LeftOut
    <3>3. CASE m \in 1 .. base
      BY <2>1, <2>4, <3>1, <3>3 DEF SyncInv, FullListsNewest, Listed
    <3> QED
      BY <3>2, <3>3 DEF SyncInv, TypeOK
  <2> QED
    BY <2>3, <2>4
<1>2. SyncInv /\ [Next]_vars => [Step]_vars
  BY <1>1
<1> QED
  BY <1>2, SyncInvariant, PTL DEF Spec, CursorMovesOverStagedMail

(* The cursor never goes back: what a run stores is the mailbox's history  *)
(* id at its listing, which no stored cursor exceeds.                      *)
THEOREM CursorNeverGoesBackHolds == Spec => CursorNeverGoesBack
<1>1. SyncInv /\ [Next]_vars => source'.cursor >= source.cursor
  <2> SUFFICES ASSUME SyncInv, [Next]_vars PROVE source'.cursor >= source.cursor
    OBVIOUS
  <2>1. source.cursor \in Int /\ latest \in Int
    BY DEF SyncInv, TypeOK, NoCursor
  <2>2. CASE source'.cursor = source.cursor
    BY <2>1, <2>2
  <2>3. CASE source'.cursor # source.cursor
    BY <2>1, <2>3, OnlyCompletionMovesCursor DEF CompleteRun, SyncInv, LatestIsAhead, Listed
  <2> QED
    BY <2>2, <2>3
<1>2. SyncInv /\ [Next]_vars => [source'.cursor >= source.cursor]_vars
  BY <1>1
<1> QED
  BY <1>2, SyncInvariant, PTL DEF Spec, CursorNeverGoesBack

(***************************************************************************)
(* Why CursorCatchesUp waits for the history to expire, and why it takes   *)
(* storable mail for granted: while Gmail knows the history behind the     *)
(* cursor, one message in it that is deleted, or that a rule extracts an   *)
(* amount from which PostgreSQL refuses, holds the cursor where it is,     *)
(* whatever is retried or restarted.                                       *)
(***************************************************************************)
AheadOfCursor(m) == source.cursor # NoCursor /\ m \in (source.cursor + 1) .. Len(mail)

GoneAhead(m) ==
  /\ AheadOfCursor(m) /\ m \in gone
  /\ pc \in {"idle", "collect", "fail"} \/ (pc = "get" /\ m \in toGet)

UnstorableAhead(m) ==
  /\ AheadOfCursor(m)
  /\ \E r \in mail[m].rules \cap Unstorable :
       \/ pc \in {"idle", "collect", "fail"}
       \/ pc = "get" /\ m \in toGet
       \/ pc \in {"get", "insert"} /\ <<m, r>> \in todo

StoppedUntilExpiry ==
  [][\A m \in 1 .. Len(mail) : expired' <= source.cursor =>
       /\ GoneAhead(m) => GoneAhead(m)' /\ staged' = staged
       /\ UnstorableAhead(m) => UnstorableAhead(m)'
       /\ GoneAhead(m) \/ UnstorableAhead(m) => source'.cursor = source.cursor]_vars

(* The mailbox only grows, and Gmail's history only expires.               *)
LEMMA MailboxMoves ==
  ASSUME SyncInv, [Next]_vars
  PROVE  /\ expired \in Int /\ expired' \in Int /\ expired <= expired'
         /\ gone \subseteq gone'
         /\ Len(mail) \in Nat /\ Len(mail') \in Nat /\ Len(mail) <= Len(mail')
         /\ \A m \in 1 .. Len(mail) : mail'[m] = mail[m]
<1>1. mail \in Seq(Message) /\ expired \in 0 .. Len(mail)
  BY DEF SyncInv, TypeOK
<1>2. CASE MailArrives
  BY <1>1, <1>2 DEF MailArrives
<1>3. CASE MailDeleted \/ HistoryExpires
  BY <1>1, <1>3 DEF MailDeleted, HistoryExpires
<1>4. CASE ~(MailArrives \/ MailDeleted \/ HistoryExpires)
  <2>1. UNCHANGED mailboxVars
    BY <1>4 DEF Next, CycleStep, CadenceElapses, BeginRun, Incremental, FullList,
                GetProfile, GetMessage, GetDone, InsertObservation, InsertsDone,
                CompleteRun, FailRun, CallFails, Crash, vars
  <2> QED
    BY <1>1, <2>1 DEF mailboxVars
<1> QED
  BY <1>2, <1>3, <1>4

(* Where the run is after a step of it, as long as the history is known.   *)
LEMMA RunGoesOn ==
  ASSUME SyncInv, [Next]_vars, source.cursor # NoCursor, expired <= source.cursor,
         NEW m \in (source.cursor + 1) .. Len(mail)
  PROVE  /\ pc \in {"idle", "collect", "fail"} =>
              /\ pc' \in {"idle", "collect", "fail"} \/ (pc' = "get" /\ m \in toGet')
              /\ staged' = staged
         /\ pc = "get" /\ m \in toGet =>
              /\ \/ pc' \in {"idle", "fail"}
                 \/ pc' = "get" /\ m \in toGet'
                 \/ m \notin gone /\ pc' = "get" /\ Observations(m) \subseteq todo'
              /\ staged' = staged
         /\ \A r \in Unstorable : pc \in {"get", "insert"} /\ <<m, r>> \in todo =>
              \/ pc' \in {"idle", "fail"}
              \/ pc' \in {"get", "insert"} /\ <<m, r>> \in todo'
<1>k. CursorIsKnown
  BY DEF CursorIsKnown, SyncInv, TypeOK, NoCursor
<1>1. CASE MailArrives \/ MailDeleted \/ HistoryExpires \/ CadenceElapses \/ UNCHANGED vars
  <2>1. UNCHANGED <<staged, runVars>>
    BY <1>1 DEF MailArrives, MailDeleted, HistoryExpires, CadenceElapses, vars
  <2> QED
    BY <2>1 DEF runVars
<1>2. CASE BeginRun \/ FullList \/ GetProfile \/ CompleteRun
  BY <1>k, <1>2 DEF BeginRun, FullList, GetProfile, CompleteRun
<1>3. CASE Incremental
  BY <1>3 DEF Incremental, HistoryId
<1>4. CASE GetMessage
  BY <1>4 DEF GetMessage
<1>5. CASE InsertObservation
  <2>1. /\ pc = "insert" /\ pc' \in {"insert", "fail"}
        /\ pc' = "fail" \/ \E o \in todo : o[2] \notin Unstorable /\ todo' = todo \ {o}
    BY <1>5 DEF InsertObservation
  <2> QED
    BY <2>1
<1>6. CASE GetDone \/ InsertsDone
  BY <1>6 DEF GetDone, InsertsDone
<1>7. CASE FailRun \/ Crash \/ CallFails
  BY <1>7 DEF FailRun, Crash, CallFails, CycleEnds
<1> QED
  BY <1>1, <1>2, <1>3, <1>4, <1>5, <1>6, <1>7 DEF Next, CycleStep

(* Until the history behind the cursor has expired, the cursor stands      *)
(* still before a message that was deleted, with which no mail is staged   *)
(* either, and before one whose amount cannot be stored.                   *)
THEOREM OneMessageStopsTheSource == Spec => StoppedUntilExpiry
<1> DEFINE Step == \A m \in 1 .. Len(mail) : expired' <= source.cursor =>
                     /\ GoneAhead(m) => GoneAhead(m)' /\ staged' = staged
                     /\ UnstorableAhead(m) => UnstorableAhead(m)'
                     /\ GoneAhead(m) \/ UnstorableAhead(m)
                          => source'.cursor = source.cursor
<1>1. ASSUME SyncInv, [Next]_vars PROVE Step
  <2> SUFFICES ASSUME NEW m \in 1 .. Len(mail), expired' <= source.cursor,
                      GoneAhead(m) \/ UnstorableAhead(m)
               PROVE  /\ source'.cursor = source.cursor
                      /\ GoneAhead(m) => GoneAhead(m)' /\ staged' = staged
                      /\ UnstorableAhead(m) => UnstorableAhead(m)'
    OBVIOUS
  <2>1. source'.cursor = source.cursor
    BY <1>1, OnlyCompletionMovesCursor
       DEF CompleteRun, GoneAhead, UnstorableAhead
  <2>2. /\ source.cursor # NoCursor /\ m \in (source.cursor + 1) .. Len(mail)
        /\ expired <= source.cursor
    <3>1. expired \in Int /\ expired' \in Int /\ expired <= expired' /\ source.cursor \in Int
      BY <1>1, MailboxMoves DEF SyncInv, TypeOK, NoCursor
    <3>2. AheadOfCursor(m)
      BY DEF GoneAhead, UnstorableAhead
    <3> QED
      BY <3>1, <3>2 DEF AheadOfCursor
  <2>3. mail'[m] = mail[m] /\ gone \subseteq gone' /\ AheadOfCursor(m)'
    <3>1. /\ Len(mail) \in Nat /\ Len(mail') \in Nat /\ Len(mail) <= Len(mail')
          /\ mail'[m] = mail[m] /\ gone \subseteq gone' /\ source.cursor \in Int
      BY <1>1, MailboxMoves DEF SyncInv, TypeOK, NoCursor
    <3> QED
      BY <2>1, <2>2, <3>1 DEF AheadOfCursor
  <2>4. GoneAhead(m) => GoneAhead(m)' /\ staged' = staged
    BY <1>1, <2>2, <2>3, RunGoesOn DEF GoneAhead
  <2>5. UnstorableAhead(m) => UnstorableAhead(m)'
    BY <1>1, <2>2, <2>3, RunGoesOn DEF UnstorableAhead, Observations
  <2> QED
    BY <2>1, <2>4, <2>5
<1>2. SyncInv /\ [Next]_vars => [Step]_vars
  BY <1>1
<1> QED
  BY <1>2, SyncInvariant, PTL DEF Spec, StoppedUntilExpiry

============================================================================
