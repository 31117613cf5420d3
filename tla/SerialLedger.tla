---------------------------- MODULE SerialLedger ----------------------------
(***************************************************************************)
(* What the imports promise, whatever number of loops run, fail, are       *)
(* killed or import a file again: the ledger is the outcome of whole       *)
(* imports, one after the other, of files that arrived.  An import writes  *)
(* its transactions over what earlier ones wrote, so of two imports that   *)
(* share a transaction the later one wins; and no file is archived before  *)
(* an import of it.                                                        *)
(***************************************************************************)
CONSTANTS
  Content,   \* file contents
  Effect     \* for each batch that can be imported, a pair of content and
             \* mapping, the transactions it writes, by fingerprint
VARIABLES
  arrived,   \* contents of the files that arrived
  imported,  \* batches imported so far
  archived,  \* contents of the files that were archived
  ledger     \* transactions

vars == <<arrived, imported, archived, ledger>>

Init == arrived = {} /\ imported = {} /\ archived = {} /\ ledger = <<>>

Arrive(c) ==
  /\ arrived' = arrived \cup {c}
  /\ UNCHANGED <<imported, archived, ledger>>

Import(b) ==
  /\ b[1] \in arrived
  /\ imported' = imported \cup {b}
  /\ ledger' = [f \in DOMAIN Effect[b] \cup DOMAIN ledger |->
                  IF f \in DOMAIN Effect[b] THEN Effect[b][f] ELSE ledger[f]]
  /\ UNCHANGED <<arrived, archived>>

Archive(c) ==
  /\ \E b \in imported : b[1] = c
  /\ archived' = archived \cup {c}
  /\ UNCHANGED <<arrived, imported, ledger>>

Next ==
  \/ \E c \in Content : Arrive(c) \/ Archive(c)
  \/ \E b \in DOMAIN Effect : Import(b)

Spec == Init /\ [][Next]_vars

=============================================================================
