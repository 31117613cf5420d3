----------------------------- MODULE EventRelay -----------------------------
(***************************************************************************)
(* What the notification relay promises, whatever phone, Drive, network    *)
(* and NAS do: an event whose line the phone has accepted gets exactly one *)
(* staged row in the end, and nothing else is ever staged.                 *)
(***************************************************************************)
CONSTANT Event
VARIABLES accepted, staged

vars == <<accepted, staged>>

Init == accepted = {} /\ staged = {}

(* The phone's queue file holds the event.                                 *)
Accept(e) ==
  /\ accepted' = accepted \cup {e}
  /\ UNCHANGED staged

(* The event gets its row; a second copy of it changes nothing.            *)
Stage(e) ==
  /\ e \in accepted \ staged
  /\ staged' = staged \cup {e}
  /\ UNCHANGED accepted

Next == \E e \in Event : Accept(e) \/ Stage(e)

Safety == Init /\ [][Next]_vars
Spec == Safety /\ \A e \in Event : WF_vars(Stage(e))

============================================================================
