--------------------------- MODULE MCLedgerImport ---------------------------
(* LedgerImport over two transactions: a file that is read in full, by a   *)
(* naive format with a wrong amount; one that overlaps it and repeats a    *)
(* malformed row; and one that repeats a fingerprint.                      *)
EXTENDS LedgerImport

R(f, c) == [fingerprint |-> f, cell |-> c]
Full == <<R("a", "plain"), R("b", "local")>>
Overlap == <<R("a", "local"), R("b", "broken"), R("b", "broken")>>
Weak == <<R("b", "plain"), R("b", "local")>>
MCContent == {Full, Overlap, Weak}

MCParse ==
  [x \in Cell \X Format |->
     CASE x[1] = "plain" -> 1
       [] x[1] = "local" -> IF x[2] = "naive" THEN 1 ELSE 2
       [] x[1] = "broken" -> Malformed]

Naive == [format |-> "naive", expected |-> NoExpectation]
Corrected == [format |-> "right", expected |-> 2]
MCMapping == {Naive, Corrected}
MCUnreadable == {<<Weak, Naive>>}
=============================================================================
