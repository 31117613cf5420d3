------------------------ MODULE MCDatabaseOperations ------------------------
(* DatabaseOperations over three files: one in the runner's transaction    *)
(* that creates the tables, one with its own COMMIT that can be repeated,  *)
(* one that cannot.  The last two need the first and not each other, so    *)
(* that gaps can arise.  Two runners race, or two captures, or the backup  *)
(* runs beside one of the writers.                                         *)
EXTENDS DatabaseOperations

CONSTANTS r1, r2, c1, c2

MCNeeds == {<<2, 1>>, <<3, 1>>}

MCCrews ==
  {{r1, r2, "editor"}, {c1, c2, "calendar"},
   {r1, "backup"}, {c1, "backup"}, {"import", "backup"}}
============================================================================
