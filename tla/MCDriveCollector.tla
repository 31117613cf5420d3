-------------------------- MODULE MCDriveCollector --------------------------
(* TLC instances of DriveCollector on its own: any file may arrive. *)
EXTENDS DriveCollector
============================================================================
