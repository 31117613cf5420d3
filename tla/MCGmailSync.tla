------------------------------ MODULE MCGmailSync ------------------------------
(* GmailSync on a small mailbox. *)
EXTENDS GmailSync
============================================================================
