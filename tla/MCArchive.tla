------------------------------ MODULE MCArchive ------------------------------
(* Archive with small constants for TLC.  Clients change nothing that another
   client or a thread can see, so one stands for any number. *)
EXTENDS ArchiveInv

CONSTANT client

=============================================================================
