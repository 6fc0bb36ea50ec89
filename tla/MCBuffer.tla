------------------------------ MODULE MCBuffer ------------------------------
(* Buffer with small constants for TLC. *)
EXTENDS BufferInv

CONSTANTS transform, subscriber

=============================================================================
