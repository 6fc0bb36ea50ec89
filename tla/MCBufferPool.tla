---------------------------- MODULE MCBufferPool ----------------------------
(* BufferPool with small constants for TLC. *)
EXTENDS BufferPool, TLC

CONSTANTS client1, client2

TwoClients == {client1, client2}
Symmetry == Permutations(TwoClients)

SomeIds == {2}

=============================================================================
