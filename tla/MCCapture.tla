------------------------------- MODULE MCCapture -------------------------------
(* Capture with small constants for TLC. *)
EXTENDS Capture

\* A single id, neighbours, ranges that fit in the space for readable masks and
\* ranges that do not, everything.
SomeMasks ==
    {{0}, {3, 4}, {0, 1, 2, 9}, {1, 3, 5, 7}, {4, 8, 11, 31}, 0 .. 31,
     {0, 31}}

\* The archive has all the ids but two.
AllButTwo == 0 .. 31 \ {6, 10}

SomeFields == {{0}, {1, 3}, {0, 1, 2, 3}}

=============================================================================
