---------------------------- MODULE MCTransform ----------------------------
(* Transform with small archives for TLC. *)
EXTENDS Transform

Param(samples, input, first, second, blocks) ==
    [ids |-> 2, samples |-> samples, input |-> input,
     first_log2 |-> first, second_log2 |-> second,
     file_size |-> PageSize * (2 + blocks * samples)]

\* The input block is a number of first decimations, is no longer than a
\* double decimation and shorter than a major block.
Fitting == {Param(8, 2, 1, 1, 3), Param(4, 2, 1, 1, 3), Param(8, 4, 1, 2, 3)}

\* The events id is archived, there is none, or it is below all archived ids.
ProperCaptures ==
    {[mask |-> {0, 2}, events |-> 2], [mask |-> {1, 2}, events |-> 0],
     [mask |-> {0, 1}, events |-> -1]}

ZeroOrOne == {0, 1}

=============================================================================
