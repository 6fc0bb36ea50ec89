--------------------------- MODULE MCReadRequest ---------------------------
(* ReadRequest with small constants for TLC. *)
EXTENDS ReadRequest

\* A block overlaps the previous one by the error of the fit, or follows it after
\* a gap longer than MAX_DELTA_T, or with frames missing that leave no trace in
\* the timestamps.
GapOrDrop == {<<-1, 0>>, <<2, 0>>, <<0, 1>>}
GapOnly == {<<0, 0>>, <<2, 0>>}

Plain == [all_data |-> FALSE, only_contiguous |-> FALSE, check_id0 |-> FALSE]
PlainOrContiguous ==
    {Plain, [Plain EXCEPT !.only_contiguous = TRUE, !.check_id0 = TRUE]}
PlainOnly == {Plain}
AllDataOnly == {[Plain EXCEPT !.all_data = TRUE]}

Ranges == {-1, 1, 4}

=============================================================================
