----------------------------- MODULE Decimation -----------------------------
(***************************************************************************)
(* The decimation thread (decimate.c): reads blocks of samples, and writes *)
(* blocks of rows into a buffer of its own.  A row has the filtered value, *)
(* the id0 that goes with it, and the events of all the samples since the  *)
(* row before, which are represented by the set of those samples.          *)
(*                                                                         *)
(* The two streams the thread works between belong to the module that      *)
(* composes it with them: StartBlock, NoBlock and EndBlock go with an      *)
(* action of the stream it reads, and Releases and Written say what is     *)
(* given to the stream it writes.                                          *)
(***************************************************************************)
EXTENDS Filter

CONSTANTS
    filter_decimation, output_sample_count,
    SampleCountIn   \* samples in an input block

ASSUME DecimationAssumption ==
    /\ filter_decimation \in Nat \ {0}
    /\ output_sample_count \in Nat \ {0}
    /\ SampleCountIn \in Nat \ {0}

VARIABLES
    dpc,                \* "get" or "decimate"
    block_in, in,       \* the block being read, and the next sample of it
    decimation_counter, output_counter,
    accumulated_events, \* samples taken since the last row written
    block_out, out_pointer,
    taken               \* history: all the samples taken

counters == <<decimation_counter, output_counter>>
output == <<block_out, out_pointer>>
decimation == <<dpc, block_in, in, counters, filters, accumulated_events,
                output, taken>>

Rows == 0 .. output_sample_count - 1
get_decimation_factor == decimation_factor * filter_decimation

\* The block get_write_block returns still holds what an earlier lap left
\* there; no sample of ours is in it.
Fresh == [r \in Rows |-> [events |-> {}, x |-> 0, id0 |-> 0]]

InitDecimation ==
    /\ dpc = "get" /\ block_in = 0 /\ in = 0
    /\ decimation_counter = 0 /\ output_counter = 0
    /\ InitFilters
    /\ accumulated_events = {}
    /\ block_out = Fresh /\ out_pointer = 0
    /\ taken = <<>>

\* Sample i of the block made by attempt f; consecutive attempts produce
\* consecutive samples.
Sample(f, i) == f * SampleCountIn + i
Value(s) == Values[(s % Len(Values)) + 1]

advance_index(ix, limit) == IF ix + 1 >= limit THEN 0 ELSE ix + 1

\* What advance_index returns.
Cycles(ix, limit) == ix + 1 >= limit

\* The next sample, and the events up to it.
sample == Sample(block_in, in)
combine_events == accumulated_events \cup {sample}

\* Does the next sample complete a decimated sample, and this a row?
Combs == Cycles(decimation_counter, decimation_factor)
WritesRow == Combs /\ Cycles(output_counter, filter_decimation)

\* The id of the sample just taken, less the delay of the filters.
update_t0 == sample - group_delay

\* The row is filtered when the filters have the new sample.
Written ==
    [block_out EXCEPT ![out_pointer] =
        [events |-> combine_events,
         x |-> filter_output(filter_index', filter_buffer'),
         id0 |-> update_t0]]

-----------------------------------------------------------------------------
\* get_read_block has returned a block.
StartBlock(f) ==
    /\ dpc = "get"
    /\ dpc' = "decimate"
    /\ block_in' = f
    /\ in' = 0
    /\ UNCHANGED <<counters, filters, accumulated_events, output, taken>>

\* Mutant: a gap is only passed on if it happens to complete a block.
ReleasesCompleted(gap) == Cycles(out_pointer, output_sample_count)

\* Does advance_write_block call release_write_block?
Releases(gap) == Cycles(out_pointer, output_sample_count) \/ gap

\* A gap skips one row; the rows before it stay in the block.
NoBlock ==
    /\ dpc = "get"
    /\ out_pointer' = advance_index(out_pointer, output_sample_count)
    /\ UNCHANGED <<dpc, block_in, in, counters, filters, accumulated_events,
                   block_out, taken>>

\* Mutant: the second stage counts samples, not decimated samples.
AdvanceOutputCounterAlways ==
    output_counter' = advance_index(output_counter, filter_decimation)

AdvanceOutputCounter ==
    output_counter' = IF Combs
                      THEN advance_index(output_counter, filter_decimation)
                      ELSE output_counter

\* One round of the loop in decimate_block.
decimate_sample ==
    /\ dpc = "decimate" /\ in < SampleCountIn
    /\ in' = in + 1
    /\ decimation_counter' =
            advance_index(decimation_counter, decimation_factor)
    /\ AdvanceOutputCounter
    /\ cic_accumulators' = accumulate(Value(sample))
    /\ IF Combs THEN comb(cic_accumulators'[cic_order])
       ELSE UNCHANGED <<comb_histories, comb_history_index,
                        filter_buffer, filter_index>>
    /\ taken' = Append(taken, sample)
    /\ IF WritesRow
       THEN /\ accumulated_events' = {}
            /\ block_out' = IF Releases(FALSE) THEN Fresh ELSE Written
            /\ out_pointer' = advance_index(out_pointer, output_sample_count)
       ELSE /\ accumulated_events' = combine_events
            /\ UNCHANGED output
    /\ UNCHANGED <<dpc, block_in>>

\* release_read_block, whatever it returns.
EndBlock ==
    /\ dpc = "decimate" /\ in = SampleCountIn
    /\ dpc' = "get"
    /\ block_in' = 0 /\ in' = 0
    /\ UNCHANGED <<counters, filters, accumulated_events, output, taken>>

-----------------------------------------------------------------------------
\* The counters never leave their ranges.
DecimationTypeOK ==
    /\ dpc \in {"get", "decimate"}
    /\ block_in \in Nat /\ in \in 0 .. SampleCountIn
    /\ decimation_counter \in 0 .. decimation_factor - 1
    /\ output_counter \in 0 .. filter_decimation - 1
    /\ out_pointer \in Rows

\* A row stands for as many samples as get_decimation_factor says: however
\* input blocks, gaps and decimation factors are aligned, the two counters
\* agree with what has been accumulated.
CountersMatchSamples ==
    Cardinality(accumulated_events) =
        decimation_counter + decimation_factor * output_counter

\* A row just written is the convolution of all samples with the response
\* docs/fa-archiver.rst describes, from the first sample on and whatever gaps
\* there were; accumulators that have overflowed, the turns of the histories and
\* the place in the filter buffer make no difference.  Its id0 is that of the
\* sample in the middle of the response.
Filtered(row) ==
    taken # <<>> /\ Last(taken) \in row.events =>
        /\ row.x = Convolved([i \in DOMAIN taken |-> Value(taken[i])])
        /\ row.id0 = Last(taken) - (Len(Response) \div 2)

=============================================================================
