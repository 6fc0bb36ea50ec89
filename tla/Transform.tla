------------------------------ MODULE Transform ------------------------------
(***************************************************************************)
(* What the transform thread makes of the blocks of frames it is given     *)
(* (process_block in transform.c), and what a reader finds in the archive  *)
(* afterwards (read_fa_block, read_d_block, read_dd_block in reader.c).     *)
(*                                                                         *)
(* A sample is the pair of its id and the number of its frame; the mean,   *)
(* minimum, maximum and deviation, or the combined events, of a set of     *)
(* samples are represented by that set.  The two addresses of everything,  *)
(* the one it is written to and the one it is read from, are computed as   *)
(* the code computes them.  A block is on disk as soon as it is scheduled: *)
(* module Archive has the writer thread.                                   *)
(***************************************************************************)
EXTENDS Layout, Sequences

CONSTANTS
    FaEntryCount,  \* header->fa_entry_count
    Params,        \* parameters the archive may have been prepared with
    Captures,      \* archived ids, and the id that carries events (or -1)
    Period,        \* time between the frames, in the units of timestamps
    Jitter,        \* what can be added to the timestamp of an input block
    MaxDelta,      \* MAX_DELTA_T
    MaxInputs,     \* bound: number of input blocks
    MaxGaps,       \* bound: number of gaps
    MaxRestarts    \* bound: number of restarts

\* parse_mask does not allow an empty mask or ids from FaEntryCount on.
ASSUME TransformAssumption ==
    /\ FaEntryCount \in Nat
    /\ \A p \in Params :
        /\ p.ids \in Nat /\ p.samples \in Nat /\ p.input \in Nat \ {0}
        /\ p.file_size \in Nat /\ p.file_size >= PageSize
        /\ {2 ^ p.first_log2, 2 ^ p.second_log2} \subseteq Nat \ {0}
    /\ \A c \in Captures :
        /\ c.mask \subseteq 0 .. FaEntryCount - 1 /\ c.mask # {}
        /\ c.events \in -1 .. FaEntryCount - 1
    /\ Period \in Nat /\ MaxDelta \in Nat /\ Jitter \subseteq Nat
    /\ MaxInputs \in Nat /\ MaxGaps \in Nat /\ MaxRestarts \in Nat

VARIABLES
    header, capture,                      \* fixed by fa-prepare and options
    current_major_block, data_index,      \* the mapped header and index,
    dd_area, disk,                        \* DD data, and major blocks on disk
    buffers, current_buffer, fa_offset, d_offset,
    double_accumulators, dd_offset,
    timestamps,                           \* timestamp_array, and its index
    inputs, gaps, restarts                \* ghosts: what has happened

archived == <<current_major_block, data_index, dd_area, disk>>
gathered == <<buffers, current_buffer, fa_offset, d_offset,
              double_accumulators, dd_offset, timestamps>>
vars == <<header, capture, archived, gathered, inputs, gaps, restarts>>

h == header
Nothing == <<>>
Blocks == 0 .. h.major_block_count - 1
Columns == 0 .. h.archive_mask_count - 1

\* The archived ids in ascending order, one per column.
IdOf(i) == CHOOSE id \in capture.mask :
                Cardinality({k \in capture.mask : k < id}) = i

input_frame_count == h.input_sample_count
Decimation1 == 2 ^ h.first_decimation_log2
Decimation == Decimation1 * 2 ^ h.second_decimation_log2
input_decimation_count == input_frame_count \div Decimation1
timestamp_count == h.major_sample_count \div input_frame_count

\* input_id_to_output: an id that is not archived gets the column of the last
\* archived id before it, and -1 only if there is none.
input_id_to_output(id) ==
    IF id = -1 THEN -1
    ELSE Cardinality({k \in capture.mask : k <= id}) - 1

\* Frame number of row j of the input block, and the samples of id from row j.
Frame(j) == inputs * input_frame_count + j
Samples(id, j, n) == {<<id, Frame(k)>> : k \in j .. j + n - 1}

Empty == [i \in Columns |-> {}]

\* Memory after cells, pairs of address and contents, have been written.
Store(memory, cells) ==
    [a \in DOMAIN memory |->
        IF \E c \in cells : c[1] = a
        THEN (CHOOSE c \in cells : c[1] = a)[2] ELSE memory[a]]

ZeroIndex == [timestamp |-> 0, duration |-> 0, id_zero |-> 0]

\* A fresh archive of any accepted layout.
Init ==
    /\ header \in {initialise_header(p) : p \in {q \in Params : Accepted(q)}}
    /\ capture \in {c \in Captures :
                        Cardinality(c.mask) = h.archive_mask_count}
    /\ current_major_block = 0
    /\ data_index = [b \in Blocks |-> ZeroIndex]
    /\ dd_area = [a \in 0 .. h.dd_total_count * h.archive_mask_count - 1
                    |-> Nothing]
    /\ buffers = [n \in {0, 1} |-> [a \in 0 .. h.major_block_size - 1
                                        |-> Nothing]]
    /\ disk = [b \in Blocks |-> buffers[0]]
    /\ current_buffer = 0 /\ fa_offset = 0 /\ d_offset = 0
    /\ double_accumulators = Empty /\ dd_offset = 0
    /\ timestamps = <<>>
    /\ inputs = 0 /\ gaps = 0 /\ restarts = 0

-----------------------------------------------------------------------------
(* Gathering a major block. *)

\* transpose_block, and decimate_block: what they write to the buffer, ...
FaCells ==
    {<<fa_data_offset(h, fa_offset + j, i), <<IdOf(i), Frame(j)>> >> :
        j \in 0 .. input_frame_count - 1, i \in Columns}

Combined(events, samples) == [events |-> events, of |-> samples]

DCells ==
    {<<d_data_offset(h, d_offset + k, i),
       Combined(IdOf(i) = capture.events,
                Samples(IdOf(i), k * Decimation1, Decimation1))>> :
        k \in 0 .. input_decimation_count - 1, i \in Columns}

\* ... and the accumulators for double decimation.
Accumulated ==
    [i \in Columns |-> double_accumulators[i] \cup
        Samples(IdOf(i), 0, input_decimation_count * Decimation1)]

\* if ((fa_offset & (decimation - 1)) == 0), after a whole input block
CompletesDD(offset) == offset % Decimation = 0

\* double_decimate_block.
DDCells ==
    {<<dd_offset + i * h.dd_total_count,
       Combined(i = input_id_to_output(capture.events), Accumulated[i])>> :
        i \in Columns}

\* What process_block has made of the buffer, offsets and accumulators before
\* it sees whether the block is complete.
Gathered == Store(buffers[current_buffer], FaCells \cup DCells)
FaAdvanced == fa_offset + input_frame_count
DAdvanced == d_offset + input_frame_count \div Decimation1

-----------------------------------------------------------------------------
(* The index. *)

SumOver(f, n) ==
    LET sum[i \in 0 .. n] == IF i = 0 THEN 0 ELSE sum[i - 1] + f[i] IN sum[n]

\* C's division truncates towards zero; by zero it is undefined.
Quotient(a, b) == IF a >= 0 THEN a \div b ELSE -((-a) \div b)

\* Mutant: the weights of the fit are not centred.
WeightUncentred(i) == 2 * i - timestamp_count

\* i counts from 1.
Weight(i) == 2 * i - timestamp_count - 1

\* advance_index: a straight line is fitted through the timestamps, which are
\* those of the ends of the input blocks, as far as they differ from the first.
FittedEntry(stamps) ==
    LET n == timestamp_count
        x == [i \in 1 .. n |-> stamps[i] - stamps[1]]
        sum_x == SumOver(x, n)
        sum_xt == SumOver([i \in 1 .. n |-> x[i] * Weight(i)], n)
        sum_t2 == ((n * n - 1) * n) \div 3
    IN [duration |-> Quotient(2 * n * sum_xt, sum_t2),
        timestamp |-> stamps[1] + Quotient(sum_x, n)
                                - Quotient((n + 1) * sum_xt, sum_t2)]

NextBlock(b) == (b + 1) % h.major_block_count

-----------------------------------------------------------------------------
\* process_block with a block: index_minor_block, transpose_block,
\* decimate_block, advance_block, double_decimate_block; and once the major
\* block is complete write_major_block and advance_index.  id_zero is that of
\* the first row, which stands for the number of its frame.
process_block(jitter) ==
    LET stamp == Frame(input_frame_count) * Period + jitter
        stamps == Append(timestamps, stamp)
        id_zero == IF timestamps = <<>> THEN Frame(0)
                   ELSE data_index[current_major_block].id_zero
        entry == FittedEntry(stamps)
        completed == FaAdvanced >= h.major_sample_count
    IN
    /\ inputs < MaxInputs
    /\ IF CompletesDD(FaAdvanced)
       THEN /\ dd_area' = Store(dd_area, DDCells)
            /\ double_accumulators' = Empty
            /\ dd_offset' = (dd_offset + 1) % h.dd_total_count
       ELSE /\ double_accumulators' = Accumulated
            /\ UNCHANGED <<dd_area, dd_offset>>
    /\ buffers' = [buffers EXCEPT ![current_buffer] = Gathered]
    /\ IF completed
       THEN /\ disk' = [disk EXCEPT ![current_major_block] = Gathered]
            /\ current_buffer' = 1 - current_buffer
            /\ fa_offset' = 0 /\ d_offset' = 0
            /\ data_index' = [data_index EXCEPT ![current_major_block] =
                                [timestamp |-> entry.timestamp,
                                 duration |-> entry.duration,
                                 id_zero |-> id_zero]]
            /\ current_major_block' = NextBlock(current_major_block)
            /\ timestamps' = <<>>
       ELSE /\ fa_offset' = FaAdvanced /\ d_offset' = DAdvanced
            /\ data_index' = [data_index EXCEPT
                                ![current_major_block].id_zero = id_zero]
            /\ timestamps' = stamps
            /\ UNCHANGED <<disk, current_buffer, current_major_block>>
    /\ inputs' = inputs + 1
    /\ UNCHANGED <<header, capture, gaps, restarts>>

\* Mutant: a gap does not clear the accumulators.
reset_double_decimationOffset ==
    /\ dd_offset' = current_major_block * h.dd_sample_count
    /\ UNCHANGED double_accumulators

reset_double_decimation ==
    /\ dd_offset' = current_major_block * h.dd_sample_count
    /\ double_accumulators' = Empty

reset_block == fa_offset' = 0 /\ d_offset' = 0

\* process_block with NULL: an input block is missing, and what was gathered
\* of the major block is thrown away.
process_gap ==
    /\ gaps < MaxGaps
    /\ gaps' = gaps + 1
    /\ inputs' = inputs + 1
    /\ reset_block /\ timestamps' = <<>> /\ reset_double_decimation
    /\ UNCHANGED <<header, capture, archived, buffers, current_buffer,
                   restarts>>

\* initialise_transform in a new process; input blocks are missed meanwhile.
initialise_transform ==
    /\ restarts < MaxRestarts
    /\ restarts' = restarts + 1
    /\ inputs' = inputs + 1
    /\ dd_offset' = current_major_block * h.dd_sample_count
    /\ double_accumulators' = Empty
    /\ buffers' = [n \in {0, 1} |-> [a \in DOMAIN buffers[0] |-> Nothing]]
    /\ current_buffer' = 0 /\ fa_offset' = 0 /\ d_offset' = 0
    /\ timestamps' = <<>>
    /\ UNCHANGED <<header, capture, archived, gaps>>

Next ==
    \/ \E j \in Jitter : process_block(j)
    \/ process_gap
    \/ initialise_transform

Spec == Init /\ [][Next]_vars

-----------------------------------------------------------------------------
(* The archive as it is read. *)

read_fa_block(b, i) ==
    [s \in 0 .. h.major_sample_count - 1 |->
        disk[b][h.major_sample_count * i + s]]

read_d_block(b, i) ==
    [s \in 0 .. h.d_sample_count - 1 |->
        disk[b][h.archive_mask_count * h.major_sample_count
                + DecimatedEntry * (h.d_sample_count * i + s)]]

read_dd_block(b, i) ==
    [s \in 0 .. h.dd_sample_count - 1 |->
        dd_area[h.dd_total_count * i + h.dd_sample_count * b + s]]

-----------------------------------------------------------------------------
(* Properties. *)

\* The blocks that can be searched.
Valid == {b \in Blocks \ {current_major_block} : data_index[b].duration # 0}

\* The samples of id in block b, n of them from the s-th group on.
Group(b, id, s, n) ==
    {<<id, data_index[b].id_zero + k>> : k \in s * n .. (s + 1) * n - 1}

\* transpose_block, reset_block, the two buffers and the layout: in every block
\* the index calls valid a reader finds the samples of each id that followed
\* the first, one for one, whatever gaps and restarts came between.
SamplesAreInPlace ==
    \A b \in Valid, i \in Columns : \A s \in 0 .. h.major_sample_count - 1 :
        read_fa_block(b, i)[s] = <<IdOf(i), data_index[b].id_zero + s>>

Summary(id, samples) == Combined(id = capture.events, samples)

\* decimate_block and double_decimate_block: the decimated data of a valid
\* block, which come from a buffer and from a separate area with an offset and
\* accumulators of its own, summarise exactly the samples of that block.
DecimatedDataMatches ==
    \A b \in Valid, i \in Columns :
        /\ \A s \in 0 .. h.d_sample_count - 1 :
            read_d_block(b, i)[s] =
                Summary(IdOf(i), Group(b, IdOf(i), s, Decimation1))
        /\ \A s \in 0 .. h.dd_sample_count - 1 :
            read_dd_block(b, i)[s] =
                Summary(IdOf(i), Group(b, IdOf(i), s, Decimation))

\* reader.c compares a block's timestamp with the end of the block before it,
\* allowing MAX_DELTA_T: although both ends are fitted through timestamps that
\* are off by the jitter, it finds every missing input block, and no gap where
\* no frame is missing.
GapsAreSeen ==
    \A b \in Valid : NextBlock(b) \in Valid =>
        LET this == data_index[b]
            next == data_index[NextBlock(b)]
            delta == next.timestamp - (this.timestamp + this.duration)
            lost == next.id_zero - (this.id_zero + h.major_sample_count)
        IN lost >= 0 => (lost > 0 <=> delta > MaxDelta \/ delta < -MaxDelta)

=============================================================================
