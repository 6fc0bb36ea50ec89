------------------------------- MODULE Layout -------------------------------
(***************************************************************************)
(* The layout of an archive (disk.c, disk.h): header, index, twice         *)
(* decimated data (DD), and major blocks, each a column of samples (FA) per *)
(* archived id and a column of decimated samples (D) per archived id.      *)
(*                                                                         *)
(* Sizes are in units of FA_ENTRY_SIZE, 8 bytes.                           *)
(***************************************************************************)
EXTENDS Integers, FiniteSets

CONSTANTS
    Word,       \* units counted by a uint32_t number of bytes
    PageSize    \* units in a page, and in the header

ASSUME LayoutAssumption ==
    /\ Word \in Nat /\ PageSize \in Nat \ {0}
    /\ Word % PageSize = 0 /\ Word > PageSize

IndexEntry == 2       \* sizeof(struct data_index)
DecimatedEntry == 4   \* sizeof(struct decimated_data)

u32(n) == n % Word

round_to_page(n) == PageSize * ((n + PageSize - 1) \div PageSize)

page_aligned(n) == n % PageSize = 0

\* Samples and decimated samples of all archived ids.
BlockSize(ids, samples, d_samples) ==
    ids * (samples + d_samples * DecimatedEntry)

\* What a major block takes of the three areas, a sum of uint32_t.
UnitSize(block, dd_block) == u32(IndexEntry + dd_block + block)

\* The number of major blocks that initialise_header begins with, ...
Estimate(p, block, dd_block) ==
    (p.file_size - PageSize) \div UnitSize(block, dd_block)

\* ... and what is left of them once the areas, rounded up, fit.  The count and
\* both sizes are uint32_t, and so are their products, but for one of the first
\* estimate.
Reduced(p, block, dd_block) ==
    LET Sum(n, dd) == u32(round_to_page(n * IndexEntry)) + round_to_page(dd)
                      + u32(n * block)
        fits(n, dd) == Sum(n, dd) <= p.file_size - PageSize
        reduce[n \in Nat] ==
            IF n = 0 \/ fits(n, u32(n * dd_block)) THEN n ELSE reduce[n - 1]
        first == Estimate(p, block, dd_block)
    IN IF fits(first, first * dd_block) THEN first ELSE reduce[first - 1]

\* initialise_header: the layout for parameters p, a record of the number of
\* ids, the samples in a major block and in an input block, both decimations as
\* shifts, and the size of the file.
initialise_header(p) ==
    LET d == p.samples \div 2 ^ p.first_log2
        dd == d \div 2 ^ p.second_log2
        block == u32(BlockSize(p.ids, p.samples, d))
        dd_block == u32(dd * p.ids * DecimatedEntry)
        count == Reduced(p, block, dd_block)
        index_size == u32(round_to_page(count * IndexEntry))
        dd_size == round_to_page(
            IF count = Estimate(p, block, dd_block) THEN count * dd_block
                                                    ELSE u32(count * dd_block))
    IN [archive_mask_count |-> p.ids,
        first_decimation_log2 |-> p.first_log2,
        second_decimation_log2 |-> p.second_log2,
        input_sample_count |-> p.input,
        major_sample_count |-> p.samples,
        d_sample_count |-> d,
        dd_sample_count |-> dd,
        major_block_size |-> block,
        major_block_count |-> count,
        index_data_start |-> PageSize,
        index_data_size |-> index_size,
        dd_data_start |-> PageSize + index_size,
        dd_data_size |-> dd_size,
        dd_total_count |-> dd * count,
        major_data_start |-> PageSize + index_size + dd_size,
        total_data_size |-> PageSize + index_size + dd_size + count * block]

DataEnd(h) == h.major_data_start + h.major_block_count * h.major_block_size

\* validate_header: what any program asks of a header it finds in a file.
validate_header(h, file_size) ==
    /\ h.archive_mask_count > 0
    /\ h.total_data_size <= file_size
    /\ h.d_sample_count * 2 ^ h.first_decimation_log2 = h.major_sample_count
    /\ h.dd_sample_count * 2 ^ h.second_decimation_log2 = h.d_sample_count
    /\ BlockSize(h.archive_mask_count, h.major_sample_count, h.d_sample_count)
            = h.major_block_size
    /\ h.major_block_count * IndexEntry <= h.index_data_size
    /\ h.dd_sample_count * h.major_block_count = h.dd_total_count
    /\ h.dd_total_count * h.archive_mask_count * DecimatedEntry
            <= h.dd_data_size
    /\ \A n \in {h.index_data_size, h.dd_data_size, h.major_block_size,
                 h.index_data_start, h.dd_data_start, h.major_data_start} :
            page_aligned(n)
    /\ h.index_data_start >= PageSize
    /\ h.dd_data_start >= h.index_data_start + h.index_data_size
    /\ h.major_data_start >= h.dd_data_start + h.dd_data_size
    /\ h.total_data_size >= DataEnd(h)
    /\ h.first_decimation_log2 > 0 /\ h.second_decimation_log2 > 0
    /\ h.major_sample_count > 1 /\ h.major_block_count > 1
    /\ h.major_sample_count % h.input_sample_count = 0

power_of_2(n) == n = 0 \/ \E k \in 0 .. 32 : n = 2 ^ k

\* The units a major block takes are not 0 when reduced to 32 bits: by 0 they
\* could not be divided.
Divides(p) ==
    LET d == p.samples \div 2 ^ p.first_log2
        dd == d \div 2 ^ p.second_log2
    IN UnitSize(u32(BlockSize(p.ids, p.samples, d)),
                u32(dd * p.ids * DecimatedEntry)) > 0

\* What initialise_header asks besides; both decimations are powers of two.
Accepted(p) ==
    /\ Divides(p)
    /\ power_of_2(p.samples)
    /\ p.samples >= 2 ^ (p.first_log2 + p.second_log2)
    /\ validate_header(initialise_header(p), p.file_size)

\* Mutant: samples are stored by frame instead of by id.
fa_data_offsetByFrame(h, s, i) == s * h.archive_mask_count + i

\* Where sample s of column i is in a major block, and decimated sample s.
fa_data_offset(h, s, i) == i * h.major_sample_count + s

d_data_offset(h, s, i) ==
    h.major_sample_count * h.archive_mask_count
    + DecimatedEntry * (i * h.d_sample_count + s)

=============================================================================
