------------------------------- MODULE Lines -------------------------------
(***************************************************************************)
(* What is in a line of data: the entries (X and Y of one id) that the     *)
(* server puts there, from the archive (reader.c) or from the live stream  *)
(* (subscribe.c), and what the client takes them for (capture.c, matlab.c).*)
(*                                                                         *)
(* An entry is its field and its id: <<0, id>> for FA data and the mean,   *)
(* <<1, id>> minimum, <<2, id>> maximum, <<3, id>> standard deviation.     *)
(***************************************************************************)
EXTENDS Integers, SequencesExt

CONSTANTS
    FaEntryCount,  \* ids
    ArchiveMask    \* the ids that are archived

ASSUME LinesAssumption ==
    /\ FaEntryCount \in Nat /\ FaEntryCount % 8 = 0
    /\ ArchiveMask \subseteq 0 .. FaEntryCount - 1

\* Those numbers below n that are in the mask, in order.
Bits(mask, n) ==
    LET bits[k \in 0 .. n] ==
            IF k = 0 THEN <<>>
            ELSE IF k - 1 \in mask THEN Append(bits[k - 1], k - 1)
            ELSE bits[k - 1]
    IN bits[n]

-----------------------------------------------------------------------------
(* The server. *)

\* A major block has a column for each archived id.
Column(ix) == Bits(ArchiveMask, FaEntryCount)[ix + 1]

\* Mutant: the columns are counted by the ids asked for.
mask_to_archiveByRequest(mask) ==
    [n \in 1 .. Cardinality(mask) |-> n - 1]

\* mask_to_archive: "Converts an external mask into indexes into the archive",
\* which all the ids have to be in.
InArchive(mask) == mask \subseteq ArchiveMask
mask_to_archive(mask) ==
    LET ids == Bits(mask, FaEntryCount) IN
    [n \in DOMAIN ids |-> Cardinality({i \in ArchiveMask : i < ids[n]})]

fa_write_lines(iter) == [i \in DOMAIN iter |-> <<0, Column(iter[i])>>]

\* For every id the fields of the data mask.
d_write_lines(iter, data_mask) ==
    FlattenSeq([i \in DOMAIN iter |->
        [k \in 1 .. Cardinality(data_mask) |->
            <<Bits(data_mask, 4)[k], Column(iter[i])>>]])

\* copy_frame: eight bits at a time from a frame with all ids.
copy_frame(mask) ==
    FlattenSeq([i \in 1 .. FaEntryCount \div 8 |->
        LET m == {j \in 0 .. 7 : 8 * (i - 1) + j \in mask} IN
        [k \in 1 .. Cardinality(m) |->
            <<0, 8 * (i - 1) + Bits(m, 8)[k]>>]])

-----------------------------------------------------------------------------
(* The client. *)

compute_mask_ids(mask) == Bits(mask, FaEntryCount)

\* capture_data: entries in a line.
line_size(mask, data_mask) == Cardinality(data_mask) * Cardinality(mask)

\* write_header, place_matrix_header: the dimensions of the data, of which
\* those of size 1 that may be squeezed are left out.
Dims(mask, data_mask, frames, is_fa, squeeze_matlab) ==
    LET dims == <<2, Cardinality(data_mask), Cardinality(mask), frames>>
        squeeze == <<FALSE, is_fa \/ squeeze_matlab, squeeze_matlab, FALSE>>
        kept == Bits({i \in 1 .. 4 : ~(dims[i] = 1 /\ squeeze[i])}, 5)
    IN [i \in DOMAIN kept |-> dims[kept[i]]]

\* Where Matlab finds data(xy, field, id, frame), all counted from 1: the first
\* dimension is the one that changes fastest.
Place(mask, data_mask, field, id, frame) ==
    (field - 1) + Cardinality(data_mask) * ((id - 1)
        + Cardinality(mask) * (frame - 1))

\* prepare_data_array of replay.c.
replay_columns(dims) == IF Len(dims) > 2 THEN dims[2] ELSE 1
replay_row_count(dims) == IF Len(dims) > 2 THEN dims[3] ELSE dims[2]

=============================================================================
