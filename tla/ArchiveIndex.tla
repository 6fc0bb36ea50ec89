---------------------------- MODULE ArchiveIndex ----------------------------
(***************************************************************************)
(* The index of the archive and how a time is looked up in it (index       *)
(* maintenance and binary_search in transform.c).                          *)
(*                                                                         *)
(* The state is the index as the transform thread leaves it after each     *)
(* major block.  Consecutive blocks follow one another in time up to the   *)
(* jitter of the timestamp fit, or after a gap; ids follow one another     *)
(* unless frames were dropped.                                             *)
(***************************************************************************)
EXTENDS Integers

CONSTANTS
    MajorBlocks,  \* header->major_block_count
    IndexSkip,    \* INDEX_SKIP
    SampleCount,  \* header->major_sample_count
    Duration,     \* time taken by a major block
    Gaps,         \* what can lie between a block and the next: time, and
                  \* number of frames
    MaxDelta,     \* MAX_DELTA_T
    MaxBlocks     \* bound: number of blocks completed

\* validate_header asks for more than one block and no more.
ASSUME IndexAssumption ==
    /\ MajorBlocks \in Nat /\ MajorBlocks > 1
    /\ IndexSkip \in Nat
    /\ SampleCount \in Nat /\ SampleCount > 0
    /\ Duration \in Nat /\ Duration > 0
    /\ Gaps \subseteq {g \in Int : g > -Duration} \X Nat
    /\ MaxDelta \in Nat /\ MaxBlocks \in Nat

Blocks == 0 .. MajorBlocks - 1

VARIABLES
    current,    \* header->current_major_block
    index,      \* data_index
    clock, id,  \* time and id0 at which the last completed block ended
    completed   \* ghost: number of blocks completed

archive == <<current, index, clock, id, completed>>

InitIndex ==
    /\ current = 0
    /\ index = [b \in Blocks |->
                    [timestamp |-> 0, duration |-> 0, id_zero |-> 0]]
    /\ clock = 2 /\ id = 0
    /\ completed = 0

NextBlock(b) == (b + 1) % MajorBlocks

\* index_minor_block for the first minor block, and advance_index.
advance_index(gap, dropped) ==
    /\ completed < MaxBlocks
    /\ index' = [index EXCEPT ![current] =
                    [timestamp |-> clock + gap, duration |-> Duration,
                     id_zero |-> id + dropped]]
    /\ current' = NextBlock(current)
    /\ clock' = clock + gap + Duration
    /\ id' = id + dropped + SampleCount
    /\ completed' = completed + 1

AdvanceIndex == \E g \in Gaps : advance_index(g[1], g[2])

-----------------------------------------------------------------------------
(* Looking a time up. *)

\* Mutant: the oldest blocks are not skipped.
StartUnskipped == (current + 1) % MajorBlocks

Start == (current + 1 + IndexSkip) % MajorBlocks

Empty(b) == index[b].duration = 0

Midpoint(low, high) ==
    IF low < high
    THEN (low + high) \div 2
    ELSE ((low + high + MajorBlocks) \div 2) % MajorBlocks

\* Mutant: a block that starts at the time looked for is not taken.
BeforeBlockOrAt(t, b) == t <= index[b].timestamp

BeforeBlock(t, b) == t < index[b].timestamp

\* The bisection, from the block it starts with to the block it ends in.
Bisect(t) ==
    LET search[range \in Blocks \X Blocks] ==
            LET low == range[1]
                high == range[2]
                mid == Midpoint(low, high)
            IN IF NextBlock(low) = high THEN low
               ELSE IF BeforeBlock(t, mid) THEN search[<<low, mid>>]
                                           ELSE search[<<mid, high>>]
    IN search[<<Start, current>>]

\* Blocks of zero duration come before the start of the archive.
binary_search(t) ==
    LET low == Bisect(t) IN IF Empty(low) THEN NextBlock(low) ELSE low

-----------------------------------------------------------------------------
(* What binary_search is to return. *)

\* Blocks to the left of b in the search range, b included, are those whose
\* distance from Start is no greater.
Place(b) == (b - Start + MajorBlocks) % MajorBlocks

\* The blocks in the range that hold data.
Searched == {b \in Blocks : Place(b) < Place(current) /\ ~Empty(b)}

Latest(S) == CHOOSE b \in S : \A c \in S : Place(c) <= Place(b)
Earliest(S) == CHOOSE b \in S : \A c \in S : Place(b) <= Place(c)

\* The times asked for; a timestamp of 0 is refused by parse_time_or_seconds.
Times == 1 .. clock + 1

\* binary_search: "Returns the index of the latest valid block with a starting
\* timestamp no later than the target timestamp", or else the earliest valid
\* block there is; "if the archive is empty may return an invalid index, this
\* is recognised by comparing the result with current".
SearchFindsBlock ==
    \A t \in Times :
        LET early == {b \in Searched : index[b].timestamp <= t} IN
        binary_search(t) =
            IF Searched = {} THEN current
            ELSE IF early = {} THEN Earliest(Searched) ELSE Latest(early)

=============================================================================
