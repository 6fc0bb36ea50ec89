------------------------------ MODULE BufferInv ------------------------------
(***************************************************************************)
(* The inductive invariant of Buffer.                                      *)
(*                                                                         *)
(* A position is a pair (index, cycle): the block at that index on that    *)
(* lap of the ring.  The invariant says what the ring holds ahead of a     *)
(* position the writer has not lapped, and what each reader knows at each  *)
(* point of its loop.                                                      *)
(***************************************************************************)
EXTENDS Buffer

\* The writer is at this position or beyond it.
Reached(i, c) == c < cycle_count \/ (c = cycle_count /\ i <= index_in)

\* ... and beyond it by less than the whole ring,
Within(i, c) ==
    \/ c = cycle_count /\ i <= index_in
    \/ c + 1 = cycle_count /\ index_in < i

\* ... or by exactly the whole ring: its block is the one being overwritten.
AtLap(i, c) == c + 1 = cycle_count /\ i = index_in

\* The slot has held a published block.
Written(s) == cycle_count > 0 \/ s < index_in

\* The frame a slot holds, or is to hold once the writer publishes it.
NextStamp(s) == IF s = index_in THEN frame ELSE timestamp[s]

\* Published blocks are whole, and the block being released is too.
BlocksWhole ==
    /\ \A s \in Slots : s # index_in => data[s] = {timestamp[s]}
    /\ wpc = "publishing" => data[index_in] = {frame}

\* Going round the ring, frames are in order, a frame that does not follow
\* its predecessor immediately is marked with a gap, and no stored frame is
\* missing.
FramesInOrder ==
    /\ \A f \in stored : f < frame
    /\ \A s \in Slots :
        /\ s # index_in => timestamp[s] < frame
        /\ Written(s) =>
            LET next == advance_index(s) IN
            /\ timestamp[s] \in stored
            /\ timestamp[s] < NextStamp(next)
            /\ gap[next] \/ NextStamp(next) = timestamp[s] + 1
            /\ \A f \in stored : f <= timestamp[s] \/ f >= NextStamp(next)

\* If frames have been lost since the last one stored, the slot at index_in
\* says so.
LossMarked ==
    \A n \in stored \cup {0} : Newest(n) => gap[index_in] \/ frame = n + 1

\* A reader between blocks, at the position where it will read next.
ReaderAtRest(r) ==
    /\ copied[r] = {}
    /\ Within(index_out[r], rcycle[r]) =>
        /\ last[r] < NextStamp(index_out[r])
        /\ cont[r] =>
            gap[index_out[r]] \/ NextStamp(index_out[r]) = last[r] + 1

\* What a reader knows of the block it holds as long as the writer has not
\* come back to it.
HeldBlock(r) ==
    /\ held[r] \in stored
    /\ held[r] > last[r]
    /\ cont[r] => held[r] = last[r] + 1

\* A reader that holds a block.
ReaderHolds(r) ==
    /\ ~gap_reported[r]
    /\ Within(index_out[r], rcycle[r]) =>
        /\ index_out[r] # index_in
        /\ copied[r] \subseteq {held[r]}
    /\ Within(index_out[r], rcycle[r]) \/ AtLap(index_out[r], rcycle[r]) =>
        /\ timestamp[index_out[r]] = held[r]
        /\ HeldBlock(r)

\* A reader inside release_read_block, after its snapshot.
ReaderReleases(r) ==
    /\ ~gap_reported[r]
    /\ Reached(snap_index[r], snap_cycle[r])
    /\ Within(snap_index[r], snap_cycle[r]) =>
            last[r] < NextStamp(snap_index[r])
    /\ ReleasedOk(r) =>
        /\ copied[r] \subseteq {held[r]}
        /\ HeldBlock(r)
        /\ Within(index_out[r], rcycle[r]) \/ AtLap(index_out[r], rcycle[r])
            => timestamp[index_out[r]] = held[r]

ReaderInv(r) ==
    /\ rpc[r] = "closed" => copied[r] = {}
    /\ rpc[r] # "closed" =>
        /\ Reached(index_out[r], rcycle[r])
        /\ last[r] < frame
        /\ gap_reported[r] => ~cont[r]
    /\ rpc[r] \in {"ready", "waiting"} => ReaderAtRest(r)
    /\ rpc[r] = "got" => ReaderHolds(r)
    /\ rpc[r] = "snapped" => ReaderReleases(r)

\* The reserved reader is the open one; the writer never laps it, and every
\* stored frame is behind it or still to come.
ReservedInv(r) ==
    /\ rpc[r] # "closed" <=> reserved_reader = r
    /\ rpc[r] # "closed" =>
        /\ Within(index_out[r], rcycle[r])
        /\ \A f \in stored : f <= last[r] \/ f >= NextStamp(index_out[r])
    /\ rpc[r] = "snapped" => ReleasedOk(r)

IInv ==
    /\ TypeOK
    /\ BlocksWhole
    /\ FramesInOrder
    /\ LossMarked
    /\ \A r \in Readers : ReaderInv(r)
    /\ \A r \in Reserved : ReservedInv(r)
    /\ NoLostWakeup

=============================================================================
