----------------------------- MODULE ArchiveInv -----------------------------
(***************************************************************************)
(* The inductive invariant of Archive.  Its parts that speak of the data   *)
(* hold as long as the process has met no fault.                           *)
(***************************************************************************)
EXTENDS Archive

NoFaults == errors = 0 /\ crashes = 0 /\ stops = 0

\* A full buffer is handed over at once.
OffsetInBlock == tpc = "locked" <=> offset = MinorBlocks

\* Both threads run.
Undisturbed == mpc = "up" /\ writer_running /\ wok /\ wpc # "exited"

\* What the current buffer holds of the attempt under way.
Gathered ==
    /\ \A k \in 1 .. offset : content[current_buffer][k] = attempt
    /\ offset > 0 => id_zero[current_major_block] = attempt
    /\ tpc = "scheduled" => offset = 0

\* The block being written is the one last completed, in the other buffer.
Request ==
    /\ writing_active =>
        /\ writing_block = 1 - current_buffer
        /\ IF tpc = "scheduled"
           THEN /\ writing_offset = current_major_block
                /\ content[writing_block] = Whole(attempt)
           ELSE /\ NextBlock(writing_offset) = current_major_block
                /\ content[writing_block] = Whole(index[writing_offset])
    /\ wpc \in {"test", "write", "clear"} => writing_active
    /\ wpc = "clear" => disk[writing_offset] = content[writing_block]

\* The data of attempt a is in block b, or about to be.
Kept(b, a) ==
    /\ id_zero[b] = a
    /\ disk[b] = Whole(a) \/ (writing_active /\ writing_offset = b)

AllKept ==
    /\ tpc = "scheduled" => Kept(current_major_block, attempt)
    /\ \A b \in Blocks :
        b # current_major_block /\ index[b] # 0 => Kept(b, index[b])

\* A client that has looked a block up, for as long as the block is out of
\* the writer's reach.
ClientInv(c) ==
    cpc[c] # "idle" =>
        /\ csince[c] <= advances
        /\ advances - csince[c] <= IndexSkip =>
            /\ Age(cblock[c]) + (advances - csince[c]) > IndexSkip
            /\ cexpect[c] # 0
            /\ index[cblock[c]] = cexpect[c]
            /\ cpc[c] = "reading" =>
                /\ disk[cblock[c]] = Whole(cexpect[c])
                /\ ~(writing_active /\ writing_offset = cblock[c])

\* All of this together.
DataInv ==
    /\ Undisturbed
    /\ Gathered
    /\ Request
    /\ AllKept
    /\ \A c \in Clients : ClientInv(c)

-----------------------------------------------------------------------------
(* Whatever fails: what the threads are left with, and what it costs. *)

\* What the writing of a block goes with, from the request to its completion.
Written ==
    /\ writing_active =>
        /\ writing_block = 1 - current_buffer
        /\ IF tpc = "scheduled"
           THEN /\ writing_offset = current_major_block
                /\ content[writing_block] = Whole(attempt)
                /\ id_zero[writing_offset] = attempt
           ELSE /\ NextBlock(writing_offset) = current_major_block
                /\ content[writing_block] = Whole(index[writing_offset])
                /\ id_zero[writing_offset] = index[writing_offset]
    /\ wpc = "write" => writing_active
    /\ wpc = "clear" /\ wok =>
        writing_active /\ disk[writing_offset] = content[writing_block]
    /\ wpc \in {"test", "clear"} => writing_active \/ ~writer_running
    /\ wpc \in {"wait", "test", "write"} => wok

Stopped ==
    /\ writer_running <=> mpc = "up"
    /\ mpc = "down" => tpc = "exited" /\ wpc = "exited"

\* The data of attempt a is not in block b, nor on its way.
Gone(b, a) ==
    /\ disk[b] # Whole(a) \/ id_zero[b] # a
    /\ ~(writing_active /\ writing_offset = b)

\* The blocks lost, and the one that advance_index is about to lose.
GivenUp ==
    {b \in Blocks :
        IF b = current_major_block
        THEN tpc = "scheduled" /\ Gone(b, attempt)
        ELSE index[b] # 0 /\ Gone(b, index[b])}

Faults == errors + crashes + stops

\* A write has failed and its request is still to be cleared, ...
Failed == wpc = "clear" /\ ~wok /\ writing_active

\* ... the transform thread may schedule one more before it sees the stop.
OneMore == tpc \in {"get", "block", "locked"}

\* Every fault has been paid with a block, but for a failed write that is not
\* cleared yet, and a shutdown, which may yet cost one.
Owed ==
    Cardinality(GivenUp) + (IF Failed THEN 1 ELSE 0)
                         + (IF mpc # "up" THEN 1 ELSE 0) <= Faults

\* The writer thread found nothing to do and stops, so that it will not write
\* what is scheduled, but clears it if it is scheduled at once.
LastLook ==
    /\ mpc # "up" /\ ~wok /\ wpc \in {"clear", "loop", "exited"}
    /\ ~(OneMore /\ writing_active)
    /\ Cardinality(GivenUp) + (IF OneMore \/ writing_active THEN 1 ELSE 0)
            <= Faults

LossInv == Gathered /\ Written /\ Stopped /\ (Owed \/ LastLook)

\* The inductive invariant.
IInv == TypeOK /\ OffsetInBlock /\ (NoFaults => DataInv) /\ LossInv

=============================================================================
