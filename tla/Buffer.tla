------------------------------- MODULE Buffer -------------------------------
(***************************************************************************)
(* The circular frame buffer at the heart of the archiver (src/buffer.c):  *)
(* one writer, any number of readers, at most one of them reserved.        *)
(*                                                                         *)
(* Each action is one section under buffer->lock, or one piece of code     *)
(* that runs outside it: filling a block, reading its bytes, and the       *)
(* second half of release_read_block all race with the other threads.      *)
(*                                                                         *)
(* A frame is the number of the attempt that produced it: attempts whose   *)
(* frame became a gap use up a number too, so two consecutive numbers are  *)
(* two frames with nothing missing between them.  The number also stands   *)
(* for the frame's timestamp.                                              *)
(***************************************************************************)
EXTENDS Integers

CONSTANTS
    Readers,     \* the threads that read the buffer
    Reserved,    \* those that open it with reserved_reader set
    NoReader,    \* the null reserved_reader pointer
    BlockCount,  \* number of blocks in the ring
    MaxFrames    \* bound: number of frames the writer attempts

ASSUME BlockCountAssumption == BlockCount \in Nat /\ BlockCount >= 2
ASSUME MaxFramesAssumption == MaxFrames \in Nat
ASSUME ReservedAssumption ==
    /\ Reserved \subseteq Readers
    /\ \A a, b \in Reserved : a = b
    /\ NoReader \notin Readers

Slots == 0 .. BlockCount - 1

VARIABLES
    \* struct buffer
    index_in, cycle_count, write_blocked, reserved_reader,
    gap, timestamp,     \* frame_info[slot]
    data,               \* frame_buffer[slot]: frames its bytes come from
    \* the writing thread
    wpc, frame,
    \* struct reader_state and the thread that owns it
    rpc, running, gap_reported, index_out, rcycle,
    held, copied, snap_index, snap_cycle, signalled,
    \* what each reader was told: ghost state
    last, cont, stored

ring == <<index_in, cycle_count, reserved_reader, gap, timestamp>>
writer == <<wpc, frame>>
position == <<index_out, rcycle>>
block == <<held, copied, snap_index, snap_cycle>>
told == <<last, cont, stored>>
vars == <<ring, write_blocked, data, writer, rpc, running, gap_reported,
          position, block, signalled, told>>

WriterStates == {"idle", "filling", "publishing", "discarding"}
ReaderStates == {"closed", "ready", "waiting", "got", "snapped"}

Init ==
    /\ index_in = 0
    /\ cycle_count = 0
    /\ write_blocked = FALSE
    /\ reserved_reader = NoReader
    /\ gap = [s \in Slots |-> FALSE]
    /\ timestamp = [s \in Slots |-> 0]
    /\ data = [s \in Slots |-> {0}]
    /\ wpc = "idle"
    /\ frame = 1
    /\ rpc = [r \in Readers |-> "closed"]
    /\ running = [r \in Readers |-> FALSE]
    /\ gap_reported = [r \in Readers |-> FALSE]
    /\ index_out = [r \in Readers |-> 0]
    /\ rcycle = [r \in Readers |-> 0]
    /\ held = [r \in Readers |-> 0]
    /\ copied = [r \in Readers |-> {}]
    /\ snap_index = [r \in Readers |-> 0]
    /\ snap_cycle = [r \in Readers |-> 0]
    /\ signalled = [r \in Readers |-> FALSE]
    /\ last = [r \in Readers |-> 0]
    /\ cont = [r \in Readers |-> FALSE]
    /\ stored = {}

advance_index(index) == IF index + 1 >= BlockCount THEN 0 ELSE index + 1

\* Mutant: pthread_cond_signal for pthread_cond_broadcast.
psignal ==
    LET waiting == {r \in Readers : rpc[r] = "waiting"}
        woken == CHOOSE r \in waiting : TRUE
    IN signalled' = [r \in Readers |->
                        signalled[r] \/ (r \in waiting /\ r = woken)]

\* pbroadcast: every thread now inside pthread_cond_timedwait wakes.
pbroadcast ==
    signalled' = [r \in Readers |-> signalled[r] \/ rpc[r] = "waiting"]

-----------------------------------------------------------------------------
(* The writer. *)

\* The caller receives the block at index_in and starts to overwrite it.
get_write_block ==
    /\ wpc = "idle"
    /\ frame <= MaxFrames
    /\ wpc' = "filling"
    /\ data' = [data EXCEPT ![index_in] = @ \cup {frame}]
    /\ UNCHANGED <<ring, write_blocked, frame, rpc, running,
                   gap_reported, position, block, signalled, told>>

\* The block is full, or reading the source failed; release_write_block is
\* called, which combines its argument with write_blocked before it takes the
\* lock.
StartRelease(ok) ==
    /\ wpc = "filling"
    /\ wpc' = IF ok /\ ~write_blocked THEN "publishing" ELSE "discarding"
    /\ data' = [data EXCEPT ![index_in] = IF ok THEN {frame} ELSE @]
    /\ UNCHANGED <<ring, write_blocked, frame, rpc, running, gap_reported,
                   position, block, signalled, told>>

\* Mutant: the reserved reader is not protected.
BlockedNever == FALSE

\* The reserved reader is about to be overrun.
Blocked ==
    /\ reserved_reader # NoReader
    /\ advance_index(index_in) = index_out[reserved_reader]

\* Mutant: a failed release leaves no mark.
MarkNothing == UNCHANGED <<gap, index_in, cycle_count, timestamp, stored>>

\* The locked part of release_write_block: mark a gap ...
MarkGap ==
    /\ gap' = [gap EXCEPT ![index_in] = TRUE]
    /\ UNCHANGED <<index_in, cycle_count, timestamp, stored>>

\* Mutant: laps are not counted.
PublishSameCycle ==
    LET new_index == advance_index(index_in) IN
    /\ timestamp' = [timestamp EXCEPT ![index_in] = frame]
    /\ index_in' = new_index
    /\ gap' = [gap EXCEPT ![new_index] = FALSE]
    /\ stored' = stored \cup {frame}
    /\ UNCHANGED cycle_count

\* ... or publish the block.
Publish ==
    LET new_index == advance_index(index_in) IN
    /\ timestamp' = [timestamp EXCEPT ![index_in] = frame]
    /\ index_in' = new_index
    /\ gap' = [gap EXCEPT ![new_index] = FALSE]
    /\ cycle_count' = IF new_index = 0 THEN cycle_count + 1 ELSE cycle_count
    /\ stored' = stored \cup {frame}

release_write_block ==
    /\ wpc \in {"publishing", "discarding"}
    /\ IF wpc = "discarding" \/ Blocked THEN MarkGap ELSE Publish
    /\ pbroadcast
    /\ wpc' = "idle"
    /\ frame' = frame + 1
    /\ UNCHANGED <<reserved_reader, write_blocked, data, rpc, running,
                   gap_reported, position, block, last, cont>>

enable_buffer_write(enabled) ==
    /\ write_blocked = enabled
    /\ write_blocked' = ~enabled
    /\ UNCHANGED <<ring, data, writer, rpc, running, gap_reported, position,
                   block, signalled, told>>

-----------------------------------------------------------------------------
(* The readers. *)

\* Ghost: the last frame stored, 0 if there is none.
Newest(n) == n \in stored \cup {0} /\ \A f \in stored : f <= n

open_reader(r) ==
    /\ rpc[r] = "closed"
    /\ rpc' = [rpc EXCEPT ![r] = "ready"]
    /\ running' = [running EXCEPT ![r] = TRUE]
    /\ gap_reported' = [gap_reported EXCEPT ![r] = FALSE]
    /\ index_out' = [index_out EXCEPT ![r] = index_in]
    /\ rcycle' = [rcycle EXCEPT ![r] = cycle_count]
    /\ reserved_reader' = IF r \in Reserved THEN r ELSE reserved_reader
    /\ \E n \in stored \cup {0} :
        Newest(n) /\ last' = [last EXCEPT ![r] = n]
    /\ cont' = [cont EXCEPT ![r] = TRUE]
    /\ UNCHANGED <<index_in, cycle_count, gap, timestamp, write_blocked, data,
                   writer, block, signalled, stored>>

close_reader(r) ==
    /\ rpc[r] = "ready"
    /\ rpc' = [rpc EXCEPT ![r] = "closed"]
    /\ reserved_reader' =
            IF reserved_reader = r THEN NoReader ELSE reserved_reader
    \* free(reader)
    /\ running' = [running EXCEPT ![r] = FALSE]
    /\ gap_reported' = [gap_reported EXCEPT ![r] = FALSE]
    /\ index_out' = [index_out EXCEPT ![r] = 0]
    /\ rcycle' = [rcycle EXCEPT ![r] = 0]
    /\ last' = [last EXCEPT ![r] = 0]
    /\ cont' = [cont EXCEPT ![r] = FALSE]
    /\ UNCHANGED <<index_in, cycle_count, gap, timestamp, write_blocked, data,
                   writer, block, signalled, stored>>

\* The condition on which get_read_block goes on waiting.
MustWait(r) ==
    /\ running[r]
    /\ index_out[r] = index_in
    /\ gap_reported[r] \/ ~gap[index_out[r]]

\* Mutant: gap marks are not looked at.
ReturnsNullOnTimeout(r) == ~running[r] \/ index_out[r] = index_in

\* The cases in which get_read_block returns NULL once it stops waiting.
ReturnsNull(r) ==
    \/ ~running[r]
    \/ gap[index_out[r]] /\ ~gap_reported[r]
    \/ index_out[r] = index_in

\* The rest of get_read_block once the wait is over.
FinishGet(r) ==
    /\ gap_reported' = [gap_reported EXCEPT ![r] = ReturnsNull(r)]
    /\ IF ReturnsNull(r)
       THEN /\ rpc' = [rpc EXCEPT ![r] = "ready"]
            /\ cont' = [cont EXCEPT ![r] = FALSE]
            /\ UNCHANGED held
       ELSE /\ rpc' = [rpc EXCEPT ![r] = "got"]
            /\ held' = [held EXCEPT ![r] = timestamp[index_out[r]]]
            /\ UNCHANGED cont
    /\ UNCHANGED <<ring, write_blocked, data, writer, running, position,
                   copied, snap_index, snap_cycle, last, stored>>

StartWait(r) ==
    /\ rpc' = [rpc EXCEPT ![r] = "waiting"]
    /\ UNCHANGED <<ring, write_blocked, data, writer, running, gap_reported,
                   position, block, told>>

\* A call of get_read_block up to its return or its first wait.
get_read_block(r) ==
    /\ rpc[r] = "ready"
    /\ signalled' = [signalled EXCEPT ![r] = FALSE]
    /\ IF MustWait(r) THEN StartWait(r) ELSE FinishGet(r)

\* pwait_timeout returns true: the condition is tested again.
Wake(r) ==
    /\ rpc[r] = "waiting"
    /\ signalled[r]
    /\ signalled' = [signalled EXCEPT ![r] = FALSE]
    /\ IF MustWait(r) THEN StartWait(r) ELSE FinishGet(r)

\* pwait_timeout returns false: the loop ends whatever the condition says.
Timeout(r) ==
    /\ rpc[r] = "waiting"
    /\ signalled' = [signalled EXCEPT ![r] = FALSE]
    /\ FinishGet(r)

\* The owner of the block reads (more of) its bytes, with no lock held.
ReadBytes(r) ==
    /\ rpc[r] = "got"
    /\ copied' = [copied EXCEPT ![r] = @ \cup data[index_out[r]]]
    /\ UNCHANGED <<ring, write_blocked, data, writer, rpc, running,
                   gap_reported, position, held, snap_index, snap_cycle,
                   signalled, told>>

\* release_read_block, the locked part: a snapshot of the write position.
TakeSnapshot(r) ==
    /\ rpc[r] = "got"
    /\ rpc' = [rpc EXCEPT ![r] = "snapped"]
    /\ snap_index' = [snap_index EXCEPT ![r] = index_in]
    /\ snap_cycle' = [snap_cycle EXCEPT ![r] = cycle_count]
    /\ UNCHANGED <<ring, write_blocked, data, writer, running, gap_reported,
                   position, held, copied, signalled, told>>

\* Mutants: laps are not compared; a writer behind us in the ring is taken to
\* be on our own lap.
check_underflowNoCycle(r, in, cycle) == in # index_out[r]
check_underflowSameCycle(r, in, cycle) ==
    in # index_out[r] /\ cycle = rcycle[r]

check_underflow(r, in, cycle) ==
    \/ in > index_out[r] /\ cycle = rcycle[r]
    \/ in < index_out[r] /\ cycle = rcycle[r] + 1

ReleasedOk(r) == check_underflow(r, snap_index[r], snap_cycle[r])

\* release_read_block, the rest, which runs after the lock is dropped.
Release(r) ==
    /\ rpc[r] = "snapped"
    /\ rpc' = [rpc EXCEPT ![r] = "ready"]
    /\ IF ReleasedOk(r)
       THEN LET next == advance_index(index_out[r]) IN
            /\ index_out' = [index_out EXCEPT ![r] = next]
            /\ rcycle' = [rcycle EXCEPT ![r] = IF next = 0 THEN @ + 1 ELSE @]
            /\ last' = [last EXCEPT ![r] = held[r]]
            /\ cont' = [cont EXCEPT ![r] = TRUE]
            /\ UNCHANGED gap_reported
       ELSE /\ index_out' = [index_out EXCEPT ![r] = snap_index[r]]
            /\ rcycle' = [rcycle EXCEPT ![r] = snap_cycle[r]]
            /\ gap_reported' = [gap_reported EXCEPT ![r] = FALSE]
            /\ cont' = [cont EXCEPT ![r] = FALSE]
            /\ UNCHANGED last
    \* the locals of the call are gone
    /\ held' = [held EXCEPT ![r] = 0]
    /\ copied' = [copied EXCEPT ![r] = {}]
    /\ snap_index' = [snap_index EXCEPT ![r] = 0]
    /\ snap_cycle' = [snap_cycle EXCEPT ![r] = 0]
    /\ UNCHANGED <<ring, write_blocked, data, writer, running, signalled,
                   stored>>

\* Mutant: the interrupted reader is not woken.
interrupt_readerSilent(r) ==
    /\ rpc[r] # "closed"
    /\ running' = [running EXCEPT ![r] = FALSE]
    /\ UNCHANGED <<ring, write_blocked, data, writer, rpc, gap_reported,
                   position, block, signalled, told>>

interrupt_reader(r) ==
    /\ rpc[r] # "closed"
    /\ running' = [running EXCEPT ![r] = FALSE]
    /\ pbroadcast
    /\ UNCHANGED <<ring, write_blocked, data, writer, rpc, gap_reported,
                   position, block, told>>

-----------------------------------------------------------------------------
WriterNext ==
    \/ get_write_block
    \/ \E ok \in BOOLEAN : StartRelease(ok)
    \/ release_write_block

ReaderNext(r) ==
    \/ open_reader(r)
    \/ close_reader(r)
    \/ get_read_block(r)
    \/ Wake(r)
    \/ Timeout(r)
    \/ ReadBytes(r)
    \/ TakeSnapshot(r)
    \/ Release(r)
    \/ interrupt_reader(r)

Next ==
    \/ WriterNext
    \/ \E enabled \in BOOLEAN : enable_buffer_write(enabled)
    \/ \E r \in Readers : ReaderNext(r)

Spec == Init /\ [][Next]_vars

\* Threads that are not blocked run: the writer finishes what it started, a
\* reader that was woken proceeds.  Nothing forces a timeout to happen.
FairSpec == Spec /\ WF_vars(WriterNext) /\ \A r \in Readers : WF_vars(Wake(r))

-----------------------------------------------------------------------------
(* Properties. *)

\* Every variable has the type of its C counterpart.
TypeOK ==
    /\ index_in \in Slots
    /\ cycle_count \in Nat
    /\ write_blocked \in BOOLEAN
    /\ reserved_reader \in Reserved \cup {NoReader}
    /\ gap \in [Slots -> BOOLEAN]
    /\ timestamp \in [Slots -> Nat]
    /\ data \in [Slots -> SUBSET Nat]
    /\ wpc \in WriterStates
    /\ frame \in Nat \ {0}
    /\ rpc \in [Readers -> ReaderStates]
    /\ running \in [Readers -> BOOLEAN]
    /\ gap_reported \in [Readers -> BOOLEAN]
    /\ index_out \in [Readers -> Slots]
    /\ rcycle \in [Readers -> Nat]
    /\ held \in [Readers -> Nat]
    /\ copied \in [Readers -> SUBSET Nat]
    /\ snap_index \in [Readers -> Slots]
    /\ snap_cycle \in [Readers -> Nat]
    /\ signalled \in [Readers -> BOOLEAN]
    /\ last \in [Readers -> Nat]
    /\ cont \in [Readers -> BOOLEAN]
    /\ stored \subseteq Nat

\* If release_read_block is going to return true then every byte its caller
\* read since get_read_block belongs to the one frame whose timestamp it was
\* given, although the reads and the writer's fills are not synchronised
\* (release_read_block: "If false is returned then the block was overwritten
\* while locked").
CleanRelease ==
    \A r \in Readers :
        rpc[r] = "snapped" /\ ReleasedOk(r) => copied[r] \subseteq {held[r]}

\* release_read_block never fails for the reserved reader: buffer.h, "if the
\* reader was opened with reserved_reader set this is guaranteed not to
\* happen".
ReservedNeverUnderflows ==
    \A r \in Reserved : rpc[r] = "snapped" => ReleasedOk(r)

\* pbroadcast in release_write_block and interrupt_reader covers every change
\* that ends a wait: a reader asleep in get_read_block whose condition to wait
\* is gone has a wakeup under way and does not depend on the 2 s timeout.
NoLostWakeup ==
    \A r \in Readers : rpc[r] = "waiting" /\ ~MustWait(r) => signalled[r]

\* A reader is cut off only when the writer really came round to its block:
\* the in/out/cycle comparison of check_underflow agrees with the number of
\* blocks published since the reader's position.
CutOffOnlyWhenLapped ==
    \A r \in Readers :
        rpc[r] = "snapped" =>
            LET published == snap_cycle[r] * BlockCount + snap_index[r]
                consumed == rcycle[r] * BlockCount + index_out[r]
            IN ReleasedOk(r) <=> published - consumed < BlockCount

\* Shutdown (interrupt_reader) gets a thread out of get_read_block by the
\* broadcast alone, with no help from the timeout.
InterruptEndsWait ==
    \A r \in Readers :
        rpc[r] = "waiting" /\ ~running[r] ~> rpc[r] # "waiting"

\* The ring implements the frame stream of buffer.h: order, no duplicates,
\* every break reported, nothing lost by a reserved reader.
Stream == INSTANCE FrameStream WITH
    open <- {r \in Readers : rpc[r] # "closed"}
ImplementsFrameStream == Stream!Spec

=============================================================================
