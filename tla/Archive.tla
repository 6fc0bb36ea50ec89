------------------------------- MODULE Archive -------------------------------
(***************************************************************************)
(* The disk archive: the transform thread (process_block in transform.c),  *)
(* the writer thread (disk_writer.c), clients that look a block up in the  *)
(* index and read it from the file (transform.c, reader.c), orderly        *)
(* shutdown (terminate_disk_writer) and crashes of the process.            *)
(*                                                                         *)
(* The archive is a ring of major blocks.  The transform thread fills one  *)
(* of two buffers from minor blocks; when it is full it hands the buffer   *)
(* to the writer thread, completes the index entry and moves on to the     *)
(* other buffer, all under transform_lock.  The header, the index and the  *)
(* file outlive the process; everything else does not.                     *)
(*                                                                         *)
(* The data of a major block is the number of the attempt that gathered    *)
(* it: a gap makes the transform thread throw away what it has and start   *)
(* a new attempt.  The number stands for the block's timestamp and id0.    *)
(***************************************************************************)
EXTENDS Integers, FiniteSets

CONSTANTS
    Clients,      \* threads serving read requests
    MajorBlocks,  \* header->major_block_count
    MinorBlocks,  \* input blocks in one major block
    IndexSkip,    \* INDEX_SKIP
    MaxAttempts,  \* bound: number of attempts at a major block
    MaxErrors,    \* bound: write errors
    MaxCrashes,   \* bound: crashes of the process
    MaxStops      \* bound: orderly shutdowns

ASSUME ArchiveAssumption ==
    /\ MajorBlocks \in Nat /\ MajorBlocks > IndexSkip + 1
    /\ MinorBlocks \in Nat /\ MinorBlocks >= 1
    /\ IndexSkip \in Nat
    /\ MaxAttempts \in Nat /\ MaxErrors \in Nat
    /\ MaxCrashes \in Nat /\ MaxStops \in Nat

Blocks == 0 .. MajorBlocks - 1
Buffers == {0, 1}
Torn == -1     \* a piece of a block whose write did not finish

\* All the data of one attempt; what a freshly prepared archive holds is 0.
Whole(a) == [k \in 1 .. MinorBlocks |-> a]

VARIABLES
    \* on disk: header, index (timestamp and duration; id_zero), data
    current_major_block, index, id_zero, disk,
    \* transform thread and its two buffers
    tpc, current_buffer, content, offset,
    \* write request and writer thread
    writing_active, writing_offset, writing_block, wpc, wok,
    \* terminate_disk_writer
    mpc, writer_running,
    \* clients
    cpc, cblock, cexpect, csince,
    \* ghosts: numbers of attempts begun, blocks completed, faults
    attempt, advances, errors, crashes, stops

file == <<current_major_block, index, id_zero, disk>>
transform == <<tpc, current_buffer, content, offset>>
request == <<writing_active, writing_offset, writing_block>>
writer == <<wpc, wok>>
main == <<mpc, writer_running>>
clients == <<cpc, cblock, cexpect, csince>>
faults == <<errors, crashes, stops>>
vars == <<file, transform, request, writer, main, clients, attempt, advances,
          faults>>

NoData == [b \in Buffers |-> Whole(0)]
AtRest == [c \in Clients |-> "idle"]
Nothing == [c \in Clients |-> 0]

\* A freshly prepared archive and a process just started on it:
\* initialise_transform and start_disk_writer.
Init ==
    /\ current_major_block = 0
    /\ index = [b \in Blocks |-> 0]
    /\ id_zero = [b \in Blocks |-> 0]
    /\ disk = [b \in Blocks |-> Whole(0)]
    /\ tpc = "check" /\ current_buffer = 0 /\ content = NoData /\ offset = 0
    /\ writing_active = FALSE /\ writing_offset = 0 /\ writing_block = 0
    /\ wpc = "loop" /\ wok = TRUE
    /\ mpc = "up" /\ writer_running = TRUE
    /\ cpc = AtRest /\ cblock = Nothing /\ cexpect = Nothing
    /\ csince = Nothing
    /\ attempt = 1 /\ advances = 0
    /\ errors = 0 /\ crashes = 0 /\ stops = 0

NextBlock(b) == (b + 1) % MajorBlocks

-----------------------------------------------------------------------------
(* The transform thread. *)

\* while (writer_running)
TransformLoop ==
    /\ tpc = "check"
    /\ tpc' = IF writer_running THEN "get" ELSE "exited"
    /\ UNCHANGED <<file, current_buffer, content, offset, request, writer,
                   main, clients, attempt, advances, faults>>

\* get_read_block returns a block, which it never does once the reader has
\* been interrupted, or NULL: a gap, a timeout, an interrupted reader.  NULL
\* also stands for a block received while the disk writer is disabled.
get_read_block ==
    /\ tpc = "get"
    /\ \/ /\ mpc \in {"up", "stopping"}
          /\ attempt <= MaxAttempts
          /\ tpc' = "block"
       \/ tpc' = "null"
    /\ UNCHANGED <<file, current_buffer, content, offset, request, writer,
                   main, clients, attempt, advances, faults>>

\* process_block with a minor block: index_minor_block records id0 of the
\* first, the data goes into the current buffer.  When the buffer is full
\* transform_lock is taken.
ProcessMinor ==
    /\ tpc = "block"
    /\ content' = [content EXCEPT ![current_buffer][offset + 1] = attempt]
    /\ id_zero' = IF offset = 0
                  THEN [id_zero EXCEPT ![current_major_block] = attempt]
                  ELSE id_zero
    /\ offset' = offset + 1
    /\ tpc' = IF offset + 1 >= MinorBlocks THEN "locked" ELSE "check"
    /\ UNCHANGED <<current_major_block, index, disk, current_buffer, request,
                   writer, main, clients, attempt, advances, faults>>

\* Mutant: a gap does not reset the offset into the block.
ProcessGapKeepsData ==
    /\ tpc = "null"
    /\ attempt' = IF offset = 0 THEN attempt ELSE attempt + 1
    /\ tpc' = "check"
    /\ UNCHANGED <<file, current_buffer, content, offset, request, writer,
                   main, clients, advances, faults>>

\* process_block with NULL: everything gathered so far is thrown away.
ProcessGap ==
    /\ tpc = "null"
    /\ offset' = 0
    /\ attempt' = IF offset = 0 THEN attempt ELSE attempt + 1
    /\ tpc' = "check"
    /\ UNCHANGED <<file, current_buffer, content, request, writer, main,
                   clients, advances, faults>>

\* Mutant: the buffers do not change roles.
write_major_blockOneBuffer ==
    /\ tpc = "locked"
    /\ ~writing_active
    /\ writing_active' = TRUE
    /\ writing_offset' = current_major_block
    /\ writing_block' = current_buffer
    /\ offset' = 0
    /\ tpc' = "scheduled"
    /\ UNCHANGED <<file, current_buffer, content, writer, main, clients,
                   attempt, advances, faults>>

\* Mutant: schedule_write does not wait for the previous write.
write_major_blockAtOnce ==
    /\ tpc = "locked"
    /\ writing_active' = TRUE
    /\ writing_offset' = current_major_block
    /\ writing_block' = current_buffer
    /\ current_buffer' = 1 - current_buffer
    /\ offset' = 0
    /\ tpc' = "scheduled"
    /\ UNCHANGED <<file, content, writer, main, clients, attempt, advances,
                   faults>>

\* write_major_block: schedule_write waits for the previous write, still
\* holding transform_lock; then the buffers change roles.
write_major_block ==
    /\ tpc = "locked"
    /\ ~writing_active
    /\ writing_active' = TRUE
    /\ writing_offset' = current_major_block
    /\ writing_block' = current_buffer
    /\ current_buffer' = 1 - current_buffer
    /\ offset' = 0
    /\ tpc' = "scheduled"
    /\ UNCHANGED <<file, content, writer, main, clients, attempt, advances,
                   faults>>

\* advance_index, after which transform_lock is released.
advance_index ==
    /\ tpc = "scheduled"
    /\ index' = [index EXCEPT ![current_major_block] = attempt]
    /\ current_major_block' = NextBlock(current_major_block)
    /\ attempt' = attempt + 1
    /\ advances' = advances + 1
    /\ tpc' = "check"
    /\ UNCHANGED <<id_zero, disk, current_buffer, content, offset, request,
                   writer, main, clients, faults>>

-----------------------------------------------------------------------------
(* The writer thread. *)

\* while (ok && writer_running)
WriterLoop ==
    /\ wpc = "loop"
    /\ wpc' = IF wok /\ writer_running THEN "wait" ELSE "exited"
    /\ UNCHANGED <<file, transform, request, wok, main, clients, attempt,
                   advances, faults>>

\* Mutant: the wait ends only for a request.
WriterWokenByRequest ==
    /\ wpc = "wait"
    /\ writing_active
    /\ wpc' = "test"
    /\ UNCHANGED <<file, transform, request, wok, main, clients, attempt,
                   advances, faults>>

\* The wait for a request, or to be stopped, under writer_lock.
WriterWoken ==
    /\ wpc = "wait"
    /\ writing_active \/ ~writer_running
    /\ wpc' = "test"
    /\ UNCHANGED <<file, transform, request, wok, main, clients, attempt,
                   advances, faults>>

\* ok = writing_active && ..., with no lock held; the write begins.
WriterTest ==
    /\ wpc = "test"
    /\ IF writing_active
       THEN /\ wpc' = "write"
            /\ disk' = [disk EXCEPT ![writing_offset] = Whole(Torn)]
            /\ UNCHANGED wok
       ELSE /\ wpc' = "clear"
            /\ wok' = FALSE
            /\ UNCHANGED disk
    /\ UNCHANGED <<current_major_block, index, id_zero, transform, request,
                   main, clients, attempt, advances, faults>>

\* do_write has written the whole buffer ...
WriteDone ==
    /\ wpc = "write"
    /\ disk' = [disk EXCEPT ![writing_offset] = content[writing_block]]
    /\ wpc' = "clear"
    /\ UNCHANGED <<current_major_block, index, id_zero, transform, request,
                   wok, main, clients, attempt, advances, faults>>

\* ... or failed.
WriteError ==
    /\ wpc = "write"
    /\ errors < MaxErrors
    /\ errors' = errors + 1
    /\ wok' = FALSE
    /\ wpc' = "clear"
    /\ UNCHANGED <<file, transform, request, main, clients, attempt, advances,
                   crashes, stops>>

\* writing_active = false, under writer_lock.
WriterClear ==
    /\ wpc = "clear"
    /\ writing_active' = FALSE
    /\ wpc' = "loop"
    /\ UNCHANGED <<file, transform, writing_offset, writing_block, wok, main,
                   clients, attempt, advances, faults>>

-----------------------------------------------------------------------------
(* Clients. *)

\* The blocks binary_search can return: those from INDEX_SKIP + 1 after the
\* current one round to it, but none that was never written.
Age(b) ==
    IF b >= current_major_block
    THEN b - current_major_block
    ELSE b - current_major_block + MajorBlocks
Searchable == {b \in Blocks : Age(b) > IndexSkip /\ index[b] # 0}

\* timestamp_to_start, timestamp_to_end: under transform_lock.  Any block of
\* the range found will do, each is read on its own.
LookUp(c) ==
    /\ cpc[c] = "idle"
    /\ mpc # "down"
    /\ tpc \notin {"locked", "scheduled"}
    /\ \E b \in Searchable :
        /\ cblock' = [cblock EXCEPT ![c] = b]
        /\ cexpect' = [cexpect EXCEPT ![c] = index[b]]
    /\ csince' = [csince EXCEPT ![c] = advances]
    /\ cpc' = [cpc EXCEPT ![c] = "found"]
    /\ UNCHANGED <<file, transform, request, writer, main, attempt, advances,
                   faults>>

\* Mutant: request_read does not wait.
request_readAtOnce(c) ==
    /\ cpc[c] = "found"
    /\ cpc' = [cpc EXCEPT ![c] = "reading"]
    /\ UNCHANGED <<file, transform, request, writer, main, cblock, cexpect,
                   csince, attempt, advances, faults>>

\* request_read returns once no write is going on.
request_read(c) ==
    /\ cpc[c] = "found"
    /\ ~writing_active
    /\ cpc' = [cpc EXCEPT ![c] = "reading"]
    /\ UNCHANGED <<file, transform, request, writer, main, cblock, cexpect,
                   csince, attempt, advances, faults>>

\* The read of the file is over; the bytes were read at any time between
\* request_read and now.
ReadDone(c) ==
    /\ cpc[c] = "reading"
    /\ cpc' = [cpc EXCEPT ![c] = "idle"]
    /\ cblock' = [cblock EXCEPT ![c] = 0]
    /\ cexpect' = [cexpect EXCEPT ![c] = 0]
    /\ csince' = [csince EXCEPT ![c] = 0]
    /\ UNCHANGED <<file, transform, request, writer, main, attempt, advances,
                   faults>>

-----------------------------------------------------------------------------
(* Shutdown and crashes. *)

stop_writer_thread ==
    /\ mpc = "up"
    /\ stops < MaxStops
    /\ stops' = stops + 1
    /\ writer_running' = FALSE
    /\ mpc' = "stopping"
    /\ UNCHANGED <<file, transform, request, writer, clients, attempt,
                   advances, errors, crashes>>

\* interrupt_reader: from now on get_read_block returns NULL.
InterruptReader ==
    /\ mpc = "stopping"
    /\ mpc' = "interrupted"
    /\ UNCHANGED <<file, transform, request, writer, writer_running, clients,
                   attempt, advances, faults>>

\* Both threads joined, close_disk.
Terminated ==
    /\ mpc = "interrupted"
    /\ tpc = "exited" /\ wpc = "exited"
    /\ mpc' = "down"
    /\ UNCHANGED <<file, transform, request, writer, writer_running, clients,
                   attempt, advances, faults>>

\* The process is started again on the archive it left.
Restart ==
    /\ tpc' = "check" /\ current_buffer' = 0
    /\ content' = NoData /\ offset' = 0
    /\ writing_active' = FALSE /\ writing_offset' = 0 /\ writing_block' = 0
    /\ wpc' = "loop" /\ wok' = TRUE
    /\ mpc' = "up" /\ writer_running' = TRUE
    /\ cpc' = AtRest /\ cblock' = Nothing /\ cexpect' = Nothing
    /\ csince' = Nothing
    /\ attempt' = attempt + 1
    /\ UNCHANGED <<file, advances>>

StartAgain ==
    /\ mpc = "down"
    /\ Restart
    /\ UNCHANGED faults

Crash ==
    /\ crashes < MaxCrashes
    /\ crashes' = crashes + 1
    /\ Restart
    /\ UNCHANGED <<errors, stops>>

-----------------------------------------------------------------------------
TransformNext ==
    TransformLoop \/ get_read_block \/ ProcessMinor \/ ProcessGap
    \/ write_major_block \/ advance_index
WriterNext ==
    WriterLoop \/ WriterWoken \/ WriterTest \/ WriteDone \/ WriteError
    \/ WriterClear
MainNext == InterruptReader \/ Terminated
ClientNext(c) == LookUp(c) \/ request_read(c) \/ ReadDone(c)

Next ==
    \/ TransformNext
    \/ WriterNext
    \/ MainNext
    \/ stop_writer_thread
    \/ StartAgain
    \/ Crash
    \/ \E c \in Clients : ClientNext(c)

Spec == Init /\ [][Next]_vars

\* Threads that are not blocked run, get_read_block returns within its
\* timeout, and a client goes on with a read it has begun.  Nothing forces a
\* shutdown or a read to begin.
FairSpec ==
    /\ Spec
    /\ WF_vars(TransformNext) /\ WF_vars(WriterNext) /\ WF_vars(MainNext)
    /\ \A c \in Clients : WF_vars(request_read(c)) /\ WF_vars(ReadDone(c))

-----------------------------------------------------------------------------
(* Properties. *)

TypeOK ==
    /\ current_major_block \in Blocks
    /\ index \in [Blocks -> Nat]
    /\ id_zero \in [Blocks -> Nat]
    /\ disk \in [Blocks -> [1 .. MinorBlocks -> Nat \cup {Torn}]]
    /\ tpc \in {"check", "get", "block", "null", "locked", "scheduled",
               "exited"}
    /\ current_buffer \in Buffers
    /\ content \in [Buffers -> [1 .. MinorBlocks -> Nat]]
    /\ offset \in 0 .. MinorBlocks
    /\ writing_active \in BOOLEAN
    /\ writing_offset \in Blocks
    /\ writing_block \in Buffers
    /\ wpc \in {"loop", "wait", "test", "write", "clear", "exited"}
    /\ wok \in BOOLEAN
    /\ mpc \in {"up", "stopping", "interrupted", "down"}
    /\ writer_running \in BOOLEAN
    /\ cpc \in [Clients -> {"idle", "found", "reading"}]
    /\ cblock \in [Clients -> Blocks]
    /\ cexpect \in [Clients -> Nat]
    /\ csince \in [Clients -> Nat]
    /\ attempt \in Nat \ {0} /\ advances \in Nat
    /\ errors \in Nat /\ crashes \in Nat /\ stops \in Nat

\* The file holds what the index entry of the block promises.
OnDisk(b) == disk[b] = Whole(index[b]) /\ id_zero[b] = index[b]

\* The block is on its way: the request names it and its buffer is intact.
Pending(b) ==
    /\ writing_active
    /\ writing_offset = b
    /\ content[writing_block] = Whole(index[b])
    /\ id_zero[b] = index[b]

Lost == {b \in Blocks \ {current_major_block} :
            index[b] # 0 /\ ~OnDisk(b) /\ ~Pending(b)}

\* transform.c: "All major blocks other than current_major_block are valid
\* for reading from disk ... The request_read() function ensures that the
\* previously current block is written".  It holds as long as the process is
\* neither killed nor stopped nor refused by the disk.
BlocksReadable == errors + crashes + stops = 0 => Lost = {}

\* A write error, a crash and a shutdown each cost the archive at most one
\* block that its index says it has.
LossBounded == Cardinality(Lost) <= errors + crashes + stops

\* INDEX_SKIP: a client that reads a block before IndexSkip + 1 more have been
\* completed reads the data the index promised when it looked it up, however
\* the writer and the transform thread are interleaved with it.
ReadsAreFresh ==
    \A c \in Clients :
        /\ cpc[c] = "reading"
        /\ advances - csince[c] <= IndexSkip
        /\ errors + crashes + stops = 0
        => disk[cblock[c]] = Whole(cexpect[c])

\* disk_writer.h, "Orderly shutdown of the disk writer": it completes,
\* whatever the transform and writer threads are doing when it is called.
ShutdownCompletes == mpc = "stopping" ~> mpc = "down"

\* The writer thread has gone and left a request behind it, and the transform
\* thread waits in schedule_write for its completion.
LeftBehind == wpc = "exited" /\ tpc = "locked" /\ writing_active

\* Nothing else can keep terminate_disk_writer from returning: the broadcast
\* of stop_writer_thread and interrupt_reader get both threads out of every
\* other wait.  A crash can forestall it, and the process is up again.
ShutdownCompletesOrLeftBehind ==
    mpc = "stopping" ~> (mpc \in {"down", "up"} \/ LeftBehind)

\* disk_writer.h, request_read "blocks while an outstanding write is in
\* progress": a client does not block for ever.
ReadsProceed == \A c \in Clients : cpc[c] = "found" ~> cpc[c] # "found"

=============================================================================
