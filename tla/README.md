# TLA+ specifications of the FA archiver

The fast acquisition archiver (`src/src`, in C) captures frames of beam
positions from the electron orbit feedback network at 10 kHz, keeps the last few
days of them in a ring of *major blocks* on disk, and serves both the live
stream and the archive over a socket; `fa-capture` is its client.  This
directory holds TLA+ modules for the parts of it where threads, processes,
unlocked reads, ring arithmetic and failures meet, TLC models of them, and
proofs about most of their safety properties.

Paths below are relative to `src/src`.

## The system

```
 sniffer device / replay / UDP            clients: fa-capture and others
        |                                    |        |  request line, mask
   sniffer thread                         client threads (socket_server.c)
        |                                 subscribe   reader ---- pool
        |  get/release_write_block           |        |  index lookups (transform_lock)
        v                                    |        |  request_read
   fa_block_buffer  (buffer.c)  -------------+        v
        |           \---- decimation thread --> decimated buffer --> subscribe
        | reserved reader                             |
   transform thread (transform.c, disk_writer.c)      |
        |  schedule_write          header, index (mmap)
        v                                             |
   writer thread (disk_writer.c) ----------------> archive file <-- fa-prepare
```

`archiver.c` brings all of it up and down.

| Component | State | Operations | Hard part |
|---|---|---|---|
| Frame buffer `buffer.c`, `locking.c` | ring of blocks, `index_in`, `cycle_count`, gap marks, one `reader_state` per reader | `get/release_write_block`, `open/close/interrupt_reader`, `get/release_read_block`, `enable_buffer_write` | blocks are filled and read with no lock; overrun detected after the fact; wakeups; one reserved reader |
| Transform thread `transform.c` | two major block buffers, offsets, accumulators of the second decimation, index entry in progress | `process_block`, `write_major_block`, `advance_index`, gap reset | double buffering against the writer thread; index valid before the data is on disk; three offsets kept apart; timestamp fit |
| Writer thread `disk_writer.c` | `writing_active`, request, `writer_running` | `schedule_write`, `request_read`, `writer_thread`, start and terminate | condition waits, shutdown, write errors |
| Index `transform.c`, `disk.c` | header and index pages, shared with `mmap` | `binary_search`, `timestamp_to_start/end`, `find_gap` | ring bisection with an empty part; read without the lock after the lookup |
| Archive reader `reader.c` | one request per client thread | range lookup, contiguity check, block by block transfer, lines of entries | archive moves on during a request; columns of the archive against the ids asked for |
| Buffer pool `pool.c` | free list, delayed buffers | `lock_buffers`, `unlock_buffers`, `write_buffer` | allocation in several steps with a refusal at each; estimate of the buffers needed |
| Decimation `decimate.c` | CIC and compensation filters, output block | `decimate_block`, `advance_write_block`, gaps | nothing is reset at a gap; accumulators that overflow |
| Subscription `subscribe.c` | reader, id mask, decimation choice | header, stream of blocks | header sent before the first block is known to be good |
| Socket server `socket_server.c`, `error.c` | list of clients, threads, a stack of messages per thread | accept, dispatch, report, shutdown | every command can fail at every step; client threads outlive the shutdown |
| Main program `archiver.c` | pid file, threads, semaphore | initialise, start, run, terminate | order; failure half way; being killed |
| Archive file `disk.c`, `prepare.c` | header, index, lock | `fa-prepare`, `initialise_header`, `validate_header`, `lock_archive` | two processes; 32-bit arithmetic |
| Capture client `capture.c`, `matlab.c`, `mask.c`, `parse.c` | output file, timestamps, counters | request, reading of the stream, header | must know from its own options what comes next; end of stream inside a block |
| Sniffer, replay, gigabit | device, retry state | capture loop | device errors, lost UDP frames |

The threads share `fa_block_buffer` (its own lock), the header and index
(`transform_lock`, but only for lookups and updates: a request reads them
without it afterwards), the write request (`writer_lock`) and the pool
(`buffer_lock`); the processes share the archive file (`flock`) and the pid file.

What makes each part correct: the buffer delivers frames in order, reports
every break, never passes on overwritten bytes and never drops a frame of the
reserved reader; the archive never calls a block valid whose data is elsewhere,
and shuts down; samples and decimations are where a reader computes them to be;
a lookup finds the right block; a request sends what was asked, from blocks
that still hold it; the pool loses nothing; decimated rows are those of the
documented filter; a command gives back what it took and answers once; the
archive is mapped as long as it is used; the client labels its data rightly.
`PROJECT.json` lists, line by line, the hazards the properties are aimed at, and
the few no property covers, with the reason.

## Modules

| Module | Models | Correspondence |
|---|---|---|
| `Buffer` | `buffer.c`, `locking.c` | one action per critical section; filling a block (`get_write_block`/`StartRelease`), reading it (`ReadBytes`) and the half of `release_read_block` after the unlock (`Release`) are actions of their own. A frame is the number of the attempt that made it; `data[slot]` is the set of frames its bytes come from. `last`, `cont`, `stored` are history variables |
| `FrameStream` | what `buffer.h` promises | no ring, indexes or locks: stored frames, delivered in order, breaks announced, to a reader opened during a gap as well |
| `Archive` | `disk_writer.c`, and `process_block`, `write_major_block`, `advance_index`, lookups of `transform.c`, `read_fa_block` of `reader.c` | transform thread (`tpc`), writer thread (`wpc`), main thread (`mpc`), clients (`cpc`). The section of `process_block` under `transform_lock` is `tpc` in `locked`, `scheduled`, and lookups wait for it. A crash or restart keeps `current_major_block, index, id_zero, disk` and resets the rest |
| `Layout` | `initialise_header`, `validate_header` and the offsets of `disk.c`, `disk.h`, `transform.c` | operators only; 32-bit values are reduced modulo `Word` where the C types do |
| `Transform` | the data `process_block` moves | extends `Layout`. A sample is its id and frame number; a decimated value is the set of samples it summarises. Every cell is written and read through the addresses the code computes, and the timestamp fit is done as in `advance_index` |
| `ArchiveIndex` | index and `binary_search` of `transform.c` | the index after any number of blocks; the search as a recursive function |
| `ReadRequest` | `read_data` of `reader.c` and the lookups it makes | extends `ArchiveIndex`: the archive advances between any two steps of a request |
| `BufferPool` | `pool.c`, and the allocation order of `reader.c` | one action per `lock_buffers`/`unlock_buffers`; delayed buffers are filled item by item |
| `Filter` | CIC and compensation filter of `decimate.c` | one position of one id; accumulators and combs of `Width` bits that wrap; `Response` is the impulse response of the documented filter, by convolution |
| `Decimation` | the rest of `decimate.c` | extends `Filter`; one action per input sample (`decimate_sample`). The events of a row are the set of samples since the row before; `block_out`, `out_pointer` and the counters are the code's |
| `Subscribe` | `subscribe.c` | one client; `spc` follows `process_subscribe` and the loop of `send_subscription` |
| `Pipeline` | the threads around the two buffers | composes `Decimation`, `Subscribe` and the sniffer thread (one action) with two instances of `FrameStream`, for the frame buffer and the decimated one |
| `ArchiveFile` | `prepare.c`, `lock_archive`, and opening, mapping and closing by the archiver | `ppc` is fa-prepare, `dpc` the archiver's descriptor; each system call on the file is a step, and any can fail |
| `Server` | `socket_server.c`, `error.c` | `cpc` follows a client thread through `process_connection`, `dispatch_command` and the handlers; `error_stack`, `held` and `answer` are what it has to keep in order |
| `Archiver` | `archiver.c` | composes `ArchiveFile` and `Server` with the main thread `mpc`; the other threads run or do not, and of what they do only `writing_active` is kept, for which clients wait |
| `Lines` | columns of a line: `mask_to_archive` and `write_lines` of `reader.c`, `copy_frame` of `subscribe.c`, dimensions and ids of `capture.c`, `matlab.c`, and what `replay.c` reads back | operators only; an entry is its field and id |
| `Capture` | `capture.c`, `mask.c`, and the parsing of requests by `reader.c`, `subscribe.c` | extends `Lines`; command line, request, stream and output of one run of `fa-capture` |
| `BufferInv`, `ArchiveInv` | - | inductive invariants, also checked by TLC |
| `*Proofs` | - | theorems, see below |
| `MC*` | - | constants for TLC |

The modules rest on each other where a detailed model of everything at once
would be out of reach.  `ReadRequest` relies on `Archive` in one place: a read of
a non-current block gives the data the index promised (`ReadsAreFresh`,
proved).  `Pipeline` uses `FrameStream` in place of `Buffer`, which
implements it (`Refinement`, proved): a reader may hold any stored block later
than its last one, and learns when it releases it whether that was the right
one.  `Transform` writes a block to disk at once, which `Archive` shows to be
what readers see.  `Archiver` takes threads as running or not, and `Archive` has
what their termination does to the data, and which of their waits end.

Some operators are marked *Mutant*: each is a plausible mistake in the
definition that follows it, and replacing that definition by it makes TLC report
the property named in `PROJECT.json`.  No specification uses them.

## Runs

Deadlock is checked in `BufferReaders`.  Elsewhere the bounds (a last block, a
last request, a last start) or the shutdown leave nothing to do.

| Run | Bounds | Shows |
|---|---|---|
| `BufferReaders` | 2 readers (1 reserved), 2 blocks, 4 frames | all safety promises of `buffer.h`, the inductive invariant, that `Buffer` implements `FrameStream`, and that an interrupted reader leaves its wait by the broadcast alone. Four frames go twice round the ring, which is a lap beyond the one the cycle count must detect |
| `ArchiveThreads` | 4 major blocks of 2 minor blocks, `INDEX_SKIP` 1, 5 attempts, 1 client, one write error, one crash, one shutdown | `BlocksReadable`, `ReadsAreFresh`, `LossBounded`, and that shutdown returns unless the writer left a request behind. Each kind of fault is enough to expose its effect and they combine in any order; the proofs cover the longer runs |
| `ReadArchive` | 5 blocks of 2 samples, 6 completed, `INDEX_SKIP` 1, gaps, overlaps and silent losses | requests with the archive moving under them, and every lookup they make against the comment of `binary_search`, with the index empty, partly filled and wrapped |
| `Pool` | 2 clients, 7 buffers of 4 words, up to 4 samples | the pool, its refusals and the delayed buffers. One request needs up to 7 buffers, so two always compete |
| `Pipeline` | decimation by 2 and 2, combs of delay 1 and 2, 9-bit accumulators, 2 rows to a block, 5 samples in an input block, 6 attempts, 2 gaps seen by the decimation thread | rows are the convolution, decimated blocks in sequence and the stream of a client are seamless. Five samples to a block against four to a row shift every boundary against every other; two gaps meet in one output block; the accumulators overflow within a few samples; the filters are longer than a block, so that a gap late in one is still felt in the next, and forgotten within the bound |
| `Transform` | 3 layouts, of which two wrap in 32 bits, 3 captures, 3 major blocks, 10 input blocks, 2 gaps, 1 restart, timestamps off by up to 1 in 20 | samples and both decimations are where a reader looks for them, and gaps show in the fitted timestamps. Ten input blocks pass the end of the ring. `Word` is so small that the product of the number of blocks and their size wraps |
| `Archiver` | 2 sizes of file, 2 preparations, 2 starts, 1 client slot | start, shutdown, failure and kill against `fa-prepare`, and a client thread through every command with every failure. Client threads share nothing but the list, so one slot that is used again stands for any number; the proofs do not need this |
| `Capture` | 32 ids of which 30 archived, 7 masks, 3 sets of fields, blocks of 2 samples, 3 lines to a buffer, 5 samples, a count of 2 bits, lines of up to 58 characters with times of 20 | the server understands every request that fits, lines are what the ids in the file say, the client stays in step, and the file is what its header says, wherever the stream ends. Four and five samples are more than the count can hold. A subscription with any mask fits the line, a read with its times does not with the longer ones: among 7 masks, sources and options there are both |

Bounds that are not constants of the code (`MaxFrames`, `MaxAttempts`,
`MaxErrors`, `MaxCrashes`, `MaxStops`, `MaxBlocks`, `MaxSamples`, `MaxRequests`,
`MaxNulls`, `MaxInputs`, `MaxGaps`, `MaxRestarts`, `MaxPreparations`,
`MaxStarts`, `MaxLetters`, `MaxData`, `MaxLost`) are guards of the actions they
bound.  `Pipeline` is not followed beyond the first overrun of the decimation
thread (`spoiled`): nothing is claimed of decimated data from then on.
`INDEX_SKIP` is 2 in the code; 1 makes the smallest rings in which slack exists
and is used up within the bound.  `Fitting` and `ProperCaptures` in
`MCTransform` leave out the layouts named under the disagreements.

### Disagreements between code and documentation

Four runs end in a counterexample.  Each checks something that a comment or the
manual says.

* `ArchiveShutdownHangs`: the writer thread is done with a block, and has
  cleared `writing_active`, but is not yet back at its loop condition
  (`disk_writer.c:155`).  The transform thread schedules the next block, passes
  its own test of `writer_running` and gathers the last input block of the one
  after.  `stop_writer_thread` comes now: the writer leaves with the request
  pending, the transform thread waits in `schedule_write` for ever (the wait does
  not look at `writer_running`), and `terminate_disk_writer` does not return.
  `ShutdownCompletesOrLeftBehind` shows that nothing else can hold it up.
* `ArchiveWriteError`: a write error ends the writer thread only.  The next
  request stays active, and clients in `request_read` block for ever, since
  neither this wait nor that for `transform_lock`, which the transform thread
  holds in `schedule_write`, has a timeout.
* `ReadRaced`: start and end of a range are looked up in two critical sections.
  If a block is completed in between and the start is among the oldest blocks,
  samples after the end are sent.
* `ReadAllData`: with all-data requests, start and end in one gap between
  the last and the first block of the ring pass the wraparound test of
  `timestamp_to_end`, and everything up to the present is sent.

More have no run of their own.  In the archive:

* A block scheduled while the writer thread stops is never written although the
  index calls it valid: this is the `stops` term in `LossBounded`.
* With `INDEX_SKIP + 1` major blocks, which `validate_header` accepts
  (`disk.c:316`), `binary_search` starts at the current block. `Archive` assumes
  more blocks (`ArchiveAssumption`); `ArchiveIndex` does not.
* In an empty archive `binary_search` returns the current block, "recognised by
  comparing the result with current" (`transform.c:685`), but
  `timestamp_to_block` steps past it as past a gap: the request is granted
  blocks that were never written.  `ReadRequest` has the behaviour; its
  properties begin with the first block completed (`Kept`).  `transform.c:711`
  disclaims the case.
* An input block that is as long as a major block makes `sum_t2` 0 and
  `advance_index` divide by it; one shorter than the first decimation or longer
  than both breaks the offsets of the decimated data.  `validate_header`
  excludes none of these, the defaults are far from them.
* An events id that is not archived, with an archived id below it, is mapped
  to that id's column (`input_id_to_output`): its doubly decimated data is
  combined by "or".  `transform.c:539-540` says "Returns -1 if no entry found".
* `initialise_header` reduces the number of blocks in a loop that is "only going
  to happen once at most" (`disk.c:135-136`); with areas of 4 GiB and more the
  32-bit products wrap and the result no longer fits.
* `id0` of a basic timestamp header is not multiplied by the decimation
  (`reader.c:294`), unlike that of the blocks.

In the live stream:

* The decimation thread ignores what `release_read_block` returns
  (`decimate.c:378`): after an overrun, decimated blocks contain overwritten
  samples or skip some, unmarked (`spoiled`).
* A gap discards "the data" of the block being written according to
  `buffer.h:77`, but for the decimated buffer the rows before the gap stay in
  the block, and one row keeps what an earlier lap left there.  The block is the
  one marked with the gap, and `DecimatedGapsAreMarked` shows that no other has
  rows whose samples are incomplete.  The values of rows are another matter:
  the accumulators, combs and the FIR buffer are not reset ("we ought to reset
  all the filters", `decimate.c:327`), so rows of the marked block and of blocks
  after it, which are not marked, are computed from samples of both sides of the
  gap, until `filter_length` samples have come.  That they are not for longer is
  the last conjunct of the property (`Forgets`).
* The integrators overflow in signed arithmetic, which C leaves undefined; the
  model has the wrap of the build, which the filter relies on.
* `gigabit.c` ignores the counter of the frames: lost or reordered datagrams
  do not become gaps.

In the processes and the server:

* The pool has `fa_entry_count` buffers, but a request for all ids needs one
  more for its output (`reader.c:828-832` and `reader.c:502`): `Needed` exceeds
  the pool in `RefusedOnlyWhenBusy`.
* `fa-prepare -s` opens with `O_TRUNC` before it asks for the lock
  (`prepare.c:435-442`): the archive of a running archiver is destroyed although
  the lock is refused (`truncated`).  One that ends between header and index
  leaves an old index under a new header (`torn`).
* A start that fails after `maybe_daemonise` leaves the pid file, and the next
  start is refused (`archiver.c:321-325`, `abandoned`).  So does a shutdown that
  cannot remove it, which is only logged (`archiver.c:369`).
* `read_line` has room for 254 characters and a newline (`socket_server.c:97`,
  `socket_server.c:519-544`), "Read buffer exhausted".  With the default of 256
  ids, and with 512, every request of `fa-capture` fits: the mask has 129
  characters at most, all the rest 57.  With 1024 ids, which the protocol allows
  (`fa_sniffer.h:37`), a raw mask alone has 257, and many a mask that is
  written as ranges leaves no room for the times: such requests are refused
  (`RequestFits`).
* An error of `accept` ends the server for good (`socket_server.c:610`), and a
  failure to create the thread leaks the connection (`lost`).
* Client threads are detached and go on using header and index after
  `terminate_disk_writer` has unmapped them (`socket_server.c:659-663`):
  `ArchiveOutlivesThreads` is about the disk threads only.

In the client:

* `fa-capture` checks the number of samples for "Too many samples for matlab
  format capture" only when a count is given; a range or a continuous capture of
  2^32 samples and more writes a wrong count (`OutputIsAsReported` excludes it),
  and the footer has times for as many samples as that count says
  (`capture.c:979`, `FramesAreStamped`).
* A historical capture that is cut short ends in an error for raw files and in
  success, with a corrected header, for matlab files.
* `write_timestamps` reads `timestamps_array[0]` even when no timestamp came
  (`capture.c:907`).
* The check of the server's version, `major > ... || minor >= ...`, accepts an
  older major version; `read_response` does not notice a full buffer.
* `-fd3 -fF` asks for FA data but keeps the fields of the decimated data for the
  length of a line.
* `matlab.c` writes `ids` as 16-bit integers and `replay.c` accepts only 8-bit
  ones ("Bad datatype for ids"); a decimated capture with one id squeezed out has
  its fields taken for ids; matrix names are compared as prefixes.

## Fairness

* `Buffer`: weak fairness of the writer's three steps and of a reader that was
  signalled (`Wake`).  The code runs on normal threads that block only where
  the guards say.  There is no fairness on `Timeout`: the property is that the
  2 s timeout is not needed.
* `Archive`: weak fairness of each of the transform, writer and main threads
  and of a client's read once begun.  The transform thread always gets out of
  `get_read_block`, by a block or by its timeout.  Nothing forces a shutdown, a
  crash, an error or a new read.  The mutex `transform_lock` is not assumed fair:
  a client never begins a lookup under fairness.
* `Archiver`: weak fairness of a client thread's own steps (`ClientSteps`), which
  include the failure of a read or write by the timeouts of 1 s and 10 s that
  `set_socket_timeout` sets, but not the arrival of a command.  The code gives no
  such guarantee where a thread waits for the archive: `request_read`
  (`disk_writer.c:195-201`) waits for the write under way, and a lookup for
  `transform_lock`, which `process_block` holds across `schedule_write`
  (`transform.c:897-900`); neither has a timeout, and after a write error neither
  ends (`ArchiveWriteError`).  So a thread in a part of a command that may wait
  there (`NeedsArchive`) has fairness only while no write is pending, and there is
  none on `schedule_write` and `write_ends`.  A wait may be over although the
  next write is pending already, so the assumption is weaker than the code
  justifies.  Under it every client thread ends (`ClientThreadsEnd`), except a
  subscription, which goes on for as long as its client takes the data, and a
  thread that finds a write pending for ever or again and again.
* The other modules state safety only.

## Proofs

`tlapm` checks all of these.  They assume of the constants what the `ASSUME` of
each module says, and the six hypotheses that are named below.

`BufferProofs`, for any number of readers, any ring of at least two blocks and
any number of frames:

* `Invariance`: `Spec => []IInv`.  `CleanRelease` is not inductive: it speaks of
  the moment after the snapshot, while what makes it true is what the ring
  held when the block was obtained.  `IInv` adds that published blocks are
  whole (`BlocksWhole`), that going round the ring frames increase with a gap
  mark wherever one is missing (`FramesInOrder`), and what a reader at rest,
  holding a block, or after its snapshot knows as long as the writer is *within*
  one lap of it, or exactly *at* the lap and overwriting its block.
* `TypeCorrect`, `ReleaseIsHonest`, `ReservedIsSafe`, `WakeupsArrive`,
  `UnderflowIsExact`: the properties, from `IInv`.
* `Refinement`: `Spec => ImplementsFrameStream`, one step of `FrameStream` or a
  stutter for each action.

`ArchiveProofs`, for any number of clients, blocks, minor blocks and faults, with
`MajorBlocks > IndexSkip + 1`:

* `Invariance`: `OffsetInBlock` and `LossInv` always, and, as long as no fault
  occurred, `DataInv`: the request pending is the block last completed, in the
  other buffer; every valid block is on disk or is that request; a client's block
  stays out of the writer's reach for `IndexSkip` blocks.
* `TypeCorrect`, `ArchiveIsReadable`, `ReadsAreSafe` follow.
* `LossIsBounded`: what a fault costs may be lost only several steps later, so
  `LossInv` keeps accounts.  `GivenUp` are the blocks whose data is neither on
  disk nor on its way, and the current one where `advance_index` is about to
  make it such.  `Owed` says that these, a failed write whose request is not
  cleared yet, and a shutdown under way are together no more than the faults.
  It breaks when a writer that is told to stop sees no request and leaves; from
  then on `LastLook` holds, by which the transform thread can schedule one block
  more and no other, and the shutdown pays for that one.

`PoolProofs`, for any number of clients and buffers and requests of any size:

* `Invariance`: the free list and each list of a client are injective and
  disjoint from every other (`Whole`), and the lists a request has not taken
  yet, or has given back, are empty (`Progress`).  Without the latter
  `lock_buffers` might overwrite a list.
* `PoolStaysWhole`, `NothingIsLeaked` follow.

Two invariants are added to it:

* `EstimateSuffices`: `DelayedInv` says that the room left in each delayed buffer,
  of this and the buffers after it, is that for a number of items whose blocks
  reach to the end of what is still to be read (`Covers`); a write uses up one
  item and one block.  That items never straddle two buffers needs
  the sizes to divide each other (`WellFilled`).
* `RefusalIsJustified`: a request that is taking buffers has all it asked for of
  the kinds taken (`TakenInv`), and if nobody else holds any, those and the
  free ones are the whole pool (`NoneElsewhere`, by cardinality).

`PipelineProofs`, for all decimation factors, sizes of blocks, filters and
numbers of frames:

* `CountersAgree`: `CountInv` relates the counters to the events accumulated and
  the next sample to the streams.
* `GapsAreMarked`: `MarkInv` says how far the rows of the block being filled are
  seamless (`SeamlessTo`), from which block they go on (`Continues`), and that
  each block stored is `Marked` if the one before it is there.  A gap moves
  `out_pointer` on, and with it the part of the block that may be claimed.  For
  the filters, `RowsAreFiltered` gives each value as a convolution of all samples
  taken; only the last `filter_length` of them have weight (`ConvolvedLast`), and
  if those samples were all taken they are the last ones (`LastSamples`), since
  samples are taken in ascending order.  `MemoryInv` keeps this for the
  rows written, which stay as they were while more samples are taken (`Settled`).
* `ClientIsSentAll`: `ClientInv` says that what was sent are consecutive stored
  blocks and where the reader of the client stands (`InStep`).
* `RowsFiltered`: every row is the convolution of the samples with the documented
  response.  The operators first: sums, products and cascades are unfolded
  by well-founded recursion; the product of two responses is the one filter after
  the other (`ConvTimes`), and a comb after an integrator a sum over the last samples
  (`ConvBoxcar`).  So if signals over all integers satisfy the equations of
  integrators and combs without a width (`Passes`), the last comb has the
  samples convolved with the boxcars (`CascadeConv`).  Such signals exist for
  every input that starts at rest (`PassesExist`), which the integrators cannot
  be without.  `FilterInv` then says that the accumulators are those signals
  wrapped, and the histories and the FIR buffer their last values
  wrapped, rotated by their indexes (`DelayLine`).  A step keeps it, since wrapping
  once or at every addition is the same (`WrapAdds`); and what leaves the combs is
  not changed by wrapping, as it is a sum with positive weights that add up to
  `CicGain` (`CombsFit`).  `RowsInv` says that the rows of both blocks are filtered
  and that their events are older than the next sample.  `FilterInv` speaks of
  functions on all integers, so TLC cannot evaluate it: it checks `RowsAreFiltered`.

`ArchiverProofs`, for any sizes, numbers of clients, starts, preparations and
pieces of data:

* `Invariance`: `FileInv` (who is past `lock_archive`, and whether the index is
  the header's), `ServerInv` (stack height, resources and answer of a thread at
  each point of it) and `MainInv` (what is mapped and running at each point of
  `main`).
* `TypeCorrect`, `MappedArchiveIsConsistent`, `ThreadsHaveArchive`,
  `PidFileIsHonest`, `StacksAreBalanced`, `EverythingIsReleased`,
  `AnswersAreUnmixed` follow.

`RequestProofs`, for rings, blocks, gaps and decimations of any size:

* `IndexInvariance`: the ring holds the last `MajorBlocks` blocks completed, each
  at its place, with timestamps that grow.
* `LookupIsCorrect`: the bisection ends, by induction over the length of what is
  left to search, and its result is the block that the comment of
  `binary_search` promises (`Found`).
* `ReadInvariance`: `ReadInv`.  A request counts in ring positions while the
  archive moves under it, so `PosInv` gives the block it has come to its number
  in the history (`At`), and says that it stays below the block that was current
  at the lookup.  What a request relies on is claimed only of blocks not
  overwritten since (`Fresh`): `StampInv` for the stamp already sent, `StartInv`
  for the first sample, and `GapInv` for what `find_gap` has passed (`FindInv`),
  what is still to be sent (`RunInv`) and where it joins what was sent
  (`JoinInv`).
* `StampsAreRight`, `StartIsSent`, `RunIsContiguous` follow, and `EndIsKept` with
  an invariant of its own, `EndInv`.

All but the first assume `SkipLeavesBlocks` (`IndexSkip + 1 < MajorBlocks`), without
which nothing but the current block is left to search (see the disagreements).
`EndIsKept` assumes besides that no request has the all-data option, with which
the property is false (`ReadAllData`), and `SmallOverlaps`: timestamps of
adjacent blocks overlap by at most one sample of the decimation asked for.

`CaptureProofs`, for any number of ids, masks, command lines, blocks, buffers and
lengths of the stream:

* `CaptureInvariance`: `CaptureInv`.  `ReadsStayInStep` needs to know where in a
  block the stream is for the server and that the client's two counters say the
  same (`PlaceInv`), which the number of timestamps (`TimestampsInv`) and of samples
  (`FramesInv`, `CountInv`) follow.
* `RequestsAreUnderstood`: `format_raw_mask`, `format_mask` and the letters of
  the options are read back by the server as what they were made from.  Its
  proof showed that an earlier form of `RangeEnd` could take the end of another
  range, which the masks checked by TLC had not; there are more of them now.  It
  speaks of the requests that fit the server's line.
* `InStep`, `TimesAreRight`, `HeaderIsRight` follow.
* `LinesAreRight`: `ArchivedInv` adds that historical data is only sent of ids
  that are archived.  The rest is about operators: `Bits` lists the ids of a mask
  in order, so that a place in the list is a `Rank`, the number of smaller
  ids in it (`BitsAreListed`, `ColumnIsId`); `mask_to_archive` and `ArchiveLine`
  go through ranks among the archived ids and come back to the ids
  (`ArchivedIds`); a line that `FlattenSeq` puts together from pieces of one
  length has entry `(k - 1) * w + j` from piece `k` (`FlattenUniform`), and `DimsOfFA`
  relates that to the dimensions of the client.

`TransformProofs`, for all layouts, ids, captures, numbers of gaps and restarts:

* `TransformInvariance`: `IInv` says that the header is one that
  `initialise_header` makes and `validate_header` accepts (`PreparedInv`), that
  the buffers and index entries have the header's shape (`ShapeInv`), and that
  the buffer being filled has every sample gathered so far at its address
  (`GatherInv`).  Below it are the facts about the addresses: a sample, a
  decimated sample and an index entry each have an address of their own, within
  their area; the columns are numbered by the ids in order; the loop of
  `initialise_header` ends with a number of blocks that fit.
* `SamplesInPlace` follows.
* `DecimatedInPlace`: `DecimationInv` adds that the three offsets go together
  (`OffsetsInv`), that the accumulators have the samples since the last complete
  group (`AccumulatorsInv`), and where the groups so far are (`DGatherInv`,
  `DDGatherInv`).  It assumes `InputsFit` and `EventsFit`, which leave out exactly
  the layouts and the ids of events for which the property is false: see the
  disagreements.
* `GapsFound`: `TimesInv` says that the timestamps gathered are those of
  consecutive input blocks (`StampsInv`) and that each valid index entry is the
  fit of such (`EntryFits`).  If timestamps are off by 0 to `J`, sums of them
  by induction show that the fitted start of a block is off by no more than
  `(5J + 2) / 2`, its duration by `3J`, rounding included
  (`SlopeIsNear`, `MeanIsNear`, `FittedIsNear`), so that `delta` differs by at
  most `7J + 2` from the time of the frames lost.  `JitterFits` assumes that
  this is within `MaxDelta`, and the time of an input block beyond both
  together.  It also assumes two input blocks to a major block at least: with one
  `advance_index` divides by zero (see the disagreements).

Model-checked only: liveness (`InterruptEndsWait`,
`ShutdownCompletesOrLeftBehind`, `ClientThreadsEnd`), which the prover does not
handle.  Every invariant and every action property of the runs that pass is a
theorem, under the hypotheses named.

## Abstractions

* The doubles of the compensation filter are exact, which in the instance they
  would be: its gain is a power of two.  Its coefficients are integers, as those
  of a file become when multiplied by a power of two, which the gain undoes.  The
  code applies the coefficients oldest value first; the documented default is
  symmetric.
* The sniffer thread is one action: its device, with the reset after an error,
  is external.  It is cancelled only at cancellation points, none of which is
  inside the lock of the buffer, so it stops between two steps of `Buffer`'s
  writer, which the safety properties of `Buffer` allow at any moment.
* Timestamps are attempt numbers in `Buffer` and `Archive`, small integers with
  gaps and overlaps in `ArchiveIndex`, and in `Transform` those of the frames
  with an error.
* The bytes of a block are the set of frames (or attempts) they come from.
  A read or write of a block is not atomic: it may see any mixture.
* `advance_index` of `transform.c` is one step: it stores into mapped pages
  under `transform_lock`, and a process killed among its stores leaves an entry
  of the current block, which lookups ignore, or the finished step.
* Messages are a marker that there is one; data sent to a client is a number of
  pieces in `Server`, samples in `Capture`, blocks in `Subscribe`.
* Cycle counts do not overflow (at 10 kHz a 32-bit count of laps lasts for
  centuries).

## Not modelled

* Power failures, which lose mapped pages in any order, and a clock that is
  stepped back, which leaves the index unsorted: the program defends against
  neither.
* Reading of the configuration file, of numbers and of times (`parse.c`,
  `config_file.c`), the interactive commands and options of `archiver.c`, what
  the C and D commands print: sequential string handling.
* The container format of matlab files, and the reading of it by `replay.c`
  except for the shape of the data; the assembly of datagrams in `gigabit.c`.
* `fa-prepare -H`, `testgig.c`, the Python and Matlab clients, the design of
  filters: no state that others depend on.
* The device driver, which is not in the repository.

## Order of work

`Buffer`, `FrameStream`; `Archive`; `ArchiveIndex`, `ReadRequest`; `BufferPool`;
`Decimation`, `Subscribe`, `Pipeline`; `Layout`, `Transform`; `ArchiveFile`,
`Server`, `Archiver`; `Lines`, `Capture`; `Filter`; then the proofs.
