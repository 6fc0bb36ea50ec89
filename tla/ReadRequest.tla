----------------------------- MODULE ReadRequest -----------------------------
(***************************************************************************)
(* One read request (read_data in reader.c) against an archive that goes   *)
(* on growing: the start and the end of the range are looked up under      *)
(* transform_lock, each on its own; after that the request works without   *)
(* any lock on the index and the file, block by block.                     *)
(*                                                                         *)
(* Reading a block of the file gives the data the index promised for it as *)
(* long as it is not the current block (ReadsAreFresh of Archive); the     *)
(* current block may be half overwritten.  The data of a block is named by *)
(* its timestamp.                                                          *)
(***************************************************************************)
EXTENDS ArchiveIndex, Sequences

CONSTANTS
    DecimationLog2,  \* reader->decimation_log2
    Options,         \* the requests considered: [all_data, only_contiguous,
                     \* check_id0]
    Lengths,         \* bound: lengths of the ranges of time asked for
    MaxSamples       \* bound: number of samples asked for

ASSUME RequestAssumption ==
    /\ DecimationLog2 \in Nat /\ MaxSamples \in Nat
    /\ Lengths \subseteq Int
    /\ Options \subseteq [all_data : BOOLEAN, only_contiguous : BOOLEAN,
                         check_id0 : BOOLEAN]
    /\ 2 ^ DecimationLog2 \in Nat \ {0} /\ SampleCount % 2 ^ DecimationLog2 = 0

VARIABLES
    rpc,        \* where read_data is
    request,    \* struct read_parse
    block, offset, available, samples,
    probe, left,                \* find_gap: *start and *blocks
    expected, expected_id,      \* find_gap: timestamp and id_zero
    stamp,      \* the index data sent ahead of the block being read
    sent,       \* ghost: the pieces of blocks sent
    since,      \* ghost: blocks completed when the start was looked up
    raced       \* ghost: more had been when the end was looked up

locals == <<request, block, offset, available, samples>>
gapcheck == <<probe, left, expected, expected_id>>
output == <<stamp, sent, since, raced>>
vars == <<archive, rpc, locals, gapcheck, output>>

Torn == -1
Decimated(n) == n \div 2 ^ DecimationLog2
SamplesPerBlock == Decimated(SampleCount)

NoRequest == [start |-> 0, end |-> 0,
              options |-> [all_data |-> FALSE, only_contiguous |-> FALSE,
                           check_id0 |-> FALSE]]

\* The locals of a request that is not being served.
Idle ==
    /\ rpc' = "idle"
    /\ request' = NoRequest
    /\ block' = 0 /\ offset' = 0 /\ available' = 0 /\ samples' = 0
    /\ probe' = 0 /\ left' = 0 /\ expected' = 0 /\ expected_id' = 0
    /\ stamp' = 0 /\ sent' = <<>> /\ since' = 0 /\ raced' = FALSE

Init ==
    /\ InitIndex
    /\ rpc = "idle"
    /\ request = NoRequest
    /\ block = 0 /\ offset = 0 /\ available = 0 /\ samples = 0
    /\ probe = 0 /\ left = 0 /\ expected = 0 /\ expected_id = 0
    /\ stamp = 0 /\ sent = <<>> /\ since = 0 /\ raced = FALSE

-----------------------------------------------------------------------------
(* The lookups. *)

\* Mutant: skip_gap is not looked at.
FindBlockPastGap(t, skip_gap) ==
    LET b == binary_search(t) IN
    IF t >= index[b].timestamp + index[b].duration THEN NextBlock(b) ELSE b

\* timestamp_to_block, the block ...
FindBlock(t, skip_gap) ==
    LET b == binary_search(t) IN
    IF skip_gap /\ t >= index[b].timestamp + index[b].duration
    THEN NextBlock(b) ELSE b

\* ... and the offset into it.
FindOffset(t, skip_gap) ==
    LET b == binary_search(t)
        into == t - index[b].timestamp
    IN IF into < 0 THEN 0
       ELSE IF into < index[b].duration
            THEN (into * SampleCount) \div index[b].duration
       ELSE IF skip_gap THEN 0 ELSE SampleCount - 1

compute_samples(b, o) ==
    LET count == IF current >= b THEN current - b
                                 ELSE MajorBlocks - b + current
    IN count * SampleCount - o

\* The last part of compute_start: n samples are wanted, m are available.
Granted(all, n, m) == all \/ n <= m
Truncated(n, m) == IF n > m THEN m ELSE n
AfterStart(contiguous) == IF contiguous THEN "check" ELSE "stamp"

\* Mutant: a start in a gap is accepted.
StartsInBlockAlways(t, b) == TRUE

StartsInBlock(t, b) == index[b].timestamp <= t

\* timestamp_to_start, under transform_lock; it fails (and nothing changes)
\* when the time is too late, or, unless all_data is set, lies in a gap or
\* before the archive.  A request for a number of samples is then complete.
timestamp_to_start(start, end, options) ==
    LET b == FindBlock(start, TRUE)
        o == FindOffset(start, TRUE)
    IN
    /\ rpc = "idle"
    /\ b # current
    /\ options.all_data \/ StartsInBlock(start, b)
    /\ request' = [start |-> start, end |-> end, options |-> options]
    /\ block' = b
    /\ since' = completed
    /\ IF end = 0
       THEN \E n \in 1 .. MaxSamples :
            LET m == Decimated(compute_samples(b, o)) IN
            /\ Granted(options.all_data, n, m)
            /\ samples' = Truncated(n, m)
            /\ available' = m
            /\ offset' = Decimated(o)
            /\ rpc' = AfterStart(options.only_contiguous)
       ELSE /\ available' = compute_samples(b, o)
            /\ offset' = o
            /\ rpc' = "end"
            /\ UNCHANGED samples
    /\ UNCHANGED <<archive, gapcheck, stamp, sent, raced>>

\* The check that the end does not come before the start, of timestamp_to_end
\* and compute_end_samples.
EndFollows(e, o) ==
    /\ e >= block \/ (e < current /\ current < block)
    /\ block # e \/ offset <= o

\* Samples from the start to the end, in the units of the request.
RangeSamples(e, o) ==
    LET last == IF e < block THEN e + MajorBlocks ELSE e
    IN Decimated(SampleCount * (last - block) + o - offset)

\* timestamp_to_end, under transform_lock, and the rest of compute_start.
timestamp_to_end ==
    LET e == FindBlock(request.end, FALSE)
        o == FindOffset(request.end, FALSE)
        n == RangeSamples(e, o)
        m == Decimated(available)
    IN
    /\ rpc = "end"
    /\ UNCHANGED <<archive, request>>
    /\ IF /\ request.start < request.end
          /\ request.options.all_data
             \/ request.end <= index[e].timestamp + index[e].duration
          /\ EndFollows(e, o)
          /\ n > 0
          /\ Granted(request.options.all_data, n, m)
       THEN /\ samples' = Truncated(n, m)
            /\ available' = m
            /\ offset' = Decimated(offset)
            /\ rpc' = AfterStart(request.options.only_contiguous)
            /\ raced' = (completed # since)
            /\ UNCHANGED <<block, gapcheck, stamp, sent, since>>
       ELSE Idle

-----------------------------------------------------------------------------
(* Without the lock. *)

RoundUp(a, b) == (a + b - 1) \div b

\* check_run: the first index entry find_gap looks at.
check_run ==
    /\ rpc = "check"
    /\ probe' = block
    /\ left' = RoundUp(offset + samples, SamplesPerBlock)
    /\ expected' = index[block].timestamp + index[block].duration
    /\ expected_id' = index[block].id_zero + SampleCount
    /\ rpc' = "find"
    /\ UNCHANGED <<archive, locals, output>>

\* Mutant: timestamps are not compared.
IsGapById(b) == request.options.check_id0 /\ index[b].id_zero # expected_id

IsGap(b) ==
    \/ request.options.check_id0 /\ index[b].id_zero # expected_id
    \/ index[b].timestamp - expected < -MaxDelta
    \/ index[b].timestamp - expected > MaxDelta

\* One round of the loop in find_gap; a gap ends the request.
find_gap ==
    LET b == NextBlock(probe) IN
    /\ rpc = "find"
    /\ UNCHANGED archive
    /\ IF left <= 1
       THEN /\ rpc' = "stamp"
            /\ UNCHANGED <<locals, gapcheck, output>>
       ELSE IF IsGap(b)
       THEN Idle
       ELSE /\ probe' = b
            /\ left' = left - 1
            /\ expected' = index[b].timestamp + index[b].duration
            /\ expected_id' = index[b].id_zero + SampleCount
            /\ UNCHANGED <<rpc, locals, output>>

\* transfer_data, the top of the loop: the index data of the block is sent, or
\* all is done.
send_extended_timestamp ==
    /\ rpc = "stamp"
    /\ UNCHANGED archive
    /\ IF samples > 0
       THEN /\ stamp' = index[block].timestamp
            /\ rpc' = "read"
            /\ UNCHANGED <<locals, gapcheck, sent, since, raced>>
       ELSE Idle

\* read_block, and the lines sent from it.
transfer_block ==
    LET count == Truncated(samples, SamplesPerBlock - offset) IN
    /\ rpc = "read"
    /\ sent' = Append(sent,
            [stamp |-> stamp,
             data |-> IF block = current THEN Torn ELSE index[block].timestamp,
             id |-> index[block].id_zero,
             first |-> offset, count |-> count,
             lag |-> completed - since])
    /\ samples' = samples - count
    /\ block' = NextBlock(block)
    /\ offset' = 0
    /\ rpc' = "stamp"
    /\ UNCHANGED <<archive, request, available, gapcheck, stamp, since,
                   raced>>

\* A read from the file or a write to the client failed.
TransferFails ==
    /\ rpc = "read"
    /\ Idle
    /\ UNCHANGED archive

-----------------------------------------------------------------------------
\* A range of times, or a number of samples (end = 0).
Begin ==
    \E start \in Times, options \in Options :
        \E end \in {0} \cup {start + l : l \in Lengths} :
            timestamp_to_start(start, end, options)

RequestNext ==
    \/ Begin
    \/ timestamp_to_end
    \/ check_run
    \/ find_gap
    \/ send_extended_timestamp
    \/ transfer_block
    \/ TransferFails

Next ==
    \/ AdvanceIndex /\ UNCHANGED <<rpc, locals, gapcheck, output>>
    \/ RequestNext

Spec == Init /\ [][Next]_vars

-----------------------------------------------------------------------------
(* Properties. *)

\* The archive was not empty, and was not quick enough to catch up with the
\* request: piece k was read before IndexSkip + k blocks were completed after
\* the lookup.
Kept(k) == since > 0 /\ sent[k].lag < IndexSkip + k

\* INDEX_SKIP: although index and file are read without a lock, the timestamp
\* sent ahead of a block is that of the data sent, and no piece comes from the
\* current block, as long as the transfer keeps ahead of the archive.
StampsMatchData ==
    \A k \in DOMAIN sent : Kept(k) => sent[k].data = sent[k].stamp

\* Time of a sample of a piece, relative to the piece's timestamp.
After(n) == (n * 2 ^ DecimationLog2 * Duration) \div SampleCount
FirstTime(k) == sent[k].stamp + After(sent[k].first)
LastTime(k) == sent[k].stamp + After(sent[k].first + sent[k].count - 1)

\* docs/fa-archiver.rst: the samples sent are those "between the start and end
\* times"; nothing from after the end.  The end is looked up separately from
\* the start and turned into a sample count, and the ring may wrap anywhere.
NothingBeyondEnd ==
    request.end # 0 =>
        \A k \in DOMAIN sent : Kept(k) => LastTime(k) <= request.end

\* The same, if no block was completed between the two lookups.
NothingBeyondEndUnlessRaced == ~raced => NothingBeyondEnd

\* Nothing is missing from the beginning of the range unless all_data is set.
NothingMissingAtStart ==
    ~request.options.all_data /\ sent # <<>> /\ Kept(1) =>
        FirstTime(1) <= request.start

\* find_gap, which reads the index without a lock while it changes: what a
\* request for contiguous data is sent is contiguous, in time and, on demand,
\* in id0.
SentIsContiguous ==
    request.options.only_contiguous =>
        \A k \in DOMAIN sent \ {1} :
            Kept(k) /\ Kept(k - 1) =>
                LET gap == sent[k].stamp - (sent[k - 1].stamp + Duration) IN
                /\ gap >= -MaxDelta /\ gap <= MaxDelta
                /\ request.options.check_id0 =>
                    sent[k].id = sent[k - 1].id + SampleCount

\* binary_search keeps the promise of its comment after every block, for every
\* time.  It is enough to look when there is no request under way: requests
\* leave the index alone.
LookupFindsBlock == rpc = "idle" => SearchFindsBlock

=============================================================================
