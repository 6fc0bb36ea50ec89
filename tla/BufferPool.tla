----------------------------- MODULE BufferPool -----------------------------
(***************************************************************************)
(* The pool of buffers shared by the clients that read from the archive    *)
(* (pool.c), and the order in which a request takes buffers, fills them    *)
(* and gives them back (read_data in reader.c).                            *)
(*                                                                         *)
(* A request locks one buffer for every id it reads, one for its output    *)
(* and, if timestamps are sent at the end, buffers for timestamps,         *)
(* durations and id0s: five steps under buffer_lock, each of which can be  *)
(* refused.  The delayed buffers are never written to the client before    *)
(* the end, so there have to be enough of them.  Sizes are in units of     *)
(* sizeof(uint32_t).                                                       *)
(***************************************************************************)
EXTENDS Integers, Sequences, SequencesExt

CONSTANTS
    Clients,          \* threads serving requests
    FaEntryCount,     \* header->fa_entry_count, the number of buffers
    MajorSampleCount, \* header->major_sample_count
    SamplesPerBlock,  \* reader->samples_per_fa_block
    Ids,              \* the numbers of ids asked for
    MaxSamples,       \* bound: number of samples asked for
    MaxRequests       \* bound: number of requests of a client

ASSUME PoolAssumption ==
    /\ FaEntryCount \in Nat \ {0}
    /\ MajorSampleCount \in Nat \ {0}
    /\ SamplesPerBlock \in 1 .. MajorSampleCount
    /\ Ids \subseteq 1 .. FaEntryCount
    /\ MaxSamples \in Nat /\ MaxRequests \in Nat

VARIABLES
    buffer_pool,    \* the free list
    pool_size,
    stage,          \* what a client is doing ...
    kind,           \* ... to which of its buffers
    request,
    held,           \* buffers of a client, by kind
    written,        \* its struct write_buffer, by kind
    requests        \* number of requests a client has made

pool == <<buffer_pool, pool_size>>
vars == <<pool, stage, kind, request, held, written, requests>>

Buffers == 1 .. FaEntryCount
Delayed == {"timestamps", "durations", "id0s"}
Kinds == {"read", "out"} \cup Delayed

\* FA_ENTRY_SIZE is that of two uint32_t.
pooled_buffer_size == 2 * MajorSampleCount
ItemSize(k) == IF k = "timestamps" THEN 2 ELSE 1

Requests ==
    [ids : Ids, samples : 1 .. MaxSamples, offset : 0 .. SamplesPerBlock - 1,
     at_end : BOOLEAN, send_id0 : BOOLEAN]

NoBuffers == [k \in Kinds |-> <<>>]
NothingWritten == [k \in Delayed |-> [current_buffer |-> 1,
                                      out_pointers |-> <<>>]]
NoRequest == [ids |-> 0, samples |-> 0, offset |-> 0, at_end |-> FALSE,
              send_id0 |-> FALSE]

Init ==
    /\ buffer_pool = Reverse([b \in Buffers |-> b])
    /\ pool_size = FaEntryCount
    /\ stage = [c \in Clients |-> "idle"]
    /\ kind = [c \in Clients |-> "read"]
    /\ request = [c \in Clients |-> NoRequest]
    /\ held = [c \in Clients |-> NoBuffers]
    /\ written = [c \in Clients |-> NothingWritten]
    /\ requests = [c \in Clients |-> 0]

-----------------------------------------------------------------------------
(* How many buffers. *)

RoundUp(a, b) == (a + b - 1) \div b

\* Mutant: blocks are counted as if the first sample were at the start of one.
TimestampsIfAligned(r) == 1 + (r.samples - 1) \div SamplesPerBlock

\* allocate_timestamp_buffer: "one timestamp per complete block plus one each
\* extra for partial blocks at each end".
Timestamps(r) == 2 + r.samples \div SamplesPerBlock

Wanted(r, k) ==
    CASE k = "read" -> r.ids
      [] k = "out" -> 1
      [] k \in Delayed ->
            RoundUp(Timestamps(r),
                    pooled_buffer_size \div (IF k = "timestamps" THEN 2 ELSE 1))

\* The kinds of buffers a request takes, in order, and gives back, in order.
Taken(r) ==
    CASE ~r.at_end -> <<"read", "out">>
      [] r.at_end /\ ~r.send_id0 ->
            <<"read", "out", "timestamps", "durations">>
      [] r.at_end /\ r.send_id0 ->
            <<"read", "out", "timestamps", "durations", "id0s">>

GivenBack(r) ==
    IF r.send_id0 THEN <<"timestamps", "durations", "id0s", "out", "read">>
                  ELSE <<"timestamps", "durations", "out", "read">>

Successor(s, k) == s[1 + CHOOSE i \in 1 .. Len(s) - 1 : s[i] = k]

GoTo(c, s, k) ==
    /\ stage' = [stage EXCEPT ![c] = s]
    /\ kind' = [kind EXCEPT ![c] = k]

Release(c) == GoTo(c, "unlock", "timestamps")

-----------------------------------------------------------------------------
\* read_data, once it knows how many samples from which offset.
Request(c, r) ==
    /\ stage[c] = "idle"
    /\ requests[c] < MaxRequests
    /\ requests' = [requests EXCEPT ![c] = @ + 1]
    /\ request' = [request EXCEPT ![c] = r]
    /\ GoTo(c, "lock", "read")
    /\ UNCHANGED <<pool, held, written>>

\* Mutant: a refused request returns at once.
RefuseEarly(c) == GoTo(c, "idle", "read")

\* "Read too busy": what has been taken so far is released.
Refuse(c) == Release(c)

\* Mutant: the last buffer is never handed out.
EnoughAndOne(count) == count < pool_size

Enough(count) == count <= pool_size

\* lock_buffers, directly or from allocate_write_buffer.
lock_buffers(c) ==
    LET k == kind[c]
        count == Wanted(request[c], k)
    IN
    /\ stage[c] = "lock"
    /\ UNCHANGED request
    /\ IF Enough(count)
       THEN /\ pool_size' = pool_size - count
            /\ held' = [held EXCEPT ![c][k] = SubSeq(buffer_pool, 1, count)]
            /\ buffer_pool' = SubSeq(buffer_pool, count + 1, Len(buffer_pool))
            /\ written' = IF k \in Delayed
                          THEN [written EXCEPT ![c][k].out_pointers =
                                    [i \in 1 .. count |-> 0]]
                          ELSE written
            /\ IF k = Last(Taken(request[c]))
               THEN GoTo(c, "open", "read")
               ELSE GoTo(c, "lock", Successor(Taken(request[c]), k))
       ELSE /\ Refuse(c)
            /\ UNCHANGED <<pool, held, written>>

\* The archive file is opened and the status and the headers are sent; any of
\* this can fail.
OpenArchive(c) ==
    /\ stage[c] = "open"
    /\ GoTo(c, "transfer", "read") \/ Release(c)
    /\ UNCHANGED <<pool, request, held, written>>

\* ensure_buffer finds no room and no further buffer: flush_buffer, which
\* asserts that it is not given a delayed buffer.
Full(w, length) ==
    /\ w.out_pointers[w.current_buffer] + length > pooled_buffer_size
    /\ w.current_buffer = Len(w.out_pointers)

\* write_buffer on a delayed buffer that is not full.
write_buffer(w, length) ==
    LET b == IF w.out_pointers[w.current_buffer] + length > pooled_buffer_size
             THEN w.current_buffer + 1 ELSE w.current_buffer
    IN [current_buffer |-> b,
        out_pointers |-> [w.out_pointers EXCEPT ![b] = @ + length]]

\* One round of the loop in transfer_data: the timestamp of the block is put
\* aside, and the samples up to its end are sent.
TransferBlock(c) ==
    LET r == request[c]
        used == {k \in Delayed : held[c][k] # <<>>}
        count == IF r.samples < SamplesPerBlock - r.offset
                 THEN r.samples ELSE SamplesPerBlock - r.offset
    IN
    /\ stage[c] = "transfer"
    /\ r.samples > 0
    /\ UNCHANGED <<pool, held>>
    /\ IF \E k \in used : Full(written[c][k], ItemSize(k))
       THEN /\ GoTo(c, "aborted", "read")
            /\ UNCHANGED <<request, written>>
       ELSE /\ written' = [written EXCEPT ![c] = [k \in Delayed |->
                    IF k \in used THEN write_buffer(@[k], ItemSize(k))
                                  ELSE @[k]]]
            /\ request' = [request EXCEPT ![c].samples = @ - count,
                                          ![c].offset = 0]
            /\ UNCHANGED <<stage, kind>>

\* write_timestamp_buffer and flush_buffer at the end of a transfer, or a read
\* or a write that failed.
TransferEnds(c) ==
    /\ stage[c] = "transfer"
    /\ Release(c)
    /\ UNCHANGED <<pool, request, held, written>>

\* Mutant: the buffers are put back but not counted.
SizeUncounted(n) == pool_size

SizeAfterUnlock(n) == pool_size + n

\* unlock_buffers, directly or from release_write_buffer; nothing happens for a
\* kind that was not taken.
unlock_buffers(c) ==
    LET k == kind[c]
        r == request[c]
    IN
    /\ stage[c] = "unlock"
    /\ buffer_pool' = Reverse(held[c][k]) \o buffer_pool
    /\ pool_size' = SizeAfterUnlock(Len(held[c][k]))
    /\ held' = [held EXCEPT ![c][k] = <<>>]
    /\ IF k = Last(GivenBack(r))
       THEN /\ GoTo(c, "idle", "read")
            /\ request' = [request EXCEPT ![c] = NoRequest]
            /\ written' = [written EXCEPT ![c] = NothingWritten]
       ELSE /\ GoTo(c, "unlock", Successor(GivenBack(r), k))
            /\ UNCHANGED <<request, written>>

Serve(c) ==
    \/ lock_buffers(c)
    \/ OpenArchive(c)
    \/ TransferBlock(c)
    \/ TransferEnds(c)
    \/ unlock_buffers(c)

Client(c) ==
    \/ \E r \in Requests : Request(c, r)
    \/ Serve(c) /\ UNCHANGED requests

Next == \E c \in Clients : Client(c)

Spec == Init /\ [][Next]_vars

-----------------------------------------------------------------------------
(* Properties. *)

HeldBuffers(c) == UNION {ToSet(held[c][k]) : k \in Kinds}

\* The free list is as long as pool_size says (lock_buffers takes buffers from
\* it on that word alone), every buffer is either free or held once, however
\* many requests are half way through taking or releasing theirs.
PoolIsWhole ==
    /\ pool_size = Len(buffer_pool)
    /\ IsInjective(buffer_pool)
    /\ \A c \in Clients, k \in Kinds : IsInjective(held[c][k])
    /\ \A c \in Clients :
        /\ ToSet(buffer_pool) \cap HeldBuffers(c) = {}
        /\ \A d \in Clients \ {c} : HeldBuffers(c) \cap HeldBuffers(d) = {}
        /\ \A k, l \in Kinds :
            k # l => ToSet(held[c][k]) \cap ToSet(held[c][l]) = {}
    /\ ToSet(buffer_pool) \cup UNION {HeldBuffers(c) : c \in Clients} = Buffers

\* Wherever a request is refused or fails, it has given back everything when
\* its thread goes on to the next one.
NothingLeaked ==
    \A c \in Clients : stage[c] = "idle" => held[c] = NoBuffers

\* The estimate of allocate_timestamp_buffer never falls short, wherever the
\* samples begin and end: a delayed buffer is never flushed to file -1.
DelayedBuffersSuffice == \A c \in Clients : stage[c] # "aborted"

\* Buffers asked for in all.
Needed(r) ==
    Wanted(r, "read") + Wanted(r, "out") +
    IF ~r.at_end THEN 0
    ELSE Wanted(r, "timestamps") + Wanted(r, "durations") +
         IF r.send_id0 THEN Wanted(r, "id0s") ELSE 0

Refused(c) == stage[c] = "lock" /\ stage'[c] = "unlock"

\* "This can fail if there are too many readers trying to run at once": nobody
\* is refused who could be served, unless somebody else is holding buffers.
RefusedOnlyWhenBusy ==
    [][\A c \in Clients :
        Refused(c) =>
            \/ Needed(request[c]) > FaEntryCount
            \/ \E d \in Clients \ {c} : held[d] # NoBuffers]_vars

=============================================================================
