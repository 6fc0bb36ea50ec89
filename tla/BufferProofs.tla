---------------------------- MODULE BufferProofs ----------------------------
(***************************************************************************)
(* Proofs about the circular buffer, for any ring of at least two blocks,  *)
(* any number of readers and any bound on the number of frames.            *)
(***************************************************************************)
EXTENDS BufferInv, TLAPS

-----------------------------------------------------------------------------
(* Type correctness. *)

\* advance_index stays in the ring and moves.
LEMMA AdvanceInRing ==
    ASSUME NEW s \in Slots
    PROVE  /\ advance_index(s) \in Slots
           /\ advance_index(s) # s
           /\ advance_index(s) = 0 => s = BlockCount - 1
           /\ advance_index(s) # 0 => advance_index(s) = s + 1
    BY BlockCountAssumption DEF advance_index, Slots

LEMMA ZeroInRing == 0 \in Slots
    BY BlockCountAssumption DEF Slots

LEMMA TypeInit == Init => TypeOK
<1> SUFFICES ASSUME Init PROVE TypeOK
    OBVIOUS
<1>1. 0 \in Slots
    BY ZeroInRing
<1>0. write_blocked \in BOOLEAN
    BY DEF Init
<1>2. /\ index_in \in Slots
      /\ cycle_count \in Nat
      /\ reserved_reader \in Reserved \cup {NoReader}
      /\ wpc \in WriterStates
      /\ frame \in Nat \ {0}
      /\ stored \subseteq Nat
    BY <1>1 DEF Init, WriterStates
<1>3. /\ gap \in [Slots -> BOOLEAN]
      /\ timestamp \in [Slots -> Nat]
      /\ data \in [Slots -> SUBSET Nat]
    BY DEF Init
<1>4. /\ rpc \in [Readers -> ReaderStates]
      /\ running \in [Readers -> BOOLEAN]
      /\ gap_reported \in [Readers -> BOOLEAN]
      /\ signalled \in [Readers -> BOOLEAN]
      /\ cont \in [Readers -> BOOLEAN]
    BY DEF Init, ReaderStates
<1>5. /\ index_out \in [Readers -> Slots]
      /\ rcycle \in [Readers -> Nat]
      /\ held \in [Readers -> Nat]
      /\ copied \in [Readers -> SUBSET Nat]
    BY <1>1 DEF Init
<1>6. /\ snap_index \in [Readers -> Slots]
      /\ snap_cycle \in [Readers -> Nat]
      /\ last \in [Readers -> Nat]
    BY <1>1 DEF Init
<1> QED
    BY <1>0, <1>2, <1>3, <1>4, <1>5, <1>6 DEF TypeOK

LEMMA WriterTypes ==
    ASSUME TypeOK, WriterNext PROVE TypeOK'
<1>1. CASE get_write_block
    BY <1>1 DEF TypeOK, get_write_block, WriterStates, ring, position, block,
        told
<1>2. ASSUME NEW ok \in BOOLEAN, StartRelease(ok) PROVE TypeOK'
    BY <1>2 DEF TypeOK, StartRelease, WriterStates, ring, position, block,
        told
<1>3. CASE release_write_block
  <2>1. /\ index_in' \in Slots /\ cycle_count' \in Nat
        /\ gap' \in [Slots -> BOOLEAN]
        /\ timestamp' \in [Slots -> Nat]
        /\ stored' \subseteq Nat
    <3>1. CASE MarkGap
        BY <3>1 DEF TypeOK, MarkGap
    <3>2. CASE Publish
        BY <3>2, AdvanceInRing DEF TypeOK, Publish
    <3> QED
        BY <1>3, <3>1, <3>2 DEF release_write_block
  <2>2. signalled' \in [Readers -> BOOLEAN]
    BY <1>3 DEF TypeOK, release_write_block, pbroadcast
  <2> QED
    BY <1>3, <2>1, <2>2
    DEF TypeOK, release_write_block, WriterStates, position, block
<1> QED
    BY <1>1, <1>2, <1>3 DEF WriterNext

LEMMA FinishGetTypes ==
    ASSUME TypeOK, NEW r \in Readers, FinishGet(r),
           signalled' \in [Readers -> BOOLEAN]
    PROVE  TypeOK'
<1>1. gap_reported' \in [Readers -> BOOLEAN]
  <2>1. ReturnsNull(r) \in BOOLEAN
    BY DEF ReturnsNull
  <2> QED
    BY <2>1 DEF FinishGet, TypeOK
<1>2. /\ rpc' \in [Readers -> ReaderStates]
      /\ held' \in [Readers -> Nat]
      /\ cont' \in [Readers -> BOOLEAN]
  <2>1. CASE ReturnsNull(r)
    <3>1. /\ rpc' = [rpc EXCEPT ![r] = "ready"]
          /\ cont' = [cont EXCEPT ![r] = FALSE]
          /\ UNCHANGED held
        BY <2>1 DEF FinishGet
    <3> QED
        BY <3>1 DEF TypeOK, ReaderStates
  <2>2. CASE ~ReturnsNull(r)
    <3>1. /\ rpc' = [rpc EXCEPT ![r] = "got"]
          /\ held' = [held EXCEPT ![r] = timestamp[index_out[r]]]
          /\ UNCHANGED cont
        BY <2>2 DEF FinishGet
    <3> QED
        BY <3>1 DEF TypeOK, ReaderStates
  <2> QED
    BY <2>1, <2>2
<1>3. UNCHANGED <<ring, write_blocked, data, writer, running, position,
                   copied, snap_index, snap_cycle, last, stored>>
    BY DEF FinishGet
<1> QED
    BY <1>1, <1>2, <1>3 DEF TypeOK, ring, writer, position

LEMMA StartWaitTypes ==
    ASSUME TypeOK, NEW r \in Readers, StartWait(r),
           signalled' \in [Readers -> BOOLEAN]
    PROVE  TypeOK'
    BY DEF StartWait, TypeOK, ReaderStates, ring, writer, position, block,
        told

LEMMA ReaderTypes ==
    ASSUME TypeOK, NEW r \in Readers, ReaderNext(r)
    PROVE  TypeOK'
<1>1. CASE open_reader(r)
    BY <1>1 DEF TypeOK, open_reader, ReaderStates, ring, writer, block
<1>2. CASE close_reader(r)
    BY <1>2, ZeroInRing
    DEF TypeOK, close_reader, ReaderStates, ring, writer, block
<1>3. CASE get_read_block(r)
    BY <1>3, FinishGetTypes, StartWaitTypes DEF get_read_block, TypeOK
<1>4. CASE Wake(r)
    BY <1>4, FinishGetTypes, StartWaitTypes DEF Wake, TypeOK
<1>5. CASE Timeout(r)
    BY <1>5, FinishGetTypes DEF Timeout, TypeOK
<1>6. CASE ReadBytes(r)
  <2>1. data[index_out[r]] \subseteq Nat /\ copied[r] \subseteq Nat
    BY DEF TypeOK
  <2> QED
    BY <1>6, <2>1 DEF TypeOK, ReadBytes, ring, writer, position, told
<1>7. CASE TakeSnapshot(r)
    BY <1>7 DEF TypeOK, TakeSnapshot, ReaderStates, ring, writer, position,
        told
<1>8. CASE Release(r)
  <2>1. /\ index_out' \in [Readers -> Slots]
        /\ rcycle' \in [Readers -> Nat]
        /\ gap_reported' \in [Readers -> BOOLEAN]
        /\ last' \in [Readers -> Nat]
        /\ cont' \in [Readers -> BOOLEAN]
    <3>1. CASE ReleasedOk(r)
      <4>1. /\ index_out' = [index_out EXCEPT ![r] =
                                advance_index(index_out[r])]
            /\ rcycle' = [rcycle EXCEPT ![r] =
                             IF advance_index(index_out[r]) = 0
                             THEN @ + 1 ELSE @]
            /\ last' = [last EXCEPT ![r] = held[r]]
            /\ cont' = [cont EXCEPT ![r] = TRUE]
            /\ UNCHANGED gap_reported
        BY <1>8, <3>1 DEF Release
      <4>2. advance_index(index_out[r]) \in Slots
        BY AdvanceInRing DEF TypeOK
      <4>3. /\ index_out' \in [Readers -> Slots]
            /\ last' \in [Readers -> Nat]
            /\ cont' \in [Readers -> BOOLEAN]
            /\ gap_reported' \in [Readers -> BOOLEAN]
        BY <4>1, <4>2 DEF TypeOK
      <4>4. rcycle' \in [Readers -> Nat]
        BY <4>1 DEF TypeOK
      <4> QED
        BY <4>3, <4>4
    <3>2. CASE ~ReleasedOk(r)
        BY <1>8, <3>2 DEF TypeOK, Release
    <3> QED
        BY <3>1, <3>2
  <2>2. /\ held' \in [Readers -> Nat]
        /\ copied' \in [Readers -> SUBSET Nat]
        /\ snap_index' \in [Readers -> Slots]
        /\ snap_cycle' \in [Readers -> Nat]
        /\ rpc' \in [Readers -> ReaderStates]
    BY <1>8, ZeroInRing DEF TypeOK, Release, ReaderStates
  <2> QED
    BY <1>8, <2>1, <2>2 DEF TypeOK, Release, ring, writer
<1>9. CASE interrupt_reader(r)
    BY <1>9 DEF TypeOK, interrupt_reader, pbroadcast, ring, writer, position,
        block, told
<1> QED
    BY <1>1, <1>2, <1>3, <1>4, <1>5, <1>6, <1>7, <1>8, <1>9 DEF ReaderNext

LEMMA TypeNext == TypeOK /\ [Next]_vars => TypeOK'
<1> SUFFICES ASSUME TypeOK, [Next]_vars PROVE TypeOK'
    OBVIOUS
<1>1. CASE WriterNext
    BY <1>1, WriterTypes
<1>2. ASSUME NEW enabled \in BOOLEAN, enable_buffer_write(enabled)
      PROVE  TypeOK'
    BY <1>2 DEF TypeOK, enable_buffer_write, ring, writer, position, block,
        told
<1>3. ASSUME NEW r \in Readers, ReaderNext(r) PROVE TypeOK'
    BY <1>3, ReaderTypes
<1>4. CASE UNCHANGED vars
    BY <1>4 DEF TypeOK, vars, ring, writer, position, block, told
<1> QED
    BY <1>1, <1>2, <1>3, <1>4 DEF Next

\* Every variable of the buffer always has its type; in particular every index
\* is in the ring.
THEOREM TypeCorrect == Spec => []TypeOK
    BY TypeInit, TypeNext, PTL DEF Spec

-----------------------------------------------------------------------------
(* What publishing a block does to positions and to the stamps of slots. *)

\* The ring as every operator of BufferInv sees it.
RingUnchanged ==
    UNCHANGED <<index_in, cycle_count, gap, timestamp, data, wpc, frame, stored>>

\* A step that leaves alone what reader q sees of itself.
ReaderUnchanged(q) ==
    /\ rpc'[q] = rpc[q]
    /\ running'[q] = running[q]
    /\ gap_reported'[q] = gap_reported[q]
    /\ index_out'[q] = index_out[q]
    /\ rcycle'[q] = rcycle[q]
    /\ held'[q] = held[q]
    /\ copied'[q] = copied[q]
    /\ snap_index'[q] = snap_index[q]
    /\ snap_cycle'[q] = snap_cycle[q]
    /\ last'[q] = last[q]
    /\ cont'[q] = cont[q]

LEMMA PublishPosition ==
    ASSUME TypeOK, Publish, NEW i \in Slots, NEW c \in Nat, Reached(i, c)
    PROVE  /\ Reached(i, c)'
           /\ Within(i, c)' \/ AtLap(i, c)' => Within(i, c)
           /\ Within(i, c)' => i # advance_index(index_in)
           /\ Within(i, c) /\ i # advance_index(index_in) => Within(i, c)'
<1>1. /\ index_in \in Slots /\ cycle_count \in Nat
      /\ index_in' = advance_index(index_in)
      /\ cycle_count' =
            IF advance_index(index_in) = 0 THEN cycle_count + 1
            ELSE cycle_count
    BY DEF TypeOK, Publish
<1> QED
    BY <1>1, BlockCountAssumption
    DEF Reached, Within, AtLap, advance_index, Slots

LEMMA PublishStamp ==
    ASSUME TypeOK, Publish, frame' = frame + 1, NEW s \in Slots
    PROVE  /\ s # advance_index(index_in) =>
                /\ NextStamp(s)' = NextStamp(s)
                /\ gap'[s] = gap[s]
           /\ s = advance_index(index_in) =>
                /\ NextStamp(s)' = frame + 1
                /\ ~gap'[s]
           /\ s # index_in => timestamp'[s] = timestamp[s]
           /\ timestamp'[index_in] = frame
<1>1. /\ index_in \in Slots /\ frame \in Nat
      /\ timestamp \in [Slots -> Nat] /\ gap \in [Slots -> BOOLEAN]
      /\ index_in' = advance_index(index_in)
      /\ timestamp' = [timestamp EXCEPT ![index_in] = frame]
      /\ gap' = [gap EXCEPT ![advance_index(index_in)] = FALSE]
    BY DEF TypeOK, Publish
<1>2. advance_index(index_in) # index_in /\ advance_index(index_in) \in Slots
    BY <1>1, AdvanceInRing
<1> QED
    BY <1>1, <1>2 DEF NextStamp

LEMMA PublishWritten ==
    ASSUME TypeOK, Publish, NEW s \in Slots, Written(s)', s # index_in
    PROVE  Written(s)
<1>1. /\ index_in \in Slots /\ cycle_count \in Nat
      /\ index_in' = advance_index(index_in)
      /\ cycle_count' =
            IF advance_index(index_in) = 0 THEN cycle_count + 1
            ELSE cycle_count
    BY DEF TypeOK, Publish
<1> QED
    BY <1>1, BlockCountAssumption DEF Written, advance_index, Slots

-----------------------------------------------------------------------------
(* The writer keeps the invariant. *)

LEMMA PublishOrder ==
    ASSUME TypeOK, FramesInOrder, Publish, frame' = frame + 1
    PROVE  FramesInOrder'
<1>1. \A f \in stored' : f < frame'
    BY DEF FramesInOrder, Publish, TypeOK
<1> SUFFICES ASSUME NEW s \in Slots
             PROVE  /\ s # index_in' => timestamp'[s] < frame'
                    /\ Written(s)' =>
                         LET next == advance_index(s) IN
                         /\ timestamp'[s] \in stored'
                         /\ timestamp'[s] < NextStamp(next)'
                         /\ gap'[next] \/ NextStamp(next)' = timestamp'[s] + 1
                         /\ \A f \in stored' :
                                f <= timestamp'[s] \/ f >= NextStamp(next)'
    BY <1>1 DEF FramesInOrder
<1> DEFINE next == advance_index(s)
<1>2. /\ index_in \in Slots /\ frame \in Nat /\ timestamp[s] \in Nat
      /\ stored \subseteq Nat /\ next \in Slots
      /\ stored' = stored \cup {frame}
    BY AdvanceInRing DEF TypeOK, Publish
<1>3. CASE s = index_in
  <2>1. timestamp'[s] = frame /\ NextStamp(next)' = frame + 1 /\ ~gap'[next]
    BY <1>2, <1>3, PublishStamp
  <2>2. \A f \in stored' : f <= frame
    BY <1>1, <1>2
  <2>3. frame \in stored' /\ frame < frame + 1 /\ frame' = frame + 1
    BY <1>2
  <2> QED
    BY <2>1, <2>2, <2>3
<1>4. CASE s # index_in
  <2>1. timestamp'[s] = timestamp[s] /\ timestamp[s] < frame
    BY <1>4, PublishStamp DEF FramesInOrder
  <2>2. next # advance_index(index_in)
    BY <1>2, <1>4, BlockCountAssumption DEF advance_index, Slots
  <2>3. NextStamp(next)' = NextStamp(next) /\ gap'[next] = gap[next]
    BY <1>2, <2>2, PublishStamp
  <2>4. NextStamp(next) \in Nat /\ NextStamp(next) <= frame
    BY <1>2 DEF NextStamp, FramesInOrder, TypeOK
  <2>5. ASSUME Written(s)'
        PROVE  /\ timestamp[s] \in stored
               /\ timestamp[s] < NextStamp(next)
               /\ gap[next] \/ NextStamp(next) = timestamp[s] + 1
               /\ \A f \in stored : f <= timestamp[s] \/ f >= NextStamp(next)
    BY <1>4, <2>5, PublishWritten DEF FramesInOrder
  <2> QED
    BY <1>2, <2>1, <2>3, <2>4, <2>5
<1> QED
    BY <1>3, <1>4

LEMMA PublishLoss ==
    ASSUME TypeOK, FramesInOrder, Publish, frame' = frame + 1
    PROVE  LossMarked'
<1> SUFFICES ASSUME NEW n \in stored' \cup {0}, Newest(n)'
             PROVE  frame' = n + 1
    BY DEF LossMarked
<1>1. /\ frame \in Nat \ {0} /\ stored \subseteq Nat
      /\ stored' = stored \cup {frame}
    BY DEF TypeOK, Publish
<1>2. frame <= n
    BY <1>1 DEF Newest
<1>3. n \in stored => n < frame
    BY DEF FramesInOrder
<1> QED
    BY <1>1, <1>2, <1>3

LEMMA PublishBlocks ==
    ASSUME TypeOK, BlocksWhole, Publish, wpc = "publishing", wpc' = "idle",
           UNCHANGED data
    PROVE  BlocksWhole'
<1> SUFFICES ASSUME NEW s \in Slots, s # index_in'
             PROVE  data[s] = {timestamp'[s]}
    BY DEF BlocksWhole
<1>1. /\ index_in \in Slots
      /\ timestamp \in [Slots -> Nat]
      /\ timestamp' = [timestamp EXCEPT ![index_in] = frame]
    BY DEF TypeOK, Publish
<1> QED
    BY <1>1 DEF BlocksWhole

\* A position whose release is going to succeed is strictly behind the writer.
LEMMA SnapshotAhead ==
    ASSUME TypeOK, NEW q \in Readers, ReleasedOk(q),
           Reached(snap_index[q], snap_cycle[q])
    PROVE  /\ Within(index_out[q], rcycle[q]) => index_out[q] # index_in
           /\ Written(index_out[q])
<1>1. /\ index_in \in Slots /\ cycle_count \in Nat
      /\ index_out[q] \in Slots /\ rcycle[q] \in Nat
      /\ snap_index[q] \in Slots /\ snap_cycle[q] \in Nat
    BY DEF TypeOK
<1> QED
    BY <1>1, BlockCountAssumption
    DEF ReleasedOk, check_underflow, Reached, Within, Written, Slots

LEMMA PublishReader ==
    ASSUME TypeOK, FramesInOrder, NEW q \in Readers, ReaderInv(q),
           Publish, frame' = frame + 1, ReaderUnchanged(q)
    PROVE  ReaderInv(q)'
<1>1. PICK i \in Slots, c \in Nat, si \in Slots, sc \in Nat :
        /\ i = index_out[q] /\ c = rcycle[q]
        /\ si = snap_index[q] /\ sc = snap_cycle[q]
    BY DEF TypeOK
<1>2. /\ i = index_out'[q] /\ c = rcycle'[q]
      /\ si = snap_index'[q] /\ sc = snap_cycle'[q]
      /\ rpc'[q] = rpc[q] /\ gap_reported'[q] = gap_reported[q]
      /\ held'[q] = held[q] /\ copied'[q] = copied[q]
      /\ last'[q] = last[q] /\ cont'[q] = cont[q]
      /\ ReleasedOk(q)' <=> ReleasedOk(q)
    BY <1>1 DEF ReaderUnchanged, ReleasedOk, check_underflow
<1>0. /\ last[q] \in Nat /\ frame \in Nat /\ stored' = stored \cup {frame}
    BY DEF TypeOK, Publish
<1>3. HeldBlock(q) => HeldBlock(q)'
    BY <1>0, <1>2 DEF HeldBlock
<1>4. ASSUME rpc[q] # "closed"
      PROVE  /\ Reached(i, c)'
             /\ last'[q] < frame'
             /\ gap_reported'[q] => ~cont'[q]
    BY <1>0, <1>1, <1>2, <1>4, PublishPosition DEF ReaderInv
<1>5. ASSUME rpc[q] \in {"ready", "waiting"} PROVE ReaderAtRest(q)'
  <2>1. Reached(i, c) /\ ReaderAtRest(q)
    BY <1>1, <1>5 DEF ReaderInv
  <2>2. ASSUME Within(i, c)'
        PROVE  /\ Within(i, c)
               /\ NextStamp(i)' = NextStamp(i)
               /\ gap'[i] = gap[i]
    BY <1>1, <2>1, <2>2, PublishPosition, PublishStamp
  <2> QED
    BY <1>1, <1>2, <2>1, <2>2 DEF ReaderAtRest, Within, NextStamp
<1>6. ASSUME rpc[q] = "got" PROVE ReaderHolds(q)'
  <2>1. Reached(i, c) /\ ReaderHolds(q)
    BY <1>1, <1>6 DEF ReaderInv
  <2>2. ASSUME Within(i, c)' \/ AtLap(i, c)'
        PROVE  /\ Within(i, c)
               /\ timestamp'[i] = timestamp[i]
    <3>1. Within(i, c)
        BY <2>1, <2>2, PublishPosition
    <3>2. i # index_in
        BY <1>1, <2>1, <3>1 DEF ReaderHolds
    <3> QED
        BY <3>1, <3>2, PublishStamp
  <2>3. Within(i, c)' => i # index_in'
    BY <2>1, PublishPosition DEF Publish
  <2> QED
    BY <1>1, <1>2, <1>3, <2>1, <2>2, <2>3 DEF ReaderHolds, Within, AtLap
<1>7. ASSUME rpc[q] = "snapped" PROVE ReaderReleases(q)'
  <2>1. Reached(i, c) /\ ReaderReleases(q) /\ Reached(si, sc)
    BY <1>1, <1>7 DEF ReaderInv, ReaderReleases
  <2>2. ASSUME ReleasedOk(q), Within(i, c)' \/ AtLap(i, c)'
        PROVE  /\ Within(i, c)
               /\ timestamp'[i] = timestamp[i]
    <3>1. Within(i, c)
        BY <2>1, <2>2, PublishPosition
    <3>2. i # index_in
        BY <1>1, <2>1, <2>2, <3>1, SnapshotAhead
    <3> QED
        BY <3>1, <3>2, PublishStamp
  <2>3. Reached(si, sc)'
    BY <2>1, PublishPosition
  <2>4. ASSUME Within(si, sc)' PROVE last[q] < NextStamp(si)'
    <3>1. Within(si, sc) /\ NextStamp(si)' = NextStamp(si)
        BY <2>1, <2>4, PublishPosition, PublishStamp
    <3> QED
        BY <1>1, <2>1, <3>1 DEF ReaderReleases
  <2> QED
    BY <1>1, <1>2, <1>3, <2>1, <2>2, <2>3, <2>4
    DEF ReaderReleases, Within, AtLap, Reached, NextStamp
<1>8. rpc[q] = "closed" => copied'[q] = {}
    BY <1>2 DEF ReaderInv
<1> QED
    BY <1>1, <1>2, <1>4, <1>5, <1>6, <1>7, <1>8 DEF ReaderInv, Reached

LEMMA PublishReserved ==
    ASSUME TypeOK, FramesInOrder, NEW q \in Reserved, ReaderInv(q),
           ReservedInv(q), ~Blocked, Publish, frame' = frame + 1,
           ReaderUnchanged(q), UNCHANGED reserved_reader
    PROVE  ReservedInv(q)'
<1>1. PICK i \in Slots, c \in Nat : i = index_out[q] /\ c = rcycle[q]
    BY ReservedAssumption DEF TypeOK
<1>2. /\ i = index_out'[q] /\ c = rcycle'[q]
      /\ rpc'[q] = rpc[q] /\ last'[q] = last[q]
      /\ ReleasedOk(q)' <=> ReleasedOk(q)
    BY <1>1 DEF ReaderUnchanged, ReleasedOk, check_underflow
<1>0. /\ q \in Readers /\ frame \in Nat /\ timestamp[i] \in Nat
      /\ stored \subseteq Nat /\ stored' = stored \cup {frame}
    BY ReservedAssumption DEF TypeOK, Publish
<1>3. ASSUME rpc[q] # "closed"
      PROVE  /\ Within(i, c)'
             /\ \A f \in stored' : f <= last[q] \/ f >= NextStamp(i)'
  <2>1. reserved_reader = q /\ q # NoReader
    BY <1>0, <1>3, ReservedAssumption DEF ReservedInv
  <2>2. i # advance_index(index_in)
    BY <1>1, <2>1 DEF Blocked
  <2>3. Within(i, c) /\ Reached(i, c)
    BY <1>1, <1>3 DEF ReservedInv, ReaderInv
  <2>4. Within(i, c)'
    BY <2>2, <2>3, PublishPosition
  <2>5. NextStamp(i)' = NextStamp(i)
    BY <2>2, PublishStamp
  <2>6. NextStamp(i) <= frame
    BY <1>0 DEF NextStamp, FramesInOrder
  <2>7. \A f \in stored : f <= last[q] \/ f >= NextStamp(i)
    BY <1>1, <1>3 DEF ReservedInv
  <2> QED
    BY <1>0, <2>4, <2>5, <2>6, <2>7
<1> QED
    BY <1>1, <1>2, <1>3 DEF ReservedInv, Within, NextStamp

\* A gap raises the stamp the current slot will have and marks the slot.
LEMMA GapStamp ==
    ASSUME TypeOK, MarkGap, frame' = frame + 1, NEW s \in Slots
    PROVE  /\ s # index_in => NextStamp(s)' = NextStamp(s) /\ gap'[s] = gap[s]
           /\ s = index_in =>
                /\ NextStamp(s)' = frame + 1
                /\ NextStamp(s) = frame
                /\ gap'[s]
    BY DEF TypeOK, MarkGap, NextStamp

LEMMA GapOrder ==
    ASSUME TypeOK, FramesInOrder, MarkGap, frame' = frame + 1
    PROVE  FramesInOrder'
<1>1. /\ index_in' = index_in /\ cycle_count' = cycle_count
      /\ timestamp' = timestamp /\ stored' = stored
      /\ frame \in Nat /\ stored \subseteq Nat /\ timestamp \in [Slots -> Nat]
    BY DEF TypeOK, MarkGap
<1>2. \A f \in stored' : f < frame'
    BY <1>1 DEF FramesInOrder
<1> SUFFICES ASSUME NEW s \in Slots
             PROVE  /\ s # index_in' => timestamp'[s] < frame'
                    /\ Written(s)' =>
                         LET next == advance_index(s) IN
                         /\ timestamp'[s] \in stored'
                         /\ timestamp'[s] < NextStamp(next)'
                         /\ gap'[next] \/ NextStamp(next)' = timestamp'[s] + 1
                         /\ \A f \in stored' :
                                f <= timestamp'[s] \/ f >= NextStamp(next)'
    BY <1>2 DEF FramesInOrder
<1>3. PICK next \in Slots : next = advance_index(s)
    BY AdvanceInRing
<1>4. s # index_in' => timestamp'[s] < frame'
    BY <1>1 DEF FramesInOrder
<1>5. ASSUME Written(s)'
      PROVE  /\ timestamp[s] \in stored
             /\ timestamp[s] < NextStamp(next)
             /\ gap[next] \/ NextStamp(next) = timestamp[s] + 1
             /\ \A f \in stored : f <= timestamp[s] \/ f >= NextStamp(next)
    BY <1>1, <1>3, <1>5 DEF FramesInOrder, Written
<1>6. CASE next = index_in
  <2>1. NextStamp(next)' = frame + 1 /\ NextStamp(next) = frame /\ gap'[next]
    BY <1>6, GapStamp
  <2>2. \A f \in stored : f < frame
    BY DEF FramesInOrder
  <2>3. ASSUME Written(s)', NEW f \in stored
        PROVE  f <= timestamp[s]
    BY <1>1, <1>5, <2>1, <2>2, <2>3
  <2> QED
    BY <1>1, <1>3, <1>4, <1>5, <2>1, <2>3
<1>7. CASE next # index_in
  <2>1. NextStamp(next)' = NextStamp(next) /\ gap'[next] = gap[next]
    BY <1>7, GapStamp
  <2> QED
    BY <1>1, <1>3, <1>4, <1>5, <2>1
<1> QED
    BY <1>6, <1>7

LEMMA GapReader ==
    ASSUME TypeOK, FramesInOrder, NEW q \in Readers, ReaderInv(q),
           MarkGap, frame' = frame + 1, ReaderUnchanged(q)
    PROVE  ReaderInv(q)'
<1>1. PICK i \in Slots, c \in Nat, si \in Slots, sc \in Nat :
        /\ i = index_out[q] /\ c = rcycle[q]
        /\ si = snap_index[q] /\ sc = snap_cycle[q]
    BY DEF TypeOK
<1>2. /\ i = index_out'[q] /\ c = rcycle'[q]
      /\ si = snap_index'[q] /\ sc = snap_cycle'[q]
      /\ rpc'[q] = rpc[q] /\ gap_reported'[q] = gap_reported[q]
      /\ held'[q] = held[q] /\ copied'[q] = copied[q]
      /\ last'[q] = last[q] /\ cont'[q] = cont[q]
      /\ ReleasedOk(q)' <=> ReleasedOk(q)
    BY <1>1 DEF ReaderUnchanged, ReleasedOk, check_underflow
<1>0. /\ last[q] \in Nat /\ frame \in Nat /\ stored' = stored
      /\ index_in' = index_in /\ cycle_count' = cycle_count
      /\ timestamp' = timestamp /\ timestamp \in [Slots -> Nat]
    BY DEF TypeOK, MarkGap
<1>3. HeldBlock(q)' <=> HeldBlock(q)
    BY <1>0, <1>2 DEF HeldBlock
<1>4. ASSUME rpc[q] # "closed"
      PROVE  /\ Reached(i, c)'
             /\ last'[q] < frame'
             /\ gap_reported'[q] => ~cont'[q]
    BY <1>0, <1>1, <1>2, <1>4 DEF ReaderInv, Reached
<1>5. ASSUME rpc[q] \in {"ready", "waiting"} PROVE ReaderAtRest(q)'
  <2>1. ReaderAtRest(q) /\ last[q] < frame
    BY <1>1, <1>5 DEF ReaderInv
  <2>2. CASE i = index_in
    BY <1>0, <1>1, <1>2, <2>1, <2>2, GapStamp
    DEF ReaderAtRest, Within, NextStamp
  <2>3. CASE i # index_in
    BY <1>0, <1>1, <1>2, <2>1, <2>3, GapStamp
    DEF ReaderAtRest, Within, NextStamp
  <2> QED
    BY <2>2, <2>3
<1>6. ASSUME rpc[q] = "got" PROVE ReaderHolds(q)'
    BY <1>0, <1>1, <1>2, <1>3, <1>6 DEF ReaderInv, ReaderHolds, Within, AtLap
<1>7. ASSUME rpc[q] = "snapped" PROVE ReaderReleases(q)'
  <2>1. ReaderReleases(q) /\ last[q] < frame
    BY <1>7 DEF ReaderInv
  <2>2. last[q] < NextStamp(si) => last[q] < NextStamp(si)'
    BY <1>0, <2>1, GapStamp
  <2> QED
    BY <1>0, <1>1, <1>2, <1>3, <2>1, <2>2
    DEF ReaderReleases, Within, AtLap, Reached, NextStamp
<1>8. rpc[q] = "closed" => copied'[q] = {}
    BY <1>2 DEF ReaderInv
<1> QED
    BY <1>1, <1>2, <1>4, <1>5, <1>6, <1>7, <1>8 DEF ReaderInv, Reached

LEMMA GapReserved ==
    ASSUME TypeOK, FramesInOrder, NEW q \in Reserved, ReservedInv(q),
           MarkGap, frame' = frame + 1, ReaderUnchanged(q),
           UNCHANGED reserved_reader
    PROVE  ReservedInv(q)'
<1>1. PICK i \in Slots, c \in Nat : i = index_out[q] /\ c = rcycle[q]
    BY ReservedAssumption DEF TypeOK
<1>2. /\ i = index_out'[q] /\ c = rcycle'[q]
      /\ rpc'[q] = rpc[q] /\ last'[q] = last[q]
      /\ ReleasedOk(q)' <=> ReleasedOk(q)
    BY <1>1 DEF ReaderUnchanged, ReleasedOk, check_underflow
<1>0. /\ frame \in Nat /\ stored' = stored /\ stored \subseteq Nat
      /\ index_in' = index_in /\ cycle_count' = cycle_count
      /\ last[q] \in Nat
    BY ReservedAssumption DEF TypeOK, MarkGap
<1>3. ASSUME rpc[q] # "closed", NEW f \in stored
      PROVE  f <= last[q] \/ f >= NextStamp(i)'
  <2>1. f <= last[q] \/ f >= NextStamp(i)
    BY <1>1, <1>3 DEF ReservedInv
  <2>2. f < frame
    BY DEF FramesInOrder
  <2>3. CASE i = index_in
    BY <1>0, <2>1, <2>2, <2>3, GapStamp
  <2>4. CASE i # index_in
    BY <2>1, <2>4, GapStamp
  <2> QED
    BY <2>3, <2>4
<1> QED
    BY <1>0, <1>1, <1>2, <1>3 DEF ReservedInv, Within, NextStamp

\* The lock section of release_write_block as a whole.
LEMMA ReleaseWriteInv ==
    ASSUME IInv, release_write_block PROVE IInv'
<1>1. /\ TypeOK /\ BlocksWhole /\ FramesInOrder /\ TypeOK'
      /\ \A q \in Readers : ReaderInv(q)
      /\ \A q \in Reserved : ReservedInv(q)
    BY WriterTypes DEF IInv, WriterNext
<1>2. /\ frame' = frame + 1 /\ wpc' = "idle" /\ UNCHANGED data
      /\ UNCHANGED reserved_reader /\ pbroadcast
      /\ \A q \in Readers : ReaderUnchanged(q)
    BY DEF release_write_block, ReaderUnchanged, position, block
<1>3. NoLostWakeup'
    BY <1>2 DEF NoLostWakeup, pbroadcast, ReaderUnchanged
<1>4. CASE MarkGap
  <2>1. BlocksWhole'
    BY <1>1, <1>2, <1>4 DEF BlocksWhole, MarkGap
  <2>2. LossMarked'
    BY <1>1, <1>4 DEF LossMarked, MarkGap, TypeOK
  <2> QED
    BY <1>1, <1>2, <1>3, <1>4, <2>1, <2>2, ReservedAssumption,
       GapOrder, GapReader, GapReserved DEF IInv
<1>5. CASE wpc = "publishing" /\ ~Blocked /\ Publish
    BY <1>1, <1>2, <1>3, <1>5, ReservedAssumption,
       PublishBlocks, PublishOrder, PublishLoss, PublishReader,
       PublishReserved DEF IInv
<1> QED
    BY <1>4, <1>5 DEF release_write_block

LEMMA FillInv ==
    ASSUME IInv, get_write_block \/ \E ok \in BOOLEAN : StartRelease(ok)
    PROVE  IInv'
<1>1. TypeOK /\ TypeOK' /\ index_in \in Slots
    BY WriterTypes DEF IInv, WriterNext, TypeOK
<1>2. UNCHANGED <<index_in, cycle_count, gap, timestamp, frame, stored,
                  reserved_reader, signalled>>
    BY DEF get_write_block, StartRelease, ring, told
<1>3. \A q \in Readers : ReaderUnchanged(q)
    BY DEF get_write_block, StartRelease, ReaderUnchanged, position, block,
        told
<1>4. BlocksWhole'
  <2>1. \A s \in Slots : s # index_in => data'[s] = data[s]
    BY <1>1 DEF get_write_block, StartRelease, TypeOK
  <2>2. wpc' = "publishing" => data'[index_in] = {frame}
    BY <1>1 DEF get_write_block, StartRelease, TypeOK
  <2> QED
    BY <1>2, <2>1, <2>2 DEF BlocksWhole, IInv
<1>5. FramesInOrder' /\ LossMarked'
    BY <1>2 DEF IInv, FramesInOrder, LossMarked, Newest, Written, NextStamp
<1>6. \A q \in Readers : ReaderInv(q)'
    BY <1>2, <1>3
    DEF IInv, ReaderInv, ReaderAtRest, ReaderHolds, ReaderReleases, HeldBlock,
        Reached, Within, AtLap, NextStamp, ReleasedOk, check_underflow,
        ReaderUnchanged
<1>7. \A q \in Reserved : ReservedInv(q)'
    BY <1>2, <1>3, ReservedAssumption
    DEF IInv, ReservedInv, Within, NextStamp, ReleasedOk, check_underflow,
        ReaderUnchanged
<1>8. NoLostWakeup'
    BY <1>2, <1>3 DEF IInv, NoLostWakeup, MustWait, ReaderUnchanged
<1> QED
    BY <1>1, <1>4, <1>5, <1>6, <1>7, <1>8 DEF IInv

-----------------------------------------------------------------------------
(* The readers keep the invariant. *)

\* A step of reader r: the ring is as it was and so are the other readers, so
\* that only r has to be looked at.
LEMMA ReaderStep ==
    ASSUME IInv, NEW r \in Readers, TypeOK',
           RingUnchanged,
           \A q \in Readers \ {r} :
                /\ ReaderUnchanged(q)
                /\ signalled[q] => signalled'[q],
           \A q \in Reserved \ {r} : reserved_reader' = q <=> reserved_reader = q,
           ReaderInv(r)',
           r \in Reserved => ReservedInv(r)',
           rpc'[r] = "waiting" /\ ~MustWait(r)' => signalled'[r]
    PROVE  IInv'
<1>1. BlocksWhole' /\ FramesInOrder' /\ LossMarked'
    BY DEF IInv, RingUnchanged, BlocksWhole, FramesInOrder, LossMarked, Newest,
        Written, NextStamp
<1>2. ASSUME NEW q \in Readers \ {r} PROVE ReaderInv(q)'
    BY DEF IInv, ReaderInv, ReaderAtRest, ReaderHolds, ReaderReleases,
        HeldBlock, Reached, Within, AtLap, NextStamp, ReleasedOk,
        check_underflow, ReaderUnchanged, RingUnchanged
<1>3. ASSUME NEW q \in Reserved \ {r} PROVE ReservedInv(q)'
    BY ReservedAssumption
    DEF IInv, ReservedInv, Within, NextStamp, ReleasedOk, check_underflow,
        ReaderUnchanged, RingUnchanged
<1>4. NoLostWakeup'
    BY DEF IInv, NoLostWakeup, MustWait, ReaderUnchanged, RingUnchanged
<1> QED
    BY <1>1, <1>2, <1>3, <1>4 DEF IInv

LEMMA OpenInv ==
    ASSUME IInv, NEW r \in Readers, open_reader(r) PROVE IInv'
<1>1. TypeOK /\ TypeOK' /\ index_in \in Slots /\ cycle_count \in Nat
      /\ frame \in Nat \ {0}
    BY ReaderTypes DEF IInv, ReaderNext, TypeOK
<1>2. /\ RingUnchanged
      /\ \A q \in Readers \ {r} :
            ReaderUnchanged(q) /\ (signalled[q] => signalled'[q])
    BY <1>1 DEF open_reader, RingUnchanged, ReaderUnchanged, writer, block,
        TypeOK
<1>3. \A q \in Reserved \ {r} : reserved_reader' = q <=> reserved_reader = q
    BY ReservedAssumption DEF open_reader, IInv, ReservedInv
<1>0. PICK n \in stored \cup {0} :
            Newest(n) /\ last' = [last EXCEPT ![r] = n]
    BY DEF open_reader
<1>4. /\ rpc'[r] = "ready" /\ index_out'[r] = index_in
      /\ rcycle'[r] = cycle_count /\ last'[r] = n
      /\ ~gap_reported'[r] /\ copied'[r] = copied[r]
    BY <1>0, <1>1 DEF open_reader, TypeOK, block
<1>5. copied[r] = {}
    BY DEF IInv, ReaderInv, open_reader
<1>6. PICK i \in Slots, c \in Nat, f \in Nat :
            i = index_in /\ c = cycle_count /\ f = frame
    BY <1>1
<1>7. /\ index_in' = i /\ cycle_count' = c /\ frame' = f /\ gap' = gap
      /\ index_out'[r] = i /\ rcycle'[r] = c /\ last'[r] = n
      /\ stored' = stored
    BY <1>1, <1>2, <1>4, <1>6 DEF RingUnchanged
<1>10. n < f /\ (gap[i] \/ f = n + 1)
    BY <1>0, <1>1, <1>6 DEF IInv, FramesInOrder, LossMarked
<1>8. ReaderInv(r)'
  <2>1. Reached(index_out[r], rcycle[r])' /\ last'[r] < frame'
    BY BlockCountAssumption, <1>6, <1>7, <1>10 DEF Reached, Slots
  <2>2. ReaderAtRest(r)'
    BY <1>4, <1>5, <1>7, <1>10 DEF ReaderAtRest, NextStamp
  <2> QED
    BY <1>4, <2>1, <2>2 DEF ReaderInv
<1>9. ASSUME r \in Reserved PROVE ReservedInv(r)'
  <2>1. \A g \in stored : g <= n
    BY <1>0 DEF Newest
  <2>2. reserved_reader' = r
    BY <1>9 DEF open_reader
  <2>3. Within(index_out[r], rcycle[r])'
    BY BlockCountAssumption, <1>6, <1>7 DEF Within, Slots
  <2> QED
    BY <1>4, <1>6, <1>7, <2>1, <2>2, <2>3 DEF ReservedInv
<1> QED
    BY <1>1, <1>2, <1>3, <1>4, <1>8, <1>9, ReaderStep

LEMMA CloseInv ==
    ASSUME IInv, NEW r \in Readers, close_reader(r) PROVE IInv'
<1>1. TypeOK /\ TypeOK'
    BY ReaderTypes DEF IInv, ReaderNext
<1>2. /\ RingUnchanged
      /\ \A q \in Readers \ {r} :
            ReaderUnchanged(q) /\ (signalled[q] => signalled'[q])
    BY <1>1 DEF close_reader, RingUnchanged, ReaderUnchanged, writer, block,
        TypeOK
<1>3. r # NoReader /\ \A q \in Reserved : q # NoReader
    BY ReservedAssumption
<1>4. \A q \in Reserved \ {r} : reserved_reader' = q <=> reserved_reader = q
    BY <1>3 DEF close_reader
<1>5. rpc'[r] = "closed" /\ copied'[r] = copied[r] /\ reserved_reader' # r
    BY <1>1, <1>3 DEF close_reader, TypeOK, block
<1>6. copied[r] = {}
    BY DEF IInv, ReaderInv, ReaderAtRest, close_reader
<1>7. ReaderInv(r)' /\ ReservedInv(r)'
    BY <1>5, <1>6 DEF ReaderInv, ReservedInv
<1> QED
    BY <1>1, <1>2, <1>4, <1>5, <1>7, ReaderStep

\* The rest of get_read_block once the wait is over, whatever ended it.
LEMMA FinishGetInv ==
    ASSUME IInv, NEW r \in Readers, rpc[r] \in {"ready", "waiting"},
           FinishGet(r),
           signalled' = [signalled EXCEPT ![r] = FALSE]
    PROVE  IInv'
<1>1. TypeOK /\ TypeOK'
    BY FinishGetTypes DEF IInv, TypeOK
<1>2. /\ RingUnchanged /\ reserved_reader' = reserved_reader
      /\ \A q \in Readers \ {r} :
            ReaderUnchanged(q) /\ (signalled[q] => signalled'[q])
  <2>1. ASSUME NEW q \in Readers \ {r}
        PROVE  /\ rpc'[q] = rpc[q] /\ gap_reported'[q] = gap_reported[q]
               /\ held'[q] = held[q] /\ cont'[q] = cont[q]
               /\ signalled'[q] = signalled[q]
    BY <1>1 DEF FinishGet, TypeOK
  <2> QED
    BY <2>1 DEF FinishGet, RingUnchanged, ReaderUnchanged, ring, writer,
        position
<1>3. PICK i \in Slots, c \in Nat : i = index_out[r] /\ c = rcycle[r]
    BY <1>1 DEF TypeOK
<1>4. /\ i = index_out'[r] /\ c = rcycle'[r] /\ last'[r] = last[r]
      /\ copied'[r] = copied[r]
      /\ index_in' = index_in /\ cycle_count' = cycle_count
      /\ timestamp' = timestamp /\ frame' = frame /\ gap' = gap
      /\ stored' = stored
    BY <1>3 DEF FinishGet, ring, writer, position
<1>5. /\ Reached(i, c) /\ last[r] < frame /\ ReaderAtRest(r)
      /\ gap_reported[r] => ~cont[r]
    BY <1>3 DEF IInv, ReaderInv
<1>6. CASE ReturnsNull(r)
  <2>1. rpc'[r] = "ready" /\ ~cont'[r]
    BY <1>1, <1>6 DEF FinishGet, TypeOK
  <2>2. ReaderInv(r)'
    <3>1. Reached(index_out[r], rcycle[r])' /\ last'[r] < frame'
        BY <1>4, <1>5 DEF Reached
    <3>2. ReaderAtRest(r)'
        BY <1>3, <1>4, <1>5, <2>1 DEF ReaderAtRest, Within, NextStamp
    <3> QED
        BY <2>1, <3>1, <3>2 DEF ReaderInv
  <2>3. r \in Reserved => ReservedInv(r)'
    BY <1>2, <1>3, <1>4, <2>1 DEF IInv, ReservedInv, Within, NextStamp
  <2> QED
    BY <1>1, <1>2, <2>1, <2>2, <2>3, ReaderStep
<1>7. CASE ~ReturnsNull(r)
  <2>1. /\ rpc'[r] = "got" /\ held'[r] = timestamp[i] /\ cont'[r] = cont[r]
    BY <1>1, <1>3, <1>7 DEF FinishGet, TypeOK
  <2>2. /\ i # index_in
        /\ gap[i] => gap_reported[r]
    BY <1>3, <1>7 DEF ReturnsNull
  <2>3. ~gap_reported'[r]
    BY <1>1, <1>7 DEF FinishGet, TypeOK
  <2>4. ~AtLap(i, c) /\ NextStamp(i) = timestamp[i]
    BY <2>2 DEF AtLap, NextStamp
  <2>5. ASSUME Within(i, c)
        PROVE  /\ timestamp[i] \in stored
               /\ timestamp[i] > last[r]
               /\ cont[r] => timestamp[i] = last[r] + 1
    <3>1. Written(i)
        BY <1>1, <2>2, <2>5, BlockCountAssumption
        DEF Within, Written, Slots, TypeOK
    <3>2. timestamp[i] \in stored
        BY <3>1 DEF IInv, FramesInOrder
    <3>3. last[r] < timestamp[i]
        BY <1>3, <1>5, <2>4, <2>5 DEF ReaderAtRest
    <3>4. ASSUME cont[r] PROVE timestamp[i] = last[r] + 1
        BY <1>3, <1>5, <2>2, <2>4, <2>5, <3>4 DEF ReaderAtRest
    <3>5. timestamp[i] \in Nat /\ last[r] \in Nat
        BY <1>1 DEF TypeOK
    <3> QED
        BY <3>2, <3>3, <3>4, <3>5
  <2>6. ReaderInv(r)'
    <3>1. Reached(index_out[r], rcycle[r])' /\ last'[r] < frame'
        BY <1>4, <1>5 DEF Reached
    <3>2. Within(i, c) => HeldBlock(r)'
        BY <1>4, <2>1, <2>5 DEF HeldBlock
    <3>3. copied'[r] = {}
        BY <1>4, <1>5 DEF ReaderAtRest
    <3>4. ReaderHolds(r)'
        BY <1>4, <2>1, <2>2, <2>3, <2>4, <3>2, <3>3
        DEF ReaderHolds, Within, AtLap
    <3> QED
        BY <2>1, <2>3, <3>1, <3>4 DEF ReaderInv
  <2>7. r \in Reserved => ReservedInv(r)'
    BY <1>2, <1>3, <1>4, <1>5, <2>1, ReservedAssumption
    DEF IInv, ReservedInv, Within, NextStamp
  <2> QED
    BY <1>1, <1>2, <2>1, <2>6, <2>7, ReaderStep
<1> QED
    BY <1>6, <1>7

LEMMA StartWaitInv ==
    ASSUME IInv, NEW r \in Readers, rpc[r] \in {"ready", "waiting"},
           StartWait(r), MustWait(r),
           signalled' = [signalled EXCEPT ![r] = FALSE]
    PROVE  IInv'
<1>1. TypeOK /\ TypeOK'
    BY StartWaitTypes DEF IInv, TypeOK
<1>2. /\ RingUnchanged /\ reserved_reader' = reserved_reader
      /\ \A q \in Readers \ {r} :
            ReaderUnchanged(q) /\ (signalled[q] => signalled'[q])
    BY <1>1 DEF StartWait, RingUnchanged, ReaderUnchanged, ring, writer,
        position, block, told, TypeOK
<1>3. rpc'[r] = "waiting" /\ MustWait(r)'
    BY <1>1 DEF StartWait, MustWait, TypeOK, ring, position
<1>4. UNCHANGED <<ring, frame, gap_reported, position, block, told>>
    BY DEF StartWait, writer
<1>5. ReaderInv(r)'
    BY <1>3, <1>4 DEF IInv, ReaderInv, ReaderAtRest, Reached, Within,
        NextStamp, ring, position, block, told
<1>6. r \in Reserved => ReservedInv(r)'
    BY <1>3, <1>4 DEF IInv, ReservedInv, Within, NextStamp, ring, position,
        told
<1> QED
    BY <1>1, <1>2, <1>3, <1>5, <1>6, ReaderStep

LEMMA GetInv ==
    ASSUME IInv, NEW r \in Readers, get_read_block(r) \/ Wake(r) \/ Timeout(r)
    PROVE  IInv'
<1>1. /\ rpc[r] \in {"ready", "waiting"}
      /\ signalled' = [signalled EXCEPT ![r] = FALSE]
      /\ FinishGet(r) \/ (MustWait(r) /\ StartWait(r))
    BY DEF get_read_block, Wake, Timeout
<1> QED
    BY <1>1, FinishGetInv, StartWaitInv

LEMMA ReadBytesInv ==
    ASSUME IInv, NEW r \in Readers, ReadBytes(r) PROVE IInv'
<1>1. TypeOK /\ TypeOK'
    BY ReaderTypes DEF IInv, ReaderNext
<1>2. /\ RingUnchanged /\ reserved_reader' = reserved_reader
      /\ \A q \in Readers \ {r} :
            ReaderUnchanged(q) /\ (signalled[q] => signalled'[q])
    BY <1>1 DEF ReadBytes, RingUnchanged, ReaderUnchanged, ring, writer,
        position, told, TypeOK
<1>3. PICK i \in Slots, c \in Nat : i = index_out[r] /\ c = rcycle[r]
    BY <1>1 DEF TypeOK
<1>4. /\ i = index_out'[r] /\ c = rcycle'[r] /\ rpc'[r] = "got"
      /\ copied'[r] = copied[r] \cup data[i]
    BY <1>1, <1>3 DEF ReadBytes, position, TypeOK
<1>5. /\ UNCHANGED <<ring, frame, gap_reported, held, last, cont, stored>>
      /\ rpc[r] = "got"
    BY DEF ReadBytes, writer, told
<1>6. ReaderHolds(r)
    BY <1>5 DEF IInv, ReaderInv
<1>7. ASSUME Within(i, c) PROVE copied'[r] \subseteq {held[r]}
  <2>1. i # index_in /\ copied[r] \subseteq {held[r]} /\ timestamp[i] = held[r]
    BY <1>3, <1>6, <1>7 DEF ReaderHolds
  <2>2. data[i] = {timestamp[i]}
    BY <2>1 DEF IInv, BlocksWhole
  <2> QED
    BY <1>4, <2>1, <2>2
<1>8. ReaderHolds(r)'
    BY <1>3, <1>4, <1>5, <1>6, <1>7
    DEF ReaderHolds, HeldBlock, Within, AtLap, ring
<1>9. ReaderInv(r)'
    BY <1>3, <1>4, <1>5, <1>8 DEF IInv, ReaderInv, Reached, ring
<1>10. r \in Reserved => ReservedInv(r)'
    BY <1>3, <1>4, <1>5 DEF IInv, ReservedInv, Within, NextStamp, ring
<1> QED
    BY <1>1, <1>2, <1>4, <1>9, <1>10, ReaderStep

LEMMA TakeSnapshotInv ==
    ASSUME IInv, NEW r \in Readers, TakeSnapshot(r) PROVE IInv'
<1>1. TypeOK /\ TypeOK'
    BY ReaderTypes DEF IInv, ReaderNext
<1>2. /\ RingUnchanged /\ reserved_reader' = reserved_reader
      /\ \A q \in Readers \ {r} :
            ReaderUnchanged(q) /\ (signalled[q] => signalled'[q])
    BY <1>1 DEF TakeSnapshot, RingUnchanged, ReaderUnchanged, ring, writer,
        position, told, TypeOK
<1>3. PICK i \in Slots, c \in Nat, j \in Slots, d \in Nat :
        /\ i = index_out[r] /\ c = rcycle[r]
        /\ j = index_in /\ d = cycle_count
    BY <1>1 DEF TypeOK
<1>4. /\ i = index_out'[r] /\ c = rcycle'[r]
      /\ j = snap_index'[r] /\ d = snap_cycle'[r]
      /\ j = index_in' /\ d = cycle_count'
      /\ rpc'[r] = "snapped" /\ rpc[r] = "got"
    BY <1>1, <1>3 DEF TakeSnapshot, ring, position, TypeOK
<1>5. UNCHANGED <<ring, frame, gap_reported, held, copied, told>>
    BY DEF TakeSnapshot, writer
<1>6. ReaderHolds(r) /\ Reached(i, c) /\ last[r] < frame
    BY <1>3, <1>4 DEF IInv, ReaderInv
<1>7. ReleasedOk(r)' <=> Within(i, c) /\ i # j
    BY <1>3, <1>4, BlockCountAssumption
    DEF ReleasedOk, check_underflow, Within, Slots
<1>8. ReaderReleases(r)'
  <2>1. Reached(snap_index[r], snap_cycle[r])'
    BY <1>3, <1>4, BlockCountAssumption DEF Reached, Slots
  <2>2. last'[r] < NextStamp(snap_index[r])'
    BY <1>4, <1>5, <1>6 DEF NextStamp, told
  <2>3. Within(i, c) =>
            /\ copied[r] \subseteq {held[r]}
            /\ HeldBlock(r)
            /\ timestamp[i] = held[r]
    BY <1>3, <1>6 DEF ReaderHolds
  <2>4. HeldBlock(r)' <=> HeldBlock(r)
    BY <1>5 DEF HeldBlock, told
  <2>5. ~gap_reported'[r]
    BY <1>5, <1>6 DEF ReaderHolds
  <2>6. ReleasedOk(r)' =>
            /\ copied'[r] \subseteq {held'[r]}
            /\ HeldBlock(r)'
            /\ timestamp'[i] = held'[r]
    BY <1>5, <1>7, <2>3, <2>4 DEF ring
  <2> QED
    BY <1>4, <2>1, <2>2, <2>5, <2>6 DEF ReaderReleases
<1>9. ReaderInv(r)'
    BY <1>3, <1>4, <1>5, <1>8 DEF IInv, ReaderInv, Reached, ring, told
<1>10. ASSUME r \in Reserved PROVE ReservedInv(r)'
  <2>1. Within(i, c) /\ i # j
    BY <1>3, <1>4, <1>6, <1>10 DEF IInv, ReservedInv, ReaderHolds
  <2> QED
    BY <1>3, <1>4, <1>5, <1>7, <1>10, <2>1
    DEF IInv, ReservedInv, Within, NextStamp, ring, told
<1> QED
    BY <1>1, <1>2, <1>4, <1>9, <1>10, ReaderStep

\* Advancing from a position that is strictly behind the snapshot.
LEMMA AdvancePosition ==
    ASSUME TypeOK, NEW r \in Readers, ReleasedOk(r),
           Reached(snap_index[r], snap_cycle[r]),
           NEW i \in Slots, NEW c \in Nat, i = index_out[r], c = rcycle[r],
           NEW n \in Slots, n = advance_index(i),
           NEW d \in Nat, d = IF n = 0 THEN c + 1 ELSE c
    PROVE  /\ Reached(n, d)
           /\ Within(n, d) => Within(i, c) \/ AtLap(i, c)
           /\ Within(i, c) => Within(n, d)
<1>1. /\ index_in \in Slots /\ cycle_count \in Nat
      /\ snap_index[r] \in Slots /\ snap_cycle[r] \in Nat
    BY DEF TypeOK
<1>2. \/ snap_index[r] > i /\ snap_cycle[r] = c
      \/ snap_index[r] < i /\ snap_cycle[r] = c + 1
    BY DEF ReleasedOk, check_underflow
<1> QED
    BY <1>1, <1>2, BlockCountAssumption
    DEF Reached, Within, AtLap, advance_index, Slots

LEMMA ReleaseInv ==
    ASSUME IInv, NEW r \in Readers, Release(r) PROVE IInv'
<1>1. TypeOK /\ TypeOK'
    BY ReaderTypes DEF IInv, ReaderNext
<1>2. /\ RingUnchanged /\ reserved_reader' = reserved_reader
      /\ \A q \in Readers \ {r} :
            ReaderUnchanged(q) /\ (signalled[q] => signalled'[q])
  <2>1. ASSUME NEW q \in Readers \ {r}
        PROVE  /\ index_out'[q] = index_out[q] /\ rcycle'[q] = rcycle[q]
               /\ gap_reported'[q] = gap_reported[q]
               /\ last'[q] = last[q] /\ cont'[q] = cont[q]
    BY <1>1 DEF Release, TypeOK
  <2>2. ASSUME NEW q \in Readers \ {r}
        PROVE  /\ rpc'[q] = rpc[q] /\ held'[q] = held[q]
               /\ copied'[q] = copied[q] /\ signalled'[q] = signalled[q]
               /\ snap_index'[q] = snap_index[q]
               /\ snap_cycle'[q] = snap_cycle[q]
               /\ running'[q] = running[q]
    BY <1>1 DEF Release, TypeOK
  <2> QED
    BY <2>1, <2>2 DEF Release, RingUnchanged, ReaderUnchanged, ring, writer
<1>3. PICK i \in Slots, c \in Nat, si \in Slots, sc \in Nat :
        /\ i = index_out[r] /\ c = rcycle[r]
        /\ si = snap_index[r] /\ sc = snap_cycle[r]
    BY <1>1 DEF TypeOK
<1>4. /\ rpc[r] = "snapped" /\ rpc'[r] = "ready" /\ copied'[r] = {}
      /\ UNCHANGED <<ring, frame, stored>>
    BY <1>1 DEF Release, writer, TypeOK
<1>5. /\ ReaderReleases(r) /\ last[r] < frame /\ Reached(si, sc)
    BY <1>3, <1>4 DEF IInv, ReaderInv, ReaderReleases
<1>6. CASE ReleasedOk(r)
  <2>1. PICK n \in Slots, d \in Nat :
            n = advance_index(i) /\ d = IF n = 0 THEN c + 1 ELSE c
    BY AdvanceInRing
  <2>2. /\ index_out'[r] = n /\ rcycle'[r] = d
        /\ last'[r] = held[r] /\ cont'[r]
        /\ gap_reported'[r] = gap_reported[r]
    BY <1>1, <1>3, <1>6, <2>1 DEF Release, TypeOK
  <2>3. /\ Reached(n, d)
        /\ Within(n, d) => Within(i, c) \/ AtLap(i, c)
        /\ Within(i, c) => Within(n, d)
    BY <1>1, <1>3, <1>5, <1>6, <2>1, AdvancePosition
  <2>4. held[r] \in stored /\ ~gap_reported[r]
        /\ (Within(i, c) \/ AtLap(i, c) => timestamp[i] = held[r])
    BY <1>3, <1>5, <1>6 DEF ReaderReleases, HeldBlock
  <2>5. Written(i)
    BY <1>1, <1>3, <1>5, <1>6, SnapshotAhead
  <2>6. ASSUME Within(n, d)
        PROVE  /\ held[r] < NextStamp(n)
               /\ gap[n] \/ NextStamp(n) = held[r] + 1
               /\ \A f \in stored : f <= held[r] \/ f >= NextStamp(n)
    BY <2>1, <2>3, <2>4, <2>5, <2>6 DEF IInv, FramesInOrder
  <2>7. ReaderInv(r)'
    <3>1. Reached(index_out[r], rcycle[r])' /\ last'[r] < frame'
        BY <1>4, <2>2, <2>3, <2>4 DEF Reached, ring, IInv, FramesInOrder
    <3>2. ReaderAtRest(r)'
        BY <1>4, <2>2, <2>6 DEF ReaderAtRest, Within, NextStamp, ring
    <3> QED
        BY <1>4, <2>2, <2>4, <3>1, <3>2 DEF ReaderInv
  <2>8. ASSUME r \in Reserved PROVE ReservedInv(r)'
    <3>1. Within(i, c) /\ reserved_reader = r
        BY <1>3, <1>4, <2>8 DEF IInv, ReservedInv
    <3>2. \A f \in stored : f <= held[r] \/ f >= NextStamp(n)
        BY <2>3, <2>6, <3>1
    <3> QED
        BY <1>2, <1>4, <2>2, <2>3, <3>1, <3>2
        DEF ReservedInv, Within, NextStamp, ring
  <2> QED
    BY <1>1, <1>2, <1>4, <2>7, <2>8, ReaderStep
<1>7. CASE ~ReleasedOk(r)
  <2>1. /\ index_out'[r] = si /\ rcycle'[r] = sc /\ ~cont'[r]
        /\ ~gap_reported'[r]
    BY <1>1, <1>3, <1>7 DEF Release, TypeOK
  <2>2. last'[r] = last[r]
    BY <1>7 DEF Release
  <2>3. ReaderInv(r)'
    <3>1. Reached(index_out[r], rcycle[r])' /\ last'[r] < frame'
        BY <1>4, <1>5, <2>1, <2>2 DEF Reached, ring
    <3>2. Within(si, sc) => last[r] < NextStamp(si)
        BY <1>3, <1>5 DEF ReaderReleases
    <3>3. ReaderAtRest(r)'
        BY <1>4, <2>1, <2>2, <3>2 DEF ReaderAtRest, Within, NextStamp, ring
    <3> QED
        BY <1>4, <2>1, <3>1, <3>3 DEF ReaderInv
  <2>4. r \notin Reserved
    BY <1>4, <1>7 DEF IInv, ReservedInv
  <2> QED
    BY <1>1, <1>2, <1>4, <2>3, <2>4, ReaderStep
<1> QED
    BY <1>6, <1>7

LEMMA InterruptInv ==
    ASSUME IInv, NEW r \in Readers, interrupt_reader(r) PROVE IInv'
<1>1. TypeOK /\ TypeOK'
    BY ReaderTypes DEF IInv, ReaderNext
<1>2. UNCHANGED <<ring, data, writer, rpc, gap_reported, position, block, told>>
    BY DEF interrupt_reader
<1>3. /\ RingUnchanged /\ reserved_reader' = reserved_reader
      /\ \A q \in Readers \ {r} :
            ReaderUnchanged(q) /\ (signalled[q] => signalled'[q])
  <2>1. \A q \in Readers \ {r} : running'[q] = running[q]
    BY <1>1 DEF interrupt_reader, TypeOK
  <2>2. \A q \in Readers : signalled[q] => signalled'[q]
    BY DEF interrupt_reader, pbroadcast
  <2> QED
    BY <1>2, <2>1, <2>2 DEF RingUnchanged, ReaderUnchanged, ring, writer,
        position, block, told
<1>4. rpc'[r] = "waiting" => signalled'[r]
    BY <1>2 DEF interrupt_reader, pbroadcast
<1>5. ReaderInv(r)'
    BY <1>2 DEF IInv, ReaderInv, ReaderAtRest, ReaderHolds, ReaderReleases,
        HeldBlock, Reached, Within, AtLap, NextStamp, ReleasedOk,
        check_underflow, ring, writer, position, block, told
<1>6. r \in Reserved => ReservedInv(r)'
    BY <1>2 DEF IInv, ReservedInv, Within, NextStamp, ReleasedOk,
        check_underflow, ring, writer, position, block, told
<1> QED
    BY <1>1, <1>3, <1>4, <1>5, <1>6, ReaderStep

-----------------------------------------------------------------------------
(* The theorems. *)

LEMMA InvInit == Init => IInv
<1> SUFFICES ASSUME Init PROVE IInv
    OBVIOUS
<1>1. TypeOK
    BY TypeInit
<1>2. BlocksWhole /\ FramesInOrder /\ LossMarked
    BY <1>1, BlockCountAssumption
    DEF Init, BlocksWhole, FramesInOrder, LossMarked, Written, Slots
<1>3. \A r \in Readers : ReaderInv(r)
    BY DEF Init, ReaderInv
<1>4. \A r \in Reserved : ReservedInv(r)
    BY ReservedAssumption DEF Init, ReservedInv
<1>5. NoLostWakeup
    BY DEF Init, NoLostWakeup
<1> QED
    BY <1>1, <1>2, <1>3, <1>4, <1>5 DEF IInv

LEMMA InvNext == IInv /\ [Next]_vars => IInv'
<1> SUFFICES ASSUME IInv, [Next]_vars PROVE IInv'
    OBVIOUS
<1>1. CASE WriterNext
    BY <1>1, FillInv, ReleaseWriteInv DEF WriterNext
<1>2. ASSUME NEW r \in Readers, ReaderNext(r) PROVE IInv'
    BY <1>2, OpenInv, CloseInv, GetInv, ReadBytesInv, TakeSnapshotInv,
       ReleaseInv, InterruptInv DEF ReaderNext
<1>3. CASE \/ \E enabled \in BOOLEAN : enable_buffer_write(enabled)
           \/ UNCHANGED vars
  <2>1. TypeOK'
    BY TypeNext DEF IInv
  <2>2. UNCHANGED <<ring, data, writer, rpc, running, gap_reported, position,
                    block, signalled, told>>
    BY <1>3 DEF enable_buffer_write, vars
  <2>3. BlocksWhole' /\ FramesInOrder' /\ LossMarked'
    BY <2>2 DEF IInv, BlocksWhole, FramesInOrder, LossMarked, Newest, Written,
        NextStamp, ring, writer, told
  <2>4. \A r \in Readers : ReaderInv(r)'
    BY <2>2 DEF IInv, ReaderInv, ReaderAtRest, ReaderHolds, ReaderReleases,
        HeldBlock, Reached, Within, AtLap, NextStamp, ReleasedOk,
        check_underflow, ring, writer, position, block, told
  <2>5. \A r \in Reserved : ReservedInv(r)'
    BY <2>2 DEF IInv, ReservedInv, Within, NextStamp, ReleasedOk,
        check_underflow, ring, writer, position, block, told
  <2>6. NoLostWakeup'
    BY <2>2 DEF IInv, NoLostWakeup, MustWait, ring, position
  <2> QED
    BY <2>1, <2>3, <2>4, <2>5, <2>6 DEF IInv
<1> QED
    BY <1>1, <1>2, <1>3 DEF Next

\* The inductive invariant of BufferInv: what the ring holds ahead of every
\* position the writer has not lapped, and what each reader knows at each point
\* of its loop.
THEOREM Invariance == Spec => []IInv
    BY InvInit, InvNext, PTL DEF Spec

\* Whenever release_read_block is about to return true, everything its caller
\* read of the block belongs to the frame whose timestamp it was given.
THEOREM ReleaseIsHonest == Spec => []CleanRelease
<1>1. IInv => CleanRelease
    BY DEF IInv, CleanRelease, ReaderInv, ReaderReleases
<1> QED
    BY <1>1, Invariance, PTL

\* release_read_block never reports an underflow to the reserved reader: the
\* writer makes a gap instead of overrunning it.
THEOREM ReservedIsSafe == Spec => []ReservedNeverUnderflows
<1>1. IInv => ReservedNeverUnderflows
    BY DEF IInv, ReservedNeverUnderflows, ReservedInv
<1> QED
    BY <1>1, Invariance, PTL

\* No reader sleeps in get_read_block through the event it waits for.
THEOREM WakeupsArrive == Spec => []NoLostWakeup
<1>1. IInv => NoLostWakeup
    BY DEF IInv
<1> QED
    BY <1>1, Invariance, PTL

-----------------------------------------------------------------------------
(* Cutting readers off. *)

\* The writer is strictly ahead of a reader whenever that has taken a snapshot.
SnapAhead(r) ==
    rpc[r] = "snapped" =>
        \/ snap_cycle[r] > rcycle[r]
        \/ snap_cycle[r] = rcycle[r] /\ snap_index[r] > index_out[r]

SnapInv == \A r \in Readers : SnapAhead(r)

LEMMA SnapTaken ==
    ASSUME IInv, NEW r \in Readers, TakeSnapshot(r) PROVE SnapAhead(r)'
<1>1. /\ rpc[r] = "got" /\ index_in \in Slots /\ cycle_count \in Nat
      /\ index_out[r] \in Slots /\ rcycle[r] \in Nat
    BY DEF IInv, TypeOK, TakeSnapshot
<1>2. /\ snap_index'[r] = index_in /\ snap_cycle'[r] = cycle_count
      /\ index_out'[r] = index_out[r] /\ rcycle'[r] = rcycle[r]
    BY DEF IInv, TypeOK, TakeSnapshot, position
<1>3. /\ Reached(index_out[r], rcycle[r])
      /\ Within(index_out[r], rcycle[r]) => index_out[r] # index_in
    BY <1>1 DEF IInv, ReaderInv, ReaderHolds
<1> QED
    BY <1>1, <1>2, <1>3 DEF SnapAhead, Reached, Within, Slots

LEMMA SnapStep == IInv /\ SnapInv /\ [Next]_vars => SnapInv'
<1> SUFFICES ASSUME IInv, SnapInv, [Next]_vars, NEW q \in Readers
             PROVE  SnapAhead(q)'
    BY DEF SnapInv
<1>0. TypeOK /\ SnapAhead(q)
    BY DEF IInv, SnapInv
<1>1. CASE \/ WriterNext \/ UNCHANGED vars
           \/ \E enabled \in BOOLEAN : enable_buffer_write(enabled)
  <2>1. UNCHANGED <<rpc, position, block>>
    BY <1>1 DEF WriterNext, get_write_block, StartRelease, release_write_block,
        enable_buffer_write, vars
  <2> QED
    BY <1>0, <2>1 DEF SnapAhead, position, block
<1>2. ASSUME NEW r \in Readers, ReaderNext(r) PROVE SnapAhead(q)'
  <2>1. CASE TakeSnapshot(r) /\ q = r
    BY <2>1, SnapTaken
  <2>2. CASE q # r
    BY <1>0, <1>2, <2>2
    DEF TypeOK, ReaderNext, open_reader, close_reader, get_read_block, Wake,
        Timeout, FinishGet, StartWait, ReadBytes, TakeSnapshot, Release,
        interrupt_reader, position, block, SnapAhead
  <2>3. CASE ~TakeSnapshot(r) /\ q = r
    <3>1. CASE interrupt_reader(r)
        BY <1>0, <3>1 DEF interrupt_reader, position, block, SnapAhead
    <3>2. CASE ~interrupt_reader(r)
      <4>1. rpc'[r] # "snapped"
        BY <1>0, <1>2, <2>3, <3>2
        DEF TypeOK, ReaderNext, open_reader, close_reader, get_read_block,
            Wake, Timeout, FinishGet, StartWait, ReadBytes, Release
      <4> QED
        BY <2>3, <4>1 DEF SnapAhead
    <3> QED
        BY <3>1, <3>2
  <2> QED
    BY <2>1, <2>2, <2>3
<1> QED
    BY <1>1, <1>2 DEF Next

\* check_underflow, which compares indexes and laps, counts blocks correctly for
\* any size of ring: a reader is cut off exactly when the writer has published a
\* whole ring of blocks since the reader's position, and so has reached its
\* block again.
THEOREM UnderflowIsExact == Spec => []CutOffOnlyWhenLapped
<1>1. Init => SnapInv
    BY DEF Init, SnapInv, SnapAhead
<1>2. IInv /\ SnapInv => CutOffOnlyWhenLapped
  <2> SUFFICES ASSUME IInv, SnapInv, NEW r \in Readers, rpc[r] = "snapped"
               PROVE  ReleasedOk(r) <=>
                        (snap_cycle[r] * BlockCount + snap_index[r])
                        - (rcycle[r] * BlockCount + index_out[r]) < BlockCount
    BY DEF CutOffOnlyWhenLapped
  <2>1. PICK si \in Slots, sc \in Nat, i \in Slots, c \in Nat :
            /\ si = snap_index[r] /\ sc = snap_cycle[r]
            /\ i = index_out[r] /\ c = rcycle[r]
    BY DEF IInv, TypeOK
  <2>2. sc > c \/ (sc = c /\ si > i)
    BY <2>1 DEF SnapInv, SnapAhead
  <2>3. ReleasedOk(r) <=> (si > i /\ sc = c) \/ (si < i /\ sc = c + 1)
    BY <2>1 DEF ReleasedOk, check_underflow
  <2>4. /\ BlockCount \in Nat /\ si \in Nat /\ i \in Nat
        /\ si < BlockCount /\ i < BlockCount
    BY BlockCountAssumption DEF Slots
  <2>5. PICK d \in Nat : sc = c + d
    <3>1. sc - c \in Nat /\ sc = c + (sc - c)
        BY <2>2
    <3> QED
        BY <3>1
  <2>6. (sc * BlockCount + si) - (c * BlockCount + i)
            = d * BlockCount + si - i
    BY <2>4, <2>5
  <2>7. CASE d = 0
    BY <2>1, <2>2, <2>3, <2>4, <2>5, <2>6, <2>7
  <2>8. CASE d = 1
    <3>1. d * BlockCount = BlockCount
        BY <2>4, <2>8
    <3> QED
        BY <2>1, <2>3, <2>4, <2>5, <2>6, <2>8, <3>1
  <2>9. CASE d > 1
    <3>1. d * BlockCount >= 2 * BlockCount
        BY <2>4, <2>9
    <3> QED
        BY <2>1, <2>3, <2>4, <2>5, <2>6, <2>9, <3>1
  <2> QED
    BY <2>7, <2>8, <2>9
<1> QED
    BY <1>1, <1>2, SnapStep, Invariance, PTL DEF Spec

-----------------------------------------------------------------------------
(* Every step of the ring is a step of the frame stream, or none. *)

Opened == {r \in Readers : rpc[r] # "closed"}

LEMMA StreamRelease ==
    ASSUME IInv, NEW r \in Readers, Release(r) PROVE Stream!Next
<1>1. TypeOK /\ rpc[r] = "snapped" /\ rpc' = [rpc EXCEPT ![r] = "ready"]
    BY DEF IInv, Release
<1>2. r \in Opened /\ Opened' = Opened
    BY <1>1 DEF Opened, TypeOK
<1>3. UNCHANGED <<frame, stored>>
    BY DEF Release, writer
<1>4. CASE ReleasedOk(r)
  <2>1. /\ last' = [last EXCEPT ![r] = held[r]]
        /\ cont' = [cont EXCEPT ![r] = TRUE]
    BY <1>4 DEF Release
  <2>2. ReaderReleases(r) /\ HeldBlock(r)
    BY <1>1, <1>4 DEF IInv, ReaderInv, ReaderReleases
  <2>3. ASSUME r \in Reserved, NEW f \in stored
        PROVE  f <= last[r] \/ f >= held[r]
    <3>1. PICK i \in Slots, c \in Nat : i = index_out[r] /\ c = rcycle[r]
        BY <1>1 DEF TypeOK
    <3>2. Within(i, c) /\ (f <= last[r] \/ f >= NextStamp(i))
        BY <1>1, <2>3, <3>1 DEF IInv, ReservedInv
    <3>3. i # index_in
        BY <1>1, <1>4, <2>2, <3>1, <3>2, SnapshotAhead DEF ReaderReleases
    <3>4. NextStamp(i) = held[r]
        BY <1>4, <2>2, <3>1, <3>2, <3>3 DEF NextStamp, ReaderReleases
    <3> QED
        BY <3>2, <3>4
  <2>4. Stream!Deliver(r, held[r])
    BY <1>2, <1>3, <2>1, <2>2, <2>3
    DEF Stream!Deliver, Stream!Deliverable, HeldBlock, Opened
  <2> QED
    BY <2>2, <2>4 DEF Stream!Next, HeldBlock
<1>5. CASE ~ReleasedOk(r)
  <2>1. cont' = [cont EXCEPT ![r] = FALSE] /\ UNCHANGED last
    BY <1>5 DEF Release
  <2>2. Stream!Break(r)
    BY <1>2, <1>3, <2>1 DEF Stream!Break, Opened
  <2> QED
    BY <2>2 DEF Stream!Next
<1> QED
    BY <1>4, <1>5

LEMMA StreamGet ==
    ASSUME IInv, NEW r \in Readers, get_read_block(r) \/ Wake(r) \/ Timeout(r)
    PROVE  Stream!Next \/ UNCHANGED Stream!vars
<1>1. TypeOK /\ rpc[r] \in {"ready", "waiting"}
      /\ (FinishGet(r) \/ StartWait(r))
    BY DEF IInv, get_read_block, Wake, Timeout
<1>2. UNCHANGED <<frame, stored, last>>
    BY <1>1 DEF FinishGet, StartWait, writer, told
<1>3. r \in Opened /\ Opened' = Opened
  <2>1. PICK st \in {"ready", "waiting", "got"} : rpc' = [rpc EXCEPT ![r] = st]
    BY <1>1 DEF FinishGet, StartWait
  <2> QED
    BY <1>1, <2>1 DEF Opened, TypeOK
<1>4. CASE cont' = cont
    BY <1>2, <1>3, <1>4 DEF Stream!vars, Opened
<1>5. CASE cont' = [cont EXCEPT ![r] = FALSE]
  <2>1. Stream!Break(r)
    BY <1>2, <1>3, <1>5 DEF Stream!Break, Opened
  <2> QED
    BY <2>1 DEF Stream!Next
<1> QED
    BY <1>1, <1>4, <1>5 DEF FinishGet, StartWait, told

LEMMA StreamStep ==
    IInv /\ [Next]_vars => [Stream!Next]_(Stream!vars)
<1> SUFFICES ASSUME IInv, [Next]_vars
             PROVE  Stream!Next \/ UNCHANGED Stream!vars
    OBVIOUS
<1>0. TypeOK
    BY DEF IInv
<1>1. CASE release_write_block
  <2>1. /\ frame' = frame + 1 /\ UNCHANGED <<rpc, last, cont>>
        /\ stored' \in {stored, stored \cup {frame}}
    BY <1>1 DEF release_write_block, MarkGap, Publish
  <2>2. Stream!Attempt(TRUE) \/ Stream!Attempt(FALSE)
    BY <2>1 DEF Stream!Attempt
  <2> QED
    BY <2>2 DEF Stream!Next
<1>2. ASSUME NEW r \in Readers, open_reader(r) PROVE Stream!Next
  <2>1. r \notin Opened /\ Opened' = Opened \cup {r}
    BY <1>0, <1>2 DEF open_reader, Opened, TypeOK
  <2>2. \E n \in stored \cup {0} :
            Stream!Newest(n) /\ last' = [last EXCEPT ![r] = n]
    BY <1>2 DEF open_reader, Newest, Stream!Newest
  <2>3. Stream!Open(r)
    BY <1>2, <2>1, <2>2 DEF Stream!Open, open_reader, Opened, writer
  <2> QED
    BY <2>3 DEF Stream!Next
<1>3. ASSUME NEW r \in Readers, close_reader(r) PROVE Stream!Next
  <2>1. r \in Opened /\ Opened' = Opened \ {r}
    BY <1>0, <1>3 DEF close_reader, Opened, TypeOK
  <2>2. Stream!Close(r)
    BY <1>3, <2>1 DEF Stream!Close, close_reader, Opened, writer
  <2> QED
    BY <2>2 DEF Stream!Next
<1>4. ASSUME NEW r \in Readers, TakeSnapshot(r) PROVE UNCHANGED Stream!vars
  <2>1. Opened' = Opened
    BY <1>0, <1>4 DEF TakeSnapshot, Opened, TypeOK
  <2> QED
    BY <1>4, <2>1 DEF TakeSnapshot, Stream!vars, Opened, writer, told
<1>5. ASSUME \/ get_write_block
             \/ \E ok \in BOOLEAN : StartRelease(ok)
             \/ \E enabled \in BOOLEAN : enable_buffer_write(enabled)
             \/ \E r \in Readers : ReadBytes(r) \/ interrupt_reader(r)
             \/ UNCHANGED vars
      PROVE  UNCHANGED Stream!vars
    BY <1>5 DEF get_write_block, StartRelease, enable_buffer_write, ReadBytes,
        interrupt_reader, vars, Stream!vars, writer, told
<1> QED
    BY <1>1, <1>2, <1>3, <1>4, <1>5, StreamRelease, StreamGet
    DEF Next, WriterNext, ReaderNext

\* The ring implements the frame stream: a reader receives stored frames in
\* order, is told of every break in what it receives, and if it is the
\* reserved reader misses no stored frame.
THEOREM Refinement == Spec => ImplementsFrameStream
<1>1. Init => Stream!Init
    BY DEF Init, Stream!Init
<1> QED
    BY <1>1, StreamStep, Invariance, PTL
    DEF Spec, Stream!Spec, ImplementsFrameStream

=============================================================================
