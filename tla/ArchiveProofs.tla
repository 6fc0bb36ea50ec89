---------------------------- MODULE ArchiveProofs ----------------------------
(***************************************************************************)
(* Proofs about the disk archive, for any number of major blocks, of minor *)
(* blocks in one and of clients, any INDEX_SKIP smaller than the archive   *)
(* and any bounds.                                                         *)
(***************************************************************************)
EXTENDS ArchiveInv, FiniteSetTheorems, TLAPS

-----------------------------------------------------------------------------
(* The ring of major blocks. *)

\* The current block advances through the ring and comes round to 0.
LEMMA NextInRing ==
    ASSUME NEW b \in Blocks
    PROVE  /\ NextBlock(b) \in Blocks
           /\ NextBlock(b) # b
           /\ NextBlock(b) = IF b + 1 = MajorBlocks THEN 0 ELSE b + 1
<1>1. MajorBlocks \in Nat /\ MajorBlocks > 1 /\ b \in 0 .. MajorBlocks - 1
    BY ArchiveAssumption DEF Blocks
<1>2. CASE b + 1 = MajorBlocks
    BY <1>1, <1>2 DEF NextBlock, Blocks
<1>3. CASE b + 1 # MajorBlocks
    BY <1>1, <1>3 DEF NextBlock, Blocks
<1> QED
    BY <1>2, <1>3

LEMMA ZeroInRing == 0 \in Blocks
    BY ArchiveAssumption DEF Blocks

LEMMA MinorBlocksPositive == MinorBlocks \in Nat /\ MinorBlocks >= 1
    BY ArchiveAssumption

\* A whole block has the type of a buffer, and of a block on disk.
LEMMA WholeType ==
    ASSUME NEW a \in Nat
    PROVE  /\ Whole(a) \in [1 .. MinorBlocks -> Nat]
           /\ Whole(a) \in [1 .. MinorBlocks -> Nat \cup {Torn}]
    BY DEF Whole

-----------------------------------------------------------------------------
(* Type correctness. *)

LEMMA TypeInit == Init => TypeOK
<1> SUFFICES ASSUME Init PROVE TypeOK
    OBVIOUS
<1>1. writing_active \in BOOLEAN /\ wok \in BOOLEAN
      /\ writer_running \in BOOLEAN
    BY DEF Init
<1>2. /\ index \in [Blocks -> Nat]
      /\ id_zero \in [Blocks -> Nat]
    BY DEF Init
<1>3. disk \in [Blocks -> [1 .. MinorBlocks -> Nat \cup {Torn}]]
    BY WholeType DEF Init
<1>4. content \in [Buffers -> [1 .. MinorBlocks -> Nat]]
    BY WholeType DEF Init, NoData
<1>5. /\ cpc \in [Clients -> {"idle", "found", "reading"}]
      /\ cblock \in [Clients -> Blocks]
      /\ cexpect \in [Clients -> Nat]
      /\ csince \in [Clients -> Nat]
    BY ZeroInRing DEF Init, AtRest, Nothing
<1>6. current_buffer \in Buffers /\ writing_block \in Buffers
    BY DEF Init, Buffers
<1>7. /\ current_major_block \in Blocks
      /\ writing_offset \in Blocks
      /\ offset \in 0 .. MinorBlocks
      /\ tpc \in {"check", "get", "block", "null", "locked", "scheduled",
                 "exited"}
      /\ wpc \in {"loop", "wait", "test", "write", "clear", "exited"}
      /\ mpc \in {"up", "stopping", "interrupted", "down"}
      /\ attempt \in Nat \ {0} /\ advances \in Nat
      /\ errors \in Nat /\ crashes \in Nat /\ stops \in Nat
    BY ZeroInRing, MinorBlocksPositive DEF Init
<1> QED
    BY <1>1, <1>2, <1>3, <1>4, <1>5, <1>6, <1>7 DEF TypeOK

LEMMA TransformTypes ==
    ASSUME TypeOK, TransformNext,
           OffsetInBlock
    PROVE  TypeOK'
<1>1. CASE TransformLoop
    BY <1>1 DEF TypeOK, TransformLoop, file, request, writer, main, clients,
        faults
<1>2. CASE get_read_block
    BY <1>2 DEF TypeOK, get_read_block, file, request, writer, main, clients,
        faults
<1>3. CASE ProcessMinor
  <2>1. content' \in [Buffers -> [1 .. MinorBlocks -> Nat]]
    BY <1>3 DEF TypeOK, ProcessMinor
  <2>2. id_zero' \in [Blocks -> Nat]
    BY <1>3 DEF TypeOK, ProcessMinor
  <2>3. offset' \in 0 .. MinorBlocks
    BY <1>3, MinorBlocksPositive DEF TypeOK, OffsetInBlock, ProcessMinor
  <2> QED
    BY <1>3, <2>1, <2>2, <2>3
    DEF TypeOK, ProcessMinor, request, writer, main, clients, faults
<1>4. CASE ProcessGap
  <2>1. offset' \in 0 .. MinorBlocks
    BY <1>4, MinorBlocksPositive DEF ProcessGap
  <2>2. attempt' \in Nat \ {0}
    BY <1>4 DEF TypeOK, ProcessGap
  <2> QED
    BY <1>4, <2>1, <2>2
    DEF TypeOK, ProcessGap, file, request, writer, main, clients, faults
<1>5. CASE write_major_block
  <2>1. current_buffer' \in Buffers /\ writing_block' \in Buffers
    BY <1>5 DEF TypeOK, write_major_block, Buffers
  <2>2. writing_active' \in BOOLEAN
    BY <1>5 DEF write_major_block
  <2>3. offset' \in 0 .. MinorBlocks
    BY <1>5, MinorBlocksPositive DEF write_major_block
  <2>4. writing_offset' \in Blocks
    BY <1>5 DEF TypeOK, write_major_block
  <2> QED
    BY <1>5, <2>1, <2>2, <2>3, <2>4
    DEF TypeOK, write_major_block, file, writer, main, clients, faults
<1>6. CASE advance_index
    BY <1>6, NextInRing
    DEF TypeOK, advance_index, request, writer, main, clients, faults
<1> QED
    BY <1>1, <1>2, <1>3, <1>4, <1>5, <1>6 DEF TransformNext

LEMMA WriterTypes ==
    ASSUME TypeOK, WriterNext PROVE TypeOK'
<1>0. Torn \in Nat \cup {Torn}
    OBVIOUS
<1>1. CASE WriterLoop
    BY <1>1 DEF TypeOK, WriterLoop, file, transform, request, main, clients,
        faults
<1>2. CASE WriterWoken
    BY <1>2 DEF TypeOK, WriterWoken, file, transform, request, main, clients,
        faults
<1>3. CASE WriterTest
  <2>1. disk' \in [Blocks -> [1 .. MinorBlocks -> Nat \cup {Torn}]]
    <3>1. Whole(Torn) \in [1 .. MinorBlocks -> Nat \cup {Torn}]
        BY DEF Whole
    <3>2. CASE writing_active
        BY <1>3, <3>1, <3>2 DEF TypeOK, WriterTest
    <3>3. CASE ~writing_active
        BY <1>3, <3>3 DEF TypeOK, WriterTest
    <3> QED
        BY <3>2, <3>3
  <2>2. wok' \in BOOLEAN
    BY <1>3 DEF TypeOK, WriterTest
  <2>3. wpc' \in {"loop", "wait", "test", "write", "clear", "exited"}
    BY <1>3 DEF WriterTest
  <2> QED
    BY <1>3, <2>1, <2>2, <2>3
    DEF TypeOK, WriterTest, transform, request, main, clients, faults
<1>4. CASE WriteDone
  <2>1. disk' \in [Blocks -> [1 .. MinorBlocks -> Nat \cup {Torn}]]
    BY <1>4 DEF TypeOK, WriteDone
  <2> QED
    BY <1>4, <2>1
    DEF TypeOK, WriteDone, transform, request, main, clients, faults
<1>5. CASE WriteError
  <2>1. wok' \in BOOLEAN
    BY <1>5 DEF WriteError
  <2> QED
    BY <1>5, <2>1
    DEF TypeOK, WriteError, file, transform, request, main, clients
<1>6. CASE WriterClear
  <2>1. writing_active' \in BOOLEAN
    BY <1>6 DEF WriterClear
  <2> QED
    BY <1>6, <2>1
    DEF TypeOK, WriterClear, file, transform, main, clients, faults
<1> QED
    BY <1>1, <1>2, <1>3, <1>4, <1>5, <1>6 DEF WriterNext

LEMMA ClientTypes ==
    ASSUME TypeOK, NEW c \in Clients, ClientNext(c) PROVE TypeOK'
<1>1. CASE LookUp(c)
  <2>1. PICK b \in Searchable :
            /\ cblock' = [cblock EXCEPT ![c] = b]
            /\ cexpect' = [cexpect EXCEPT ![c] = index[b]]
    BY <1>1 DEF LookUp
  <2>2. b \in Blocks
    BY DEF Searchable
  <2>3. /\ cblock' \in [Clients -> Blocks]
        /\ cexpect' \in [Clients -> Nat]
    BY <2>1, <2>2 DEF TypeOK
  <2>4. /\ cpc' \in [Clients -> {"idle", "found", "reading"}]
        /\ csince' \in [Clients -> Nat]
    BY <1>1 DEF TypeOK, LookUp
  <2> QED
    BY <1>1, <2>3, <2>4
    DEF TypeOK, LookUp, file, transform, request, writer, main, faults
<1>2. CASE request_read(c)
    BY <1>2 DEF TypeOK, request_read, file, transform, request, writer, main,
        faults
<1>3. CASE ReadDone(c)
    BY <1>3, ZeroInRing
    DEF TypeOK, ReadDone, file, transform, request, writer, main, faults
<1> QED
    BY <1>1, <1>2, <1>3 DEF ClientNext

LEMMA RestartTypes ==
    ASSUME TypeOK, Restart, UNCHANGED stops,
           errors' \in Nat, crashes' \in Nat
    PROVE  TypeOK'
<1>1. writing_active' \in BOOLEAN /\ wok' \in BOOLEAN
      /\ writer_running' \in BOOLEAN
    BY DEF Restart
<1>2. content' \in [Buffers -> [1 .. MinorBlocks -> Nat]]
    BY WholeType DEF Restart, NoData
<1>3. /\ cpc' \in [Clients -> {"idle", "found", "reading"}]
      /\ cblock' \in [Clients -> Blocks]
      /\ cexpect' \in [Clients -> Nat]
      /\ csince' \in [Clients -> Nat]
    BY ZeroInRing DEF Restart, AtRest, Nothing
<1>4. current_buffer' \in Buffers /\ writing_block' \in Buffers
    BY DEF Restart, Buffers
<1>5. writing_offset' \in Blocks /\ offset' \in 0 .. MinorBlocks
    BY ZeroInRing, MinorBlocksPositive DEF Restart
<1>6. attempt' \in Nat \ {0}
    BY DEF Restart, TypeOK
<1>7. UNCHANGED <<file, advances>>
    BY DEF Restart
<1>8. tpc' = "check" /\ wpc' = "loop" /\ mpc' = "up"
    BY DEF Restart
<1> QED
    BY <1>1, <1>2, <1>3, <1>4, <1>5, <1>6, <1>7, <1>8 DEF TypeOK, file

LEMMA TypeNext ==
    TypeOK /\ OffsetInBlock /\ [Next]_vars => TypeOK'
<1> SUFFICES ASSUME TypeOK, OffsetInBlock, [Next]_vars PROVE TypeOK'
    OBVIOUS
<1>1. CASE TransformNext
    BY <1>1, TransformTypes
<1>2. CASE WriterNext
    BY <1>2, WriterTypes
<1>3. CASE InterruptReader \/ Terminated
    BY <1>3 DEF TypeOK, InterruptReader, Terminated, file, transform, request,
        writer, clients, faults
<1>4. CASE stop_writer_thread
  <2>1. writer_running' \in BOOLEAN
    BY <1>4 DEF stop_writer_thread
  <2> QED
    BY <1>4, <2>1 DEF TypeOK, stop_writer_thread, file, transform, request,
        writer, clients
<1>5. CASE StartAgain
    BY <1>5, RestartTypes DEF StartAgain, faults, TypeOK
<1>6. CASE Crash
  <2>1. Restart /\ UNCHANGED <<errors, stops>> /\ crashes' = crashes + 1
    BY <1>6 DEF Crash
  <2>2. errors' \in Nat /\ crashes' \in Nat
    BY <2>1 DEF TypeOK
  <2> QED
    BY <2>1, <2>2, RestartTypes
<1>7. ASSUME NEW c \in Clients, ClientNext(c) PROVE TypeOK'
    BY <1>7, ClientTypes
<1>8. CASE UNCHANGED vars
    BY <1>8 DEF TypeOK, vars, file, transform, request, writer, main, clients,
        faults
<1> QED
    BY <1>1, <1>2, <1>3, <1>4, <1>5, <1>6, <1>7, <1>8 DEF Next, MainNext

\* The offset into the block is at its end exactly when the transform thread
\* is about to hand the block over.
LEMMA OffsetNext ==
    TypeOK /\ OffsetInBlock /\ [Next]_vars => OffsetInBlock'
<1> SUFFICES ASSUME TypeOK, OffsetInBlock, [Next]_vars PROVE OffsetInBlock'
    OBVIOUS
<1>1. CASE TransformNext
  <2>1. CASE TransformLoop
    BY <1>1, <2>1 DEF TransformLoop, OffsetInBlock
  <2>2. CASE get_read_block
    BY <2>2 DEF get_read_block, OffsetInBlock
  <2>3. CASE ProcessMinor
    BY <2>3, MinorBlocksPositive DEF ProcessMinor, OffsetInBlock, TypeOK
  <2>4. CASE ProcessGap
    BY <2>4, MinorBlocksPositive DEF ProcessGap, OffsetInBlock
  <2>5. CASE write_major_block
    BY <2>5, MinorBlocksPositive DEF write_major_block, OffsetInBlock
  <2>6. CASE advance_index
    BY <2>6 DEF advance_index, OffsetInBlock
  <2> QED
    BY <1>1, <2>1, <2>2, <2>3, <2>4, <2>5, <2>6 DEF TransformNext
<1>2. CASE WriterNext
    BY <1>2 DEF WriterNext, WriterLoop, WriterWoken, WriterTest, WriteDone,
        WriteError, WriterClear, transform, OffsetInBlock
<1>3. CASE InterruptReader \/ Terminated \/ stop_writer_thread
    BY <1>3 DEF InterruptReader, Terminated, stop_writer_thread, transform,
        OffsetInBlock
<1>4. CASE StartAgain \/ Crash
    BY <1>4, MinorBlocksPositive DEF StartAgain, Crash, Restart, OffsetInBlock
<1>5. ASSUME NEW c \in Clients, ClientNext(c) PROVE OffsetInBlock'
    BY <1>5 DEF ClientNext, LookUp, request_read, ReadDone, transform,
        OffsetInBlock
<1>6. CASE UNCHANGED vars
    BY <1>6 DEF vars, transform, OffsetInBlock
<1> QED
    BY <1>1, <1>2, <1>3, <1>4, <1>5, <1>6 DEF Next, MainNext

LEMMA OffsetInit == Init => OffsetInBlock
    BY MinorBlocksPositive DEF Init, OffsetInBlock

\* Every variable of the archive always has its type, whatever faults the
\* process meets: no buffer is filled beyond its end and the current block
\* stays in the file.
THEOREM TypeCorrect == Spec => []TypeOK
<1>1. Init => TypeOK /\ OffsetInBlock
    BY TypeInit, OffsetInit
<1>2. TypeOK /\ OffsetInBlock /\ [Next]_vars => (TypeOK /\ OffsetInBlock)'
    BY TypeNext, OffsetNext
<1> QED
    BY <1>1, <1>2, PTL DEF Spec

-----------------------------------------------------------------------------
(* The data, as long as nothing fails: the transform thread. *)

\* A block within the searchable range at some time and since approached by
\* fewer than IndexSkip + 1 blocks is not the current one.
LEMMA OutOfReach ==
    ASSUME TypeOK, NEW c \in Clients, ClientInv(c), cpc[c] # "idle",
           advances - csince[c] <= IndexSkip
    PROVE  cblock[c] # current_major_block
<1>1. /\ Age(cblock[c]) + (advances - csince[c]) > IndexSkip
      /\ csince[c] <= advances
    BY DEF ClientInv
<1>2. /\ cblock[c] \in Blocks /\ current_major_block \in Blocks
      /\ csince[c] \in Nat /\ advances \in Nat /\ IndexSkip \in Nat
    BY ArchiveAssumption DEF TypeOK
<1>3. Age(current_major_block) = 0
    BY <1>2, ArchiveAssumption DEF Age, Blocks
<1> QED
    BY <1>1, <1>2, <1>3

LEMMA QuietTransformInv ==
    ASSUME TypeOK, OffsetInBlock, DataInv,
           TransformLoop \/ get_read_block \/ ProcessGap
    PROVE  DataInv'
<1>1. UNCHANGED <<file, current_buffer, content, request, writer, main,
                   clients, advances>>
    BY DEF TransformLoop, get_read_block, ProcessGap
<1>2. tpc # "scheduled" /\ tpc' # "scheduled"
    BY DEF TransformLoop, get_read_block, ProcessGap
<1>3. Undisturbed'
    BY <1>1 DEF DataInv, Undisturbed, main, writer
<1>4. Gathered'
  <2>1. CASE ProcessGap
    BY <2>1, <1>1 DEF ProcessGap, Gathered
  <2>2. CASE TransformLoop \/ get_read_block
    BY <2>2, <1>1 DEF TransformLoop, get_read_block, Gathered, DataInv, file
  <2> QED
    BY <2>1, <2>2
<1>5. Request'
    BY <1>1, <1>2 DEF DataInv, Request, request, file, writer, NextBlock
<1>6. AllKept'
    BY <1>1, <1>2 DEF DataInv, AllKept, Kept, file, request
<1>7. \A c \in Clients : ClientInv(c)'
    BY <1>1 DEF DataInv, ClientInv, Age, clients, file, request
<1> QED
    BY <1>3, <1>4, <1>5, <1>6, <1>7 DEF DataInv

LEMMA ProcessMinorInv ==
    ASSUME TypeOK, OffsetInBlock, DataInv, ProcessMinor
    PROVE  DataInv'
<1>1. /\ UNCHANGED <<current_major_block, index, disk, current_buffer,
                     request, writer, main, clients, attempt, advances>>
      /\ content' = [content EXCEPT ![current_buffer][offset + 1] = attempt]
      /\ id_zero' = IF offset = 0
                    THEN [id_zero EXCEPT ![current_major_block] = attempt]
                    ELSE id_zero
      /\ offset' = offset + 1
    BY DEF ProcessMinor
<1>2. tpc # "scheduled" /\ tpc' # "scheduled"
    BY DEF ProcessMinor
<1>3. /\ current_buffer \in Buffers
      /\ content \in [Buffers -> [1 .. MinorBlocks -> Nat]]
      /\ current_major_block \in Blocks
      /\ id_zero \in [Blocks -> Nat]
      /\ offset \in 0 .. MinorBlocks /\ offset < MinorBlocks
    BY MinorBlocksPositive DEF TypeOK, OffsetInBlock, ProcessMinor
<1>4. Undisturbed'
    BY <1>1 DEF DataInv, Undisturbed, main, writer
<1>5. Gathered'
  <2>1. \A k \in 1 .. offset + 1 : content'[current_buffer][k] = attempt
    BY <1>1, <1>3, MinorBlocksPositive DEF DataInv, Gathered
  <2>2. id_zero'[current_major_block] = attempt
    BY <1>1, <1>3 DEF DataInv, Gathered
  <2> QED
    BY <2>1, <2>2, <1>1, <1>2 DEF Gathered
<1>6. Request'
  <2>1. writing_active => content'[writing_block] = content[writing_block]
    BY <1>1, <1>3 DEF DataInv, Request, Buffers
  <2> QED
    BY <2>1, <1>1, <1>2 DEF DataInv, Request, request, writer, NextBlock
<1>7. AllKept'
  <2>1. \A b \in Blocks : b # current_major_block => id_zero'[b] = id_zero[b]
    BY <1>1, <1>3
  <2> QED
    BY <2>1, <1>1, <1>2 DEF DataInv, AllKept, Kept, request
<1>8. \A c \in Clients : ClientInv(c)'
    BY <1>1 DEF DataInv, ClientInv, Age, clients, request
<1> QED
    BY <1>4, <1>5, <1>6, <1>7, <1>8 DEF DataInv

LEMMA WriteMajorBlockInv ==
    ASSUME TypeOK, OffsetInBlock, DataInv, write_major_block
    PROVE  DataInv'
<1>1. /\ UNCHANGED <<file, content, writer, main, clients, attempt, advances>>
      /\ writing_active'
      /\ writing_offset' = current_major_block
      /\ writing_block' = current_buffer
      /\ current_buffer' = 1 - current_buffer
      /\ offset' = 0
      /\ tpc' = "scheduled"
    BY DEF write_major_block
<1>2. ~writing_active /\ tpc = "locked"
    BY DEF write_major_block
<1>3. /\ current_buffer \in Buffers
      /\ content \in [Buffers -> [1 .. MinorBlocks -> Nat]]
      /\ offset = MinorBlocks
    BY <1>2 DEF TypeOK, OffsetInBlock
<1>4. Undisturbed'
    BY <1>1 DEF DataInv, Undisturbed, main, writer
<1>5. Gathered'
    BY <1>1 DEF Gathered
<1>6. Request'
  <2>1. content[current_buffer] = Whole(attempt)
    BY <1>3 DEF DataInv, Gathered, Whole
  <2>2. writing_block' = 1 - current_buffer'
    BY <1>1, <1>3 DEF Buffers
  <2>3. wpc' \notin {"test", "write", "clear"}
    BY <1>1, <1>2 DEF DataInv, Request, writer
  <2> QED
    BY <2>1, <2>2, <2>3, <1>1 DEF Request, file
<1>7. AllKept'
  <2>1. id_zero[current_major_block] = attempt
    BY <1>3, MinorBlocksPositive DEF DataInv, Gathered
  <2>2. Kept(current_major_block, attempt)'
    BY <2>1, <1>1 DEF Kept, file
  <2>3. \A b \in Blocks : b # current_major_block /\ index[b] # 0 =>
            Kept(b, index[b])'
    BY <1>1, <1>2 DEF DataInv, AllKept, Kept, file
  <2> QED
    BY <2>2, <2>3, <1>1 DEF AllKept, file, Kept
<1>8. ASSUME NEW c \in Clients PROVE ClientInv(c)'
  <2>1. ClientInv(c)
    BY DEF DataInv
  <2>2. cpc[c] # "idle" /\ advances - csince[c] <= IndexSkip =>
            cblock[c] # current_major_block
    BY <2>1, OutOfReach
  <2> QED
    BY <2>1, <2>2, <1>1 DEF ClientInv, Age, clients, file
<1> QED
    BY <1>4, <1>5, <1>6, <1>7, <1>8 DEF DataInv

\* Every block but the new current one grows older by one.
LEMMA AgeAdvance ==
    ASSUME TypeOK, NEW b \in Blocks, b # current_major_block,
           current_major_block' = NextBlock(current_major_block)
    PROVE  Age(b)' = Age(b) - 1
<1>1. current_major_block \in Blocks
    BY DEF TypeOK
<1>2. NextBlock(current_major_block) =
        IF current_major_block + 1 = MajorBlocks
        THEN 0 ELSE current_major_block + 1
    BY <1>1, NextInRing
<1> QED
    BY <1>1, <1>2, ArchiveAssumption DEF Age, Blocks

LEMMA AdvanceIndexInv ==
    ASSUME TypeOK, OffsetInBlock, DataInv, advance_index
    PROVE  DataInv'
<1>1. /\ UNCHANGED <<id_zero, disk, current_buffer, content, offset, request,
                     writer, main, clients>>
      /\ index' = [index EXCEPT ![current_major_block] = attempt]
      /\ current_major_block' = NextBlock(current_major_block)
      /\ attempt' = attempt + 1
      /\ advances' = advances + 1
      /\ tpc = "scheduled" /\ tpc' = "check"
    BY DEF advance_index
<1>2. /\ current_major_block \in Blocks
      /\ NextBlock(current_major_block) # current_major_block
      /\ index \in [Blocks -> Nat]
      /\ attempt \in Nat \ {0}
    BY NextInRing DEF TypeOK
<1>3. Undisturbed'
    BY <1>1 DEF DataInv, Undisturbed, main, writer
<1>4. Gathered'
  <2>1. offset = 0
    BY <1>1 DEF DataInv, Gathered
  <2> QED
    BY <2>1, <1>1 DEF Gathered
<1>5. Request'
  <2>1. writing_active =>
            /\ writing_offset = current_major_block
            /\ content[writing_block] = Whole(attempt)
    BY <1>1 DEF DataInv, Request
  <2>2. index'[current_major_block] = attempt
    BY <1>1, <1>2
  <2> QED
    BY <2>1, <2>2, <1>1
    DEF DataInv, Request, request, writer, NextBlock
<1>6. AllKept'
  <2>1. ASSUME NEW b \in Blocks, index'[b] # 0,
               b # NextBlock(current_major_block)
        PROVE  /\ id_zero[b] = index'[b]
               /\ \/ disk[b] = Whole(index'[b])
                  \/ writing_active /\ writing_offset = b
    <3>1. CASE b = current_major_block
      <4>1. index'[b] = attempt
        BY <3>1, <1>1, <1>2
      <4>2. Kept(b, attempt)
        BY <3>1, <1>1 DEF DataInv, AllKept
      <4> QED
        BY <4>1, <4>2 DEF Kept
    <3>2. CASE b # current_major_block
      <4>1. index'[b] = index[b]
        BY <3>2, <1>1, <1>2
      <4>2. Kept(b, index[b])
        BY <4>1, <3>2, <2>1 DEF DataInv, AllKept
      <4> QED
        BY <4>1, <4>2 DEF Kept
    <3> QED
        BY <3>1, <3>2
  <2>2. UNCHANGED <<id_zero, disk, writing_active, writing_offset>>
    BY <1>1 DEF request
  <2>3. \A b \in Blocks : b # current_major_block' /\ index'[b] # 0 =>
            Kept(b, index[b])'
    BY <2>1, <2>2, <1>1 DEF Kept
  <2>4. tpc' # "scheduled"
    BY <1>1
  <2> QED
    BY <2>3, <2>4 DEF AllKept
<1>7. ASSUME NEW c \in Clients PROVE ClientInv(c)'
  <2>1. ClientInv(c)
    BY DEF DataInv
  <2>2. UNCHANGED <<disk, cpc, cblock, cexpect, csince, writing_active,
                     writing_offset>>
    BY <1>1 DEF clients, request
  <2>3. CASE cpc[c] = "idle"
    BY <2>2, <2>3 DEF ClientInv
  <2>4. CASE cpc[c] # "idle"
    <3>1. /\ csince[c] \in Nat /\ advances \in Nat /\ IndexSkip \in Nat
          /\ cblock[c] \in Blocks
        BY ArchiveAssumption DEF TypeOK
    <3>2. csince'[c] <= advances'
        BY <3>1, <2>1, <2>2, <2>4, <1>1 DEF ClientInv
    <3>3. ASSUME advances' - csince'[c] <= IndexSkip
          PROVE  /\ Age(cblock[c])' + (advances' - csince'[c]) > IndexSkip
                 /\ cexpect'[c] # 0
                 /\ index'[cblock[c]] = cexpect[c]
                 /\ cpc'[c] = "reading" =>
                      /\ disk'[cblock'[c]] = Whole(cexpect'[c])
                      /\ ~(writing_active' /\ writing_offset' = cblock'[c])
      <4>1. advances - csince[c] <= IndexSkip
        BY <3>1, <3>3, <2>2, <1>1
      <4>2. cblock[c] # current_major_block
        BY <4>1, <2>1, <2>4, OutOfReach
      <4>3. Age(cblock[c])' = Age(cblock[c]) - 1
        BY <4>2, <3>1, <1>1, <2>2, AgeAdvance DEF Age
      <4>4. Age(cblock[c]) \in Int
        BY <3>1, <1>2, ArchiveAssumption DEF Age, Blocks
      <4>5. Age(cblock[c])' + (advances' - csince'[c]) > IndexSkip
        BY <4>1, <4>3, <4>4, <3>1, <2>1, <2>2, <2>4, <1>1 DEF ClientInv
      <4>6. index'[cblock[c]] = index[cblock[c]]
        BY <4>2, <3>1, <1>1, <1>2
      <4> QED
        BY <4>1, <4>5, <4>6, <2>1, <2>2, <2>4 DEF ClientInv
    <3> QED
        BY <3>2, <3>3, <2>2 DEF ClientInv
  <2> QED
    BY <2>3, <2>4
<1> QED
    BY <1>3, <1>4, <1>5, <1>6, <1>7 DEF DataInv

-----------------------------------------------------------------------------
(* The data, as long as nothing fails: the writer thread and the clients. *)

LEMMA QuietWriterInv ==
    ASSUME TypeOK, DataInv, WriterLoop \/ WriterWoken
    PROVE  DataInv'
<1>1. UNCHANGED <<file, transform, request, wok, main, clients, attempt,
                   advances>>
    BY DEF WriterLoop, WriterWoken
<1>2. Undisturbed'
    BY <1>1 DEF DataInv, Undisturbed, WriterLoop, WriterWoken, main
<1>3. Gathered'
    BY <1>1 DEF DataInv, Gathered, file, transform
<1>4. Request'
  <2>1. wpc' \in {"test", "write", "clear"} => writing_active
    BY DEF DataInv, Undisturbed, WriterLoop, WriterWoken
  <2>2. wpc' # "clear"
    BY DEF WriterLoop, WriterWoken
  <2> QED
    BY <2>1, <2>2, <1>1
    DEF DataInv, Request, NextBlock, file, transform, request
<1>5. AllKept'
    BY <1>1 DEF DataInv, AllKept, Kept, file, transform, request
<1>6. \A c \in Clients : ClientInv(c)'
    BY <1>1 DEF DataInv, ClientInv, Age, clients, file, request
<1> QED
    BY <1>2, <1>3, <1>4, <1>5, <1>6 DEF DataInv

\* A step of the writer that touches only the block it was asked to write.
LEMMA DiskInv ==
    ASSUME TypeOK, DataInv, WriterTest \/ WriteDone
    PROVE  DataInv'
<1>1. /\ UNCHANGED <<current_major_block, index, id_zero, transform, request,
                     main, clients, attempt, advances>>
      /\ writing_active
      /\ UNCHANGED wok
    BY DEF DataInv, Request, WriterTest, WriteDone
<1>2. \A b \in Blocks : b # writing_offset => disk'[b] = disk[b]
    BY <1>1 DEF TypeOK, WriterTest, WriteDone
<1>3. wpc' = "write" \/
      (wpc' = "clear" /\ disk'[writing_offset] = content[writing_block])
    BY <1>1 DEF TypeOK, WriterTest, WriteDone
<1>4. Undisturbed'
    BY <1>1, <1>3 DEF DataInv, Undisturbed, main
<1>5. Gathered'
    BY <1>1 DEF DataInv, Gathered, transform
<1>6. Request'
    BY <1>1, <1>3 DEF DataInv, Request, NextBlock, transform, request
<1>7. AllKept'
  <2>1. UNCHANGED <<id_zero, index, tpc, current_major_block, attempt,
                     writing_active, writing_offset>>
    BY <1>1 DEF transform, request
  <2>2. current_major_block \in Blocks
    BY DEF TypeOK
  <2>3. tpc' = "scheduled" => Kept(current_major_block, attempt)'
    BY <2>1, <2>2, <1>1, <1>2 DEF DataInv, AllKept, Kept
  <2>4. ASSUME NEW b \in Blocks, b # current_major_block', index'[b] # 0
        PROVE  Kept(b, index[b])'
    BY <2>1, <2>4, <1>1, <1>2 DEF DataInv, AllKept, Kept
  <2> QED
    BY <2>3, <2>4 DEF AllKept
<1>8. ASSUME NEW c \in Clients PROVE ClientInv(c)'
  <2>1. UNCHANGED <<clients, advances, current_major_block, index,
                     writing_active, writing_offset>>
    BY <1>1 DEF request
  <2>2. ClientInv(c) /\ cblock[c] \in Blocks
    BY DEF DataInv, TypeOK
  <2> QED
    BY <2>1, <2>2, <1>1, <1>2 DEF ClientInv, Age, clients
<1> QED
    BY <1>4, <1>5, <1>6, <1>7, <1>8 DEF DataInv

LEMMA WriterClearInv ==
    ASSUME TypeOK, DataInv, WriterClear
    PROVE  DataInv'
<1>1. /\ UNCHANGED <<file, transform, writing_offset, writing_block, wok,
                     main, clients, attempt, advances>>
      /\ ~writing_active'
      /\ wpc = "clear" /\ wpc' = "loop"
    BY DEF WriterClear
<1>2. writing_active /\ disk[writing_offset] = content[writing_block]
    BY <1>1 DEF DataInv, Request
<1>3. Undisturbed'
    BY <1>1 DEF DataInv, Undisturbed, main
<1>4. Gathered'
    BY <1>1 DEF DataInv, Gathered, transform, file
<1>5. Request'
    BY <1>1 DEF Request
<1>6. AllKept'
  <2>1. UNCHANGED <<id_zero, index, disk, tpc, current_major_block, attempt>>
    BY <1>1 DEF transform, file
  <2>2. current_major_block \in Blocks /\ writing_offset \in Blocks
    BY DEF TypeOK
  <2>3. NextBlock(current_major_block) # current_major_block
    BY <2>2, NextInRing
  <2>4. tpc' = "scheduled" => Kept(current_major_block, attempt)'
    BY <2>1, <1>1, <1>2 DEF DataInv, AllKept, Kept, Request
  <2>5. ASSUME NEW b \in Blocks, b # current_major_block', index'[b] # 0
        PROVE  Kept(b, index[b])'
    <3>1. Kept(b, index[b])
        BY <2>1, <2>5 DEF DataInv, AllKept
    <3>2. b = writing_offset => disk[b] = Whole(index[b])
        BY <2>1, <2>5, <1>2 DEF DataInv, Request
    <3> QED
        BY <3>1, <3>2, <2>1 DEF Kept
  <2> QED
    BY <2>4, <2>5 DEF AllKept
<1>7. \A c \in Clients : ClientInv(c)'
    BY <1>1 DEF DataInv, ClientInv, Age, clients, file
<1> QED
    BY <1>3, <1>4, <1>5, <1>6, <1>7 DEF DataInv

\* A block that can be looked up is out of the writer's reach for IndexSkip
\* more blocks, and its index entry is of a block that was completed.
LEMMA ClientInvNext ==
    ASSUME TypeOK, DataInv, NEW c \in Clients, ClientNext(c)
    PROVE  DataInv'
<1>1. UNCHANGED <<file, transform, request, writer, main, attempt, advances>>
    BY DEF ClientNext, LookUp, request_read, ReadDone
<1>2. Undisturbed'
    BY <1>1 DEF DataInv, Undisturbed, main, writer
<1>3. Gathered'
    BY <1>1 DEF DataInv, Gathered, transform, file
<1>4. Request'
    BY <1>1 DEF DataInv, Request, NextBlock, file, transform, request, writer
<1>5. AllKept'
    BY <1>1 DEF DataInv, AllKept, Kept, file, transform, request
<1>6. ASSUME NEW q \in Clients PROVE ClientInv(q)'
  <2>1. ClientInv(q)
    BY DEF DataInv
  <2>2. CASE q # c
    <3>1. /\ cpc'[q] = cpc[q] /\ cblock'[q] = cblock[q]
          /\ cexpect'[q] = cexpect[q] /\ csince'[q] = csince[q]
        BY <2>2 DEF ClientNext, LookUp, request_read, ReadDone, TypeOK
    <3> QED
        BY <3>1, <2>1, <1>1 DEF ClientInv, Age, file, request
  <2>3. CASE q = c /\ LookUp(c)
    <3>1. PICK b \in Searchable :
              /\ cblock' = [cblock EXCEPT ![c] = b]
              /\ cexpect' = [cexpect EXCEPT ![c] = index[b]]
        BY <2>3 DEF LookUp
    <3>2. /\ cblock'[c] = b /\ cexpect'[c] = index[b]
          /\ csince'[c] = advances /\ cpc'[c] = "found"
        BY <2>3, <3>1 DEF LookUp, TypeOK
    <3>3. b \in Blocks /\ Age(b) > IndexSkip /\ index[b] # 0
        BY DEF Searchable
    <3>4. Age(b) \in Int /\ advances \in Nat /\ IndexSkip \in Nat
        BY <3>3, ArchiveAssumption DEF Age, Blocks, TypeOK
    <3> QED
        BY <2>3, <3>2, <3>3, <3>4, <1>1 DEF ClientInv, Age, file
  <2>4. CASE q = c /\ request_read(c)
    <3>1. /\ cpc[c] = "found" /\ cpc'[c] = "reading" /\ ~writing_active
          /\ UNCHANGED <<cblock, cexpect, csince>>
        BY <2>4 DEF request_read, TypeOK
    <3>2. ASSUME advances - csince[c] <= IndexSkip
          PROVE  disk[cblock[c]] = Whole(cexpect[c])
      <4>1. cblock[c] # current_major_block /\ cblock[c] \in Blocks
        BY <3>1, <3>2, <2>1, <2>4, OutOfReach DEF TypeOK
      <4>2. index[cblock[c]] = cexpect[c] /\ cexpect[c] # 0
        BY <3>1, <3>2, <2>1, <2>4 DEF ClientInv
      <4> QED
        BY <4>1, <4>2, <3>1 DEF DataInv, AllKept, Kept
    <3> QED
        BY <3>1, <3>2, <2>1, <2>4, <1>1 DEF ClientInv, Age, file, request
  <2>5. CASE q = c /\ ReadDone(c)
    BY <2>5 DEF ReadDone, ClientInv, TypeOK
  <2> QED
    BY <2>2, <2>3, <2>4, <2>5 DEF ClientNext
<1> QED
    BY <1>2, <1>3, <1>4, <1>5, <1>6 DEF DataInv

-----------------------------------------------------------------------------
(* Whatever fails: what the threads and the write request hold. *)

\* A transform thread that does not complete a block leaves the request and
\* the state of the process alone.
LEMMA QuietTransformWritten ==
    ASSUME TypeOK, OffsetInBlock, Gathered, Written, Stopped,
           TransformLoop \/ get_read_block \/ ProcessGap
    PROVE  Gathered' /\ Written' /\ Stopped'
<1>1. UNCHANGED <<file, current_buffer, content, request, writer, main>>
    BY DEF TransformLoop, get_read_block, ProcessGap
<1>2. tpc \notin {"scheduled", "exited"} /\ tpc' # "scheduled"
    BY DEF TransformLoop, get_read_block, ProcessGap
<1>3. Gathered'
  <2>1. CASE ProcessGap
    BY <2>1, <1>1 DEF ProcessGap, Gathered
  <2>2. CASE TransformLoop \/ get_read_block
    BY <2>2, <1>1 DEF TransformLoop, get_read_block, Gathered, file
  <2> QED
    BY <2>1, <2>2
<1>4. Written'
    BY <1>1, <1>2 DEF Written, request, file, writer, main, NextBlock
<1>5. Stopped'
    BY <1>1, <1>2 DEF Stopped, main, writer
<1> QED
    BY <1>3, <1>4, <1>5

LEMMA ProcessMinorWritten ==
    ASSUME TypeOK, OffsetInBlock, Gathered, Written, Stopped, ProcessMinor
    PROVE  Gathered' /\ Written' /\ Stopped'
<1>1. /\ UNCHANGED <<current_major_block, index, disk, current_buffer,
                     request, writer, main, attempt>>
      /\ content' = [content EXCEPT ![current_buffer][offset + 1] = attempt]
      /\ id_zero' = IF offset = 0
                    THEN [id_zero EXCEPT ![current_major_block] = attempt]
                    ELSE id_zero
      /\ offset' = offset + 1
    BY DEF ProcessMinor
<1>2. tpc \notin {"scheduled", "exited"} /\ tpc' # "scheduled"
    BY DEF ProcessMinor
<1>3. /\ current_buffer \in Buffers
      /\ content \in [Buffers -> [1 .. MinorBlocks -> Nat]]
      /\ current_major_block \in Blocks
      /\ writing_offset \in Blocks
      /\ id_zero \in [Blocks -> Nat]
      /\ offset \in 0 .. MinorBlocks /\ offset < MinorBlocks
    BY MinorBlocksPositive DEF TypeOK, OffsetInBlock, ProcessMinor
<1>4. Gathered'
  <2>1. \A k \in 1 .. offset + 1 : content'[current_buffer][k] = attempt
    BY <1>1, <1>3, MinorBlocksPositive DEF Gathered
  <2>2. id_zero'[current_major_block] = attempt
    BY <1>1, <1>3 DEF Gathered
  <2> QED
    BY <2>1, <2>2, <1>1, <1>2 DEF Gathered
<1>5. Written'
  <2>1. writing_active => content'[writing_block] = content[writing_block]
    BY <1>1, <1>3 DEF Written, Buffers
  <2>2. writing_active => writing_offset # current_major_block
    BY <1>2, <1>3, NextInRing DEF Written
  <2>3. writing_active => id_zero'[writing_offset] = id_zero[writing_offset]
    BY <2>2, <1>1, <1>3
  <2> QED
    BY <2>1, <2>3, <1>1, <1>2 DEF Written, request, writer, main, NextBlock
<1>6. Stopped'
    BY <1>1, <1>2 DEF Stopped, main, writer
<1> QED
    BY <1>4, <1>5, <1>6

LEMMA WriteMajorBlockWritten ==
    ASSUME TypeOK, OffsetInBlock, Gathered, Written, Stopped,
           write_major_block
    PROVE  Gathered' /\ Written' /\ Stopped'
<1>1. /\ UNCHANGED <<file, content, writer, main, attempt>>
      /\ writing_active'
      /\ writing_offset' = current_major_block
      /\ writing_block' = current_buffer
      /\ current_buffer' = 1 - current_buffer
      /\ offset' = 0
      /\ tpc' = "scheduled"
    BY DEF write_major_block
<1>2. ~writing_active /\ tpc = "locked"
    BY DEF write_major_block
<1>3. /\ current_buffer \in Buffers
      /\ content \in [Buffers -> [1 .. MinorBlocks -> Nat]]
      /\ offset = MinorBlocks
    BY <1>2 DEF TypeOK, OffsetInBlock
<1>4. Gathered'
    BY <1>1 DEF Gathered
<1>5. Written'
  <2>1. content[current_buffer] = Whole(attempt)
    BY <1>3 DEF Gathered, Whole
  <2>2. id_zero[current_major_block] = attempt
    BY <1>3, MinorBlocksPositive DEF Gathered
  <2>3. writing_block' = 1 - current_buffer'
    BY <1>1, <1>3 DEF Buffers
  <2>4. ~(wpc = "clear" /\ wok)
    BY <1>2 DEF Written
  <2> QED
    BY <2>1, <2>2, <2>3, <2>4, <1>1 DEF Written, file, writer, main
<1>6. Stopped'
    BY <1>1, <1>2 DEF Stopped, main, writer
<1> QED
    BY <1>4, <1>5, <1>6

LEMMA AdvanceIndexWritten ==
    ASSUME TypeOK, OffsetInBlock, Gathered, Written, Stopped, advance_index
    PROVE  Gathered' /\ Written' /\ Stopped'
<1>1. /\ UNCHANGED <<id_zero, disk, current_buffer, content, offset, request,
                     writer, main>>
      /\ index' = [index EXCEPT ![current_major_block] = attempt]
      /\ current_major_block' = NextBlock(current_major_block)
      /\ tpc = "scheduled" /\ tpc' = "check"
    BY DEF advance_index
<1>2. index'[current_major_block] = attempt
    BY <1>1 DEF TypeOK
<1>3. Gathered'
    BY <1>1 DEF Gathered, TypeOK
<1>4. Written'
    BY <1>1, <1>2 DEF Written, request, writer, main, NextBlock
<1>5. Stopped'
    BY <1>1 DEF Stopped, main, writer
<1> QED
    BY <1>3, <1>4, <1>5

LEMMA WriterWritten ==
    ASSUME TypeOK, OffsetInBlock, Gathered, Written, Stopped, WriterNext
    PROVE  Gathered' /\ Written' /\ Stopped'
<1>1. /\ UNCHANGED <<current_major_block, index, id_zero, transform,
                     writing_offset, writing_block, main, attempt>>
      /\ wpc # "exited"
    BY DEF WriterNext, WriterLoop, WriterWoken, WriterTest, WriteDone,
        WriteError, WriterClear, file, request
<1>2. Gathered'
    BY <1>1 DEF Gathered, transform
<1>3. Stopped'
    BY <1>1 DEF Stopped, main, transform
<1>4. Written'
  <2>1. CASE WriterLoop \/ WriterWoken
    <3>1. UNCHANGED <<request, disk, wok>> /\ wpc' \notin {"write", "clear"}
        BY <2>1 DEF WriterLoop, WriterWoken, file
    <3>2. (wpc' = "test" => writing_active \/ ~writer_running)
          /\ (wpc' \in {"wait", "test"} => wok)
        BY <2>1 DEF WriterLoop, WriterWoken, Written
    <3> QED
        BY <3>1, <3>2, <1>1 DEF Written, request, main, transform, NextBlock
  <2>2. CASE WriterTest
    <3>1. UNCHANGED request
        BY <2>2 DEF WriterTest
    <3>2. IF writing_active THEN wpc' = "write" /\ wok' = wok /\ wok
                            ELSE wpc' = "clear" /\ ~wok' /\ ~writer_running
        BY <2>2 DEF WriterTest, Written
    <3> QED
        BY <3>1, <3>2, <1>1 DEF Written, request, main, transform, NextBlock
  <2>3. CASE WriteDone
    <3>1. UNCHANGED <<request, wok>> /\ wpc' = "clear" /\ writing_active
        BY <2>3 DEF WriteDone, Written
    <3>2. disk'[writing_offset] = content[writing_block]
        BY <2>3 DEF WriteDone, TypeOK
    <3> QED
        BY <3>1, <3>2, <1>1 DEF Written, request, main, transform, NextBlock
  <2>4. CASE WriteError
    <3>1. UNCHANGED request /\ wpc' = "clear" /\ writing_active /\ ~wok'
        BY <2>4 DEF WriteError, Written
    <3> QED
        BY <3>1, <1>1 DEF Written, request, main, transform, NextBlock
  <2>5. CASE WriterClear
    BY <2>5 DEF WriterClear, Written
  <2> QED
    BY <2>1, <2>2, <2>3, <2>4, <2>5 DEF WriterNext
<1> QED
    BY <1>2, <1>3, <1>4

LEMMA RestartWritten ==
    ASSUME Restart
    PROVE  Gathered' /\ Written' /\ Stopped'
    BY DEF Restart, Gathered, Written, Stopped

\* The main program and the clients touch neither the buffers nor the request.
LEMMA OtherWritten ==
    ASSUME TypeOK, Gathered, Written, Stopped,
           UNCHANGED <<file, transform, request, writer, attempt>>,
           (mpc' = mpc /\ writer_running' = writer_running)
           \/ stop_writer_thread \/ MainNext
    PROVE  Gathered' /\ Written' /\ Stopped'
<1>1. Gathered'
    BY DEF Gathered, file, transform
<1>2. writer_running' => writer_running
    BY DEF stop_writer_thread, MainNext, InterruptReader, Terminated
<1>3. Written'
    BY <1>2 DEF Written, file, transform, request, writer, NextBlock
<1>4. Stopped'
    BY DEF Stopped, stop_writer_thread, MainNext, InterruptReader, Terminated,
        transform, writer
<1> QED
    BY <1>1, <1>3, <1>4

-----------------------------------------------------------------------------
(* Whatever fails: what it costs. *)

\* One more element makes a set larger by at most one.
LEMMA OneLarger ==
    ASSUME NEW S, NEW T, NEW x, IsFiniteSet(S), T \subseteq S \cup {x}
    PROVE  Cardinality(T) <= Cardinality(S) + 1
<1>1. IsFiniteSet(S \cup {x})
      /\ Cardinality(S \cup {x}) = IF x \in S THEN Cardinality(S)
                                              ELSE Cardinality(S) + 1
    BY FS_AddElement
<1>2. IsFiniteSet(T) /\ Cardinality(T) <= Cardinality(S \cup {x})
    BY <1>1, FS_Subset
<1>3. Cardinality(S) \in Nat /\ Cardinality(T) \in Nat
    BY <1>2, FS_CardinalityType
<1> QED
    BY <1>1, <1>2, <1>3

LEMMA GivenUpFinite ==
    IsFiniteSet(GivenUp) /\ Cardinality(GivenUp) \in Nat
<1>1. IsFiniteSet(Blocks)
    BY FS_Interval, ArchiveAssumption DEF Blocks
<1>2. GivenUp \in SUBSET Blocks
    BY DEF GivenUp
<1>3. IsFiniteSet(GivenUp)
    BY <1>1, <1>2, FS_Subset
<1> QED
    BY <1>3, FS_CardinalityType

\* A block is given up, or not, by the block numbers, the index, the file and
\* the request.
LEMMA GivenUpSame ==
    ASSUME UNCHANGED <<file, request>>,
           tpc' = "scheduled" <=> tpc = "scheduled",
           tpc = "scheduled" => attempt' = attempt
    PROVE  GivenUp' = GivenUp
    BY DEF GivenUp, Gone, file, request

\* However the payment is made, the faults so far cover the blocks given up.
LEMMA Covered ==
    ASSUME TypeOK, Owed \/ LastLook
    PROVE  Cardinality(GivenUp) <= Faults /\ Faults \in Nat
<1>1. Faults \in Nat
    BY DEF TypeOK, Faults
<1> HIDE DEF Faults
<1> QED
    BY <1>1, GivenUpFinite DEF Owed, LastLook

\* The transform thread gives nothing up by going round its loop.
LEMMA QuietTransformPaid ==
    ASSUME TypeOK, Stopped, Owed \/ LastLook,
           TransformLoop \/ get_read_block \/ ProcessGap
    PROVE  Owed' \/ LastLook'
<1>1. UNCHANGED <<file, request, writer, main, faults>>
    BY DEF TransformLoop, get_read_block, ProcessGap
<1>2. GivenUp' = GivenUp
    BY <1>1, GivenUpSame DEF TransformLoop, get_read_block, ProcessGap
<1>3. Faults' = Faults /\ Failed' = Failed
    BY <1>1 DEF Faults, Failed, faults, writer, request
<1>4. CASE Owed
  <2> QED
    BY <1>1, <1>2, <1>3, <1>4 DEF Owed, main
<1>5. CASE LastLook
  <2>1. OneMore' => OneMore
    BY <1>5 DEF OneMore, LastLook, Stopped, TransformLoop, get_read_block,
        ProcessGap
  <2>2. Faults \in Nat
    BY <1>5, Covered
  <2> QED
    BY <1>1, <1>2, <1>3, <1>5, <2>1, <2>2, GivenUpFinite
    DEF LastLook, main, writer, request
<1> QED
    BY <1>4, <1>5

LEMMA ProcessMinorPaid ==
    ASSUME TypeOK, OffsetInBlock, Owed \/ LastLook, ProcessMinor
    PROVE  Owed' \/ LastLook'
<1>1. /\ UNCHANGED <<current_major_block, index, disk, request, writer, main,
                     faults>>
      /\ tpc = "block" /\ tpc' # "scheduled"
    BY DEF ProcessMinor
<1>2. \A b \in Blocks : b # current_major_block => id_zero'[b] = id_zero[b]
    BY DEF ProcessMinor, TypeOK
<1>3. GivenUp' = GivenUp
    BY <1>1, <1>2 DEF GivenUp, Gone, request
<1>4. Faults' = Faults /\ Failed' = Failed /\ OneMore
    BY <1>1 DEF Faults, Failed, OneMore, faults, writer, request
<1>5. Owed => Owed'
    BY <1>1, <1>3, <1>4 DEF Owed, main
<1>6. LastLook => LastLook'
  <2>1. Faults \in Nat
    BY DEF Faults, TypeOK
  <2>2. ASSUME LastLook PROVE LastLook'
    BY <1>1, <1>3, <1>4, <2>1, <2>2, GivenUpFinite
    DEF LastLook, main, writer, request
  <2> QED
    BY <2>2
<1> QED
    BY <1>5, <1>6

\* A writer about to clear a request that is not there has stopped.
LEMMA IdleWriterStops ==
    ASSUME TypeOK, Written, Stopped, Owed \/ LastLook,
           wpc = "clear", ~writing_active
    PROVE  LastLook
<1>1. mpc # "up" /\ ~wok
    BY DEF Written, Stopped
<1>2. ASSUME Owed PROVE LastLook
  <2>1. Faults \in Nat
    BY DEF Faults, TypeOK
  <2> HIDE DEF Faults
  <2> QED
    BY <1>1, <1>2, <2>1, GivenUpFinite DEF LastLook, Owed, Failed
<1> QED
    BY <1>2

LEMMA WriteMajorBlockPaid ==
    ASSUME TypeOK, OffsetInBlock, Written, Stopped, Owed \/ LastLook,
           write_major_block
    PROVE  Owed' \/ LastLook'
<1>1. /\ UNCHANGED <<file, writer, main, faults, attempt>>
      /\ ~writing_active /\ writing_active'
      /\ writing_offset' = current_major_block
      /\ tpc = "locked" /\ tpc' = "scheduled"
    BY DEF write_major_block
<1>2. GivenUp' \in SUBSET GivenUp
    BY <1>1 DEF GivenUp, Gone, file
<1>3. Cardinality(GivenUp') <= Cardinality(GivenUp)
      /\ Cardinality(GivenUp') \in Nat
  <2>1. IsFiniteSet(GivenUp')
    BY <1>2, GivenUpFinite, FS_Subset
  <2> QED
    BY <1>2, <2>1, GivenUpFinite, FS_Subset, FS_CardinalityType
<1>4. Faults' = Faults /\ Faults \in Nat
    BY <1>1 DEF Faults, faults, TypeOK
<1>5. OneMore /\ ~OneMore'
    BY <1>1 DEF OneMore
<1> HIDE DEF Faults
<1>6. CASE LastLook
    BY <1>1, <1>3, <1>4, <1>5, <1>6, GivenUpFinite DEF LastLook, main, writer
<1>7. CASE Owed /\ wpc # "clear"
  <2>1. ~Failed /\ ~Failed'
    BY <1>1, <1>7 DEF Failed, writer
  <2> QED
    BY <1>1, <1>3, <1>4, <1>7, <2>1, GivenUpFinite DEF Owed, main
<1>8. CASE Owed /\ wpc = "clear"
  <2>1. LastLook
    BY <1>1, <1>8, IdleWriterStops
  <2> QED
    BY <2>1, <1>6
<1> QED
    BY <1>6, <1>7, <1>8

LEMMA AdvanceIndexPaid ==
    ASSUME TypeOK, Owed \/ LastLook, advance_index
    PROVE  Owed' \/ LastLook'
<1>1. /\ UNCHANGED <<id_zero, disk, request, writer, main, faults>>
      /\ index' = [index EXCEPT ![current_major_block] = attempt]
      /\ tpc = "scheduled" /\ tpc' = "check"
    BY DEF advance_index
<1>2. GivenUp' \in SUBSET GivenUp
  <2>1. /\ \A b \in Blocks : b # current_major_block => index'[b] = index[b]
        /\ index'[current_major_block] = attempt
    BY <1>1 DEF TypeOK
  <2> QED
    BY <1>1, <2>1 DEF GivenUp, Gone, request
<1>3. Cardinality(GivenUp') <= Cardinality(GivenUp)
      /\ Cardinality(GivenUp') \in Nat
  <2>1. IsFiniteSet(GivenUp')
    BY <1>2, GivenUpFinite, FS_Subset
  <2> QED
    BY <1>2, <2>1, GivenUpFinite, FS_Subset, FS_CardinalityType
<1>4. Faults' = Faults /\ Faults \in Nat /\ Failed' = Failed
    BY <1>1 DEF Faults, Failed, faults, writer, request, TypeOK
<1>5. ~OneMore'
    BY <1>1 DEF OneMore
<1> HIDE DEF Faults
<1>6. CASE LastLook
  <2>1. /\ mpc' # "up" /\ ~wok' /\ wpc' \in {"clear", "loop", "exited"}
        /\ ~(OneMore' /\ writing_active')
        /\ writing_active' => OneMore \/ writing_active
    BY <1>1, <1>5, <1>6 DEF LastLook, main, writer, request
  <2>2. Cardinality(GivenUp')
            + (IF OneMore' \/ writing_active' THEN 1 ELSE 0) <= Faults'
    BY <2>1, <1>3, <1>4, <1>5, <1>6, GivenUpFinite DEF LastLook
  <2> QED
    BY <2>1, <2>2 DEF LastLook
<1>7. CASE Owed
    BY <1>1, <1>3, <1>4, <1>7, GivenUpFinite DEF Owed, main
<1> QED
    BY <1>6, <1>7

\* What is lost when a request goes without its data being written is at most
\* the block it names.
LEMMA OneBlockLarger ==
    ASSUME GivenUp' \subseteq GivenUp \cup {writing_offset}
    PROVE  /\ Cardinality(GivenUp') \in Nat
           /\ Cardinality(GivenUp') <= Cardinality(GivenUp) + 1
<1>1. IsFiniteSet(GivenUp \cup {writing_offset})
    BY GivenUpFinite, FS_AddElement
<1>2. IsFiniteSet(GivenUp')
    BY <1>1, FS_Subset
<1> QED
    BY <1>2, GivenUpFinite, OneLarger, FS_CardinalityType

LEMMA NoLarger ==
    ASSUME GivenUp' \subseteq GivenUp
    PROVE  /\ Cardinality(GivenUp') \in Nat
           /\ Cardinality(GivenUp') <= Cardinality(GivenUp)
<1>1. IsFiniteSet(GivenUp')
    BY GivenUpFinite, FS_Subset
<1> QED
    BY <1>1, GivenUpFinite, FS_Subset, FS_CardinalityType

\* A write that fails, or that finds nothing to write, is paid for.
LEMMA WritingPaid ==
    ASSUME TypeOK, Written, Stopped, Owed \/ LastLook,
           WriterLoop \/ WriterWoken \/ WriterTest \/ WriteDone \/ WriteError
    PROVE  Owed' \/ LastLook'
<1>1. UNCHANGED <<current_major_block, index, id_zero, transform, request,
                   main, attempt, crashes, stops>>
    BY DEF WriterLoop, WriterWoken, WriterTest, WriteDone, WriteError, file,
        faults
<1>2. \A b \in Blocks :
        ~(writing_active /\ b = writing_offset) => disk'[b] = disk[b]
    BY DEF WriterLoop, WriterWoken, WriterTest, WriteDone, WriteError, file,
        Written, TypeOK
<1>3. GivenUp' = GivenUp
    BY <1>1, <1>2 DEF GivenUp, Gone, request, transform
<1>4. OneMore' = OneMore /\ Faults \in Nat
    BY <1>1 DEF OneMore, transform, Faults, TypeOK
<1>5. CASE WriterLoop
  <2>1. Faults' = Faults /\ ~Failed /\ ~Failed'
    BY <1>5 DEF WriterLoop, Faults, faults, Failed
  <2>2. Owed => Owed'
    BY <2>1, <1>1, <1>3 DEF Owed, main
  <2>3. LastLook => LastLook'
    BY <2>1, <1>1, <1>3, <1>4, <1>5 DEF LastLook, WriterLoop, main, request
  <2> QED
    BY <2>2, <2>3
<1>6. CASE WriterWoken \/ WriteDone
  <2>1. Faults' = Faults /\ ~Failed /\ ~Failed'
    BY <1>6 DEF WriterWoken, WriteDone, Written, Faults, faults, Failed
  <2>2. ~LastLook
    BY <1>6 DEF WriterWoken, WriteDone, LastLook
  <2> QED
    BY <2>1, <2>2, <1>1, <1>3 DEF Owed, main
<1>7. CASE WriterTest
  <2>1. Faults' = Faults /\ ~Failed /\ ~LastLook
    BY <1>7 DEF WriterTest, Faults, faults, Failed, LastLook
  <2>2. CASE writing_active
    <3>1. ~Failed'
        BY <1>7, <2>2 DEF WriterTest, Failed
    <3> QED
        BY <2>1, <3>1, <1>1, <1>3 DEF Owed, main
  <2>3. CASE ~writing_active
    <3>1. wpc' = "clear" /\ ~wok' /\ ~writing_active'
        BY <1>7, <2>3, <1>1 DEF WriterTest, request
    <3>2. mpc # "up" /\ mpc' = mpc
        BY <1>1, <1>7, <2>3 DEF WriterTest, Written, Stopped, main
    <3>3. Cardinality(GivenUp) + 1 <= Faults
        BY <2>1, <3>2, <1>4, GivenUpFinite DEF Owed
    <3> HIDE DEF Faults
    <3> QED
        BY <2>1, <3>1, <3>2, <3>3, <1>3, <1>4, GivenUpFinite DEF LastLook
  <2> QED
    BY <2>2, <2>3
<1>8. CASE WriteError
  <2>1. Faults' = Faults + 1 /\ ~Failed /\ ~LastLook
    BY <1>8, <1>1 DEF WriteError, Faults, Failed, LastLook, TypeOK
  <2> QED
    BY <2>1, <1>1, <1>3, <1>4, GivenUpFinite DEF Owed, main
<1> QED
    BY <1>5, <1>6, <1>7, <1>8

LEMMA WriterClearPaid ==
    ASSUME TypeOK, Written, Stopped, Owed \/ LastLook, WriterClear
    PROVE  Owed' \/ LastLook'
<1>1. /\ UNCHANGED <<file, transform, writing_offset, writing_block, wok,
                     main, attempt, faults>>
      /\ ~writing_active'
      /\ wpc = "clear" /\ wpc' = "loop"
    BY DEF WriterClear
<1>2. OneMore' = OneMore /\ Faults' = Faults /\ Faults \in Nat /\ ~Failed'
    BY <1>1 DEF OneMore, transform, Faults, faults, Failed, TypeOK
<1> HIDE DEF Faults
<1>3. CASE ~writing_active
  <2>1. LastLook
    BY <1>1, <1>3, IdleWriterStops
  <2>2. GivenUp' = GivenUp
    BY <1>1, <1>3 DEF GivenUp, Gone, file, transform
  <2> QED
    BY <2>1, <2>2, <1>1, <1>2, <1>3 DEF LastLook, main
<1>4. CASE writing_active /\ wok
  <2>1. Owed /\ ~Failed
    BY <1>4 DEF LastLook, Failed
  <2>2. disk[writing_offset] = content[writing_block]
    BY <1>1, <1>4 DEF Written
  <2>3. writing_offset \in Blocks /\ current_major_block \in Blocks
    BY DEF TypeOK
  <2>4. tpc # "scheduled" => writing_offset # current_major_block
    BY <1>4, <2>3, NextInRing DEF Written
  <2>5. GivenUp' \subseteq GivenUp
    BY <1>1, <1>4, <2>2, <2>4 DEF GivenUp, Gone, Written, file, transform
  <2> QED
    BY <2>1, <2>5, <1>1, <1>2, NoLarger, GivenUpFinite DEF Owed, main
<1>5. CASE writing_active /\ ~wok
  <2>1. GivenUp' \subseteq GivenUp \cup {writing_offset}
    BY <1>1 DEF GivenUp, Gone, file, transform
  <2>2. Failed
    BY <1>1, <1>5 DEF Failed
  <2>3. Cardinality(GivenUp') \in Nat
        /\ Cardinality(GivenUp') <= Cardinality(GivenUp) + 1
    BY <2>1, OneBlockLarger
  <2>4. Owed => Owed'
    BY <2>2, <2>3, <1>1, <1>2, GivenUpFinite DEF Owed, main
  <2>5. ASSUME LastLook PROVE LastLook'
    <3>1. ~OneMore /\ Cardinality(GivenUp) + 1 <= Faults
        BY <2>5, <1>5 DEF LastLook
    <3>2. /\ mpc' # "up" /\ ~wok' /\ wpc' \in {"clear", "loop", "exited"}
          /\ ~OneMore' /\ ~writing_active'
        BY <2>5, <3>1, <1>1, <1>2 DEF LastLook, main
    <3>3. Cardinality(GivenUp') <= Faults'
        BY <2>3, <3>1, <1>2, GivenUpFinite
    <3> QED
        BY <3>2, <3>3, <2>3 DEF LastLook
  <2> QED
    BY <2>4, <2>5
<1> QED
    BY <1>3, <1>4, <1>5

\* A process that starts again has lost the request of the one before it.
LEMMA RestartGivesUp ==
    ASSUME Restart
    PROVE  /\ GivenUp' \subseteq GivenUp \cup {writing_offset}
           /\ ~writing_active => GivenUp' \subseteq GivenUp
           /\ ~Failed' /\ mpc' = "up"
    BY DEF Restart, GivenUp, Gone, Failed, file

LEMMA CrashPaid ==
    ASSUME TypeOK, Owed \/ LastLook, Crash
    PROVE  Owed'
<1>1. Restart /\ Faults' = Faults + 1
    BY DEF Crash, Faults, TypeOK
<1>2. Cardinality(GivenUp') \in Nat
      /\ Cardinality(GivenUp') <= Cardinality(GivenUp) + 1
    BY <1>1, RestartGivesUp, OneBlockLarger
<1>3. Cardinality(GivenUp) <= Faults /\ Faults \in Nat
    BY Covered
<1>4. Cardinality(GivenUp') <= Faults'
    BY <1>1, <1>2, <1>3, GivenUpFinite
<1> QED
    BY <1>1, <1>2, <1>4, RestartGivesUp DEF Owed

\* The fault that a shutdown was pays for the request it may have left behind.
LEMMA StartAgainPaid ==
    ASSUME TypeOK, Stopped, Owed \/ LastLook, StartAgain
    PROVE  Owed'
<1>1. /\ Restart /\ UNCHANGED faults
      /\ mpc = "down" /\ tpc = "exited" /\ wpc = "exited"
    BY DEF StartAgain, Stopped
<1>2. Faults' = Faults /\ Faults \in Nat
    BY <1>1 DEF Faults, faults, TypeOK
<1> HIDE DEF Faults
<1>3. /\ Cardinality(GivenUp') \in Nat
      /\ Cardinality(GivenUp') <= Cardinality(GivenUp) + 1
      /\ ~writing_active => Cardinality(GivenUp') <= Cardinality(GivenUp)
    BY <1>1, RestartGivesUp, OneBlockLarger, NoLarger
<1>4. Cardinality(GivenUp) + (IF writing_active THEN 1 ELSE 0) <= Faults
  <2>1. CASE Owed
    BY <1>1, <1>2, <2>1, GivenUpFinite DEF Owed, Failed
  <2>2. CASE LastLook
    BY <1>1, <1>2, <2>2, GivenUpFinite DEF LastLook, OneMore
  <2> QED
    BY <2>1, <2>2
<1>5. Cardinality(GivenUp') <= Faults'
    BY <1>2, <1>3, <1>4, GivenUpFinite
<1> QED
    BY <1>1, <1>3, <1>5, RestartGivesUp DEF Owed

\* The main program and the clients lose nothing; a shutdown is paid for when
\* it begins.
LEMMA OtherPaid ==
    ASSUME TypeOK, Owed \/ LastLook,
           UNCHANGED <<file, transform, request, writer, attempt>>,
           (mpc' = mpc /\ UNCHANGED faults) \/ stop_writer_thread \/ MainNext
    PROVE  Owed' \/ LastLook'
<1>1. GivenUp' = GivenUp
    BY GivenUpSame DEF transform
<1>2. Failed' = Failed /\ OneMore' = OneMore /\ Faults \in Nat
    BY DEF Failed, OneMore, Faults, TypeOK, writer, request, transform
<1>3. CASE stop_writer_thread
  <2>1. Faults' = Faults + 1 /\ mpc = "up"
    BY <1>3 DEF stop_writer_thread, Faults, TypeOK
  <2>2. Owed
    BY <2>1 DEF LastLook
  <2> QED
    BY <2>1, <2>2, <1>1, <1>2, GivenUpFinite DEF Owed
<1>4. CASE (mpc' = mpc /\ UNCHANGED faults) \/ MainNext
  <2>1. Faults' = Faults /\ (mpc' = "up" <=> mpc = "up")
    BY <1>4 DEF Faults, faults, MainNext, InterruptReader, Terminated
  <2>2. Owed => Owed'
    BY <2>1, <1>1, <1>2 DEF Owed
  <2>3. LastLook => LastLook'
    BY <2>1, <1>1, <1>2 DEF LastLook, writer, request
  <2> QED
    BY <2>2, <2>3
<1> QED
    BY <1>3, <1>4

LEMMA LossInit == Init => LossInv
<1> SUFFICES ASSUME Init PROVE LossInv
    OBVIOUS
<1>1. Gathered /\ Written /\ Stopped
    BY DEF Init, Gathered, Written, Stopped
<1>2. GivenUp = {} /\ ~Failed /\ mpc = "up" /\ Faults = 0
    BY DEF Init, GivenUp, Failed, Faults
<1>3. Cardinality(GivenUp) = 0
    BY <1>2, FS_EmptySet
<1> HIDE DEF Faults
<1> QED
    BY <1>1, <1>2, <1>3 DEF LossInv, Owed

LEMMA LossNext ==
    TypeOK /\ OffsetInBlock /\ LossInv /\ [Next]_vars => LossInv'
<1> SUFFICES ASSUME TypeOK, OffsetInBlock, LossInv, [Next]_vars
             PROVE  LossInv'
    OBVIOUS
<1>1. Gathered /\ Written /\ Stopped /\ (Owed \/ LastLook)
    BY DEF LossInv
<1>2. CASE TransformLoop \/ get_read_block \/ ProcessGap
    BY <1>1, <1>2, QuietTransformWritten, QuietTransformPaid DEF LossInv
<1>3. CASE ProcessMinor
    BY <1>1, <1>3, ProcessMinorWritten, ProcessMinorPaid DEF LossInv
<1>4. CASE write_major_block
    BY <1>1, <1>4, WriteMajorBlockWritten, WriteMajorBlockPaid DEF LossInv
<1>5. CASE advance_index
    BY <1>1, <1>5, AdvanceIndexWritten, AdvanceIndexPaid DEF LossInv
<1>6. CASE WriterNext
    BY <1>1, <1>6, WriterWritten, WritingPaid, WriterClearPaid
    DEF LossInv, WriterNext
<1>7. CASE StartAgain
    BY <1>1, <1>7, RestartWritten, StartAgainPaid DEF LossInv, StartAgain
<1>8. CASE Crash
    BY <1>1, <1>8, RestartWritten, CrashPaid DEF LossInv, Crash
<1>9. CASE stop_writer_thread \/ MainNext
  <2>1. UNCHANGED <<file, transform, request, writer, attempt>>
    BY <1>9 DEF stop_writer_thread, MainNext, InterruptReader, Terminated
  <2> QED
    BY <1>1, <1>9, <2>1, OtherWritten, OtherPaid DEF LossInv
<1>10. CASE (\E c \in Clients : ClientNext(c)) \/ UNCHANGED vars
  <2>1. UNCHANGED <<file, transform, request, writer, main, attempt, faults>>
    BY <1>10 DEF ClientNext, LookUp, request_read, ReadDone, vars
  <2> QED
    BY <1>1, <2>1, OtherWritten, OtherPaid DEF LossInv, main
<1> QED
    BY <1>2, <1>3, <1>4, <1>5, <1>6, <1>7, <1>8, <1>9, <1>10
    DEF Next, TransformNext

-----------------------------------------------------------------------------
(* The theorems. *)

LEMMA InvInit == Init => IInv
<1> SUFFICES ASSUME Init PROVE IInv
    OBVIOUS
<1>1. TypeOK /\ OffsetInBlock
    BY TypeInit, OffsetInit
<1>2. Undisturbed
    BY DEF Init, Undisturbed
<1>3. Gathered /\ Request
    BY DEF Init, Gathered, Request
<1>4. AllKept
    BY DEF Init, AllKept
<1>5. \A c \in Clients : ClientInv(c)
    BY DEF Init, ClientInv, AtRest
<1> QED
    BY <1>1, <1>2, <1>3, <1>4, <1>5, LossInit DEF IInv, DataInv

LEMMA InvNext == IInv /\ [Next]_vars => IInv'
<1> SUFFICES ASSUME IInv, [Next]_vars PROVE IInv'
    OBVIOUS
<1>1. TypeOK /\ OffsetInBlock /\ TypeOK' /\ OffsetInBlock'
    BY TypeNext, OffsetNext DEF IInv
<1>2. ASSUME NoFaults' PROVE DataInv'
  <2>1. NoFaults
    <3>1. /\ errors \in Nat /\ crashes \in Nat /\ stops \in Nat
          /\ errors' = 0 /\ crashes' = 0 /\ stops' = 0
        BY <1>1, <1>2 DEF TypeOK, NoFaults
    <3>2. CASE TransformNext
        BY <3>1, <3>2 DEF TransformNext, TransformLoop, get_read_block,
            ProcessMinor, ProcessGap, write_major_block, advance_index, faults,
            NoFaults
    <3>3. CASE WriterNext
        BY <3>1, <3>3 DEF WriterNext, WriterLoop, WriterWoken, WriterTest,
            WriteDone, WriteError, WriterClear, faults, NoFaults
    <3>4. CASE MainNext \/ stop_writer_thread
        BY <3>1, <3>4 DEF MainNext, InterruptReader, Terminated,
            stop_writer_thread, faults, NoFaults
    <3>5. CASE StartAgain \/ Crash
        BY <3>1, <3>5 DEF StartAgain, Crash, faults, NoFaults
    <3>6. ASSUME NEW c \in Clients, ClientNext(c) PROVE NoFaults
        BY <3>1, <3>6 DEF ClientNext, LookUp, request_read, ReadDone, faults,
            NoFaults
    <3>7. CASE UNCHANGED vars
        BY <3>1, <3>7 DEF vars, faults, NoFaults
    <3> QED
        BY <3>2, <3>3, <3>4, <3>5, <3>6, <3>7 DEF Next
  <2>2. DataInv /\ mpc = "up"
    BY <2>1 DEF IInv, DataInv, Undisturbed
  <2>3. CASE TransformNext
    BY <2>3, <2>2, <1>1, QuietTransformInv, ProcessMinorInv,
       WriteMajorBlockInv, AdvanceIndexInv DEF TransformNext
  <2>4. CASE WriterNext
    <3>1. ~WriteError
        BY <2>1, <1>2 DEF WriteError, NoFaults
    <3> QED
        BY <3>1, <2>4, <2>2, <1>1, QuietWriterInv, DiskInv, WriterClearInv
        DEF WriterNext
  <2>5. ~(MainNext \/ StartAgain)
    BY <2>2 DEF MainNext, InterruptReader, Terminated, StartAgain
  <2>6. ~stop_writer_thread /\ ~Crash
    BY <2>1, <1>2 DEF stop_writer_thread, Crash, NoFaults
  <2>7. ASSUME NEW c \in Clients, ClientNext(c) PROVE DataInv'
    BY <2>7, <2>2, <1>1, ClientInvNext
  <2>8. CASE UNCHANGED vars
    <3>1. Undisturbed' /\ Gathered'
        BY <2>8, <2>2 DEF vars, file, transform, writer, main, DataInv,
            Undisturbed, Gathered
    <3>2. Request'
        BY <2>8, <2>2 DEF vars, file, transform, request, writer, DataInv,
            Request, NextBlock
    <3>3. AllKept'
        BY <2>8, <2>2 DEF vars, file, transform, request, DataInv, AllKept,
            Kept
    <3>4. \A c \in Clients : ClientInv(c)'
        BY <2>8, <2>2 DEF vars, file, request, clients, DataInv, ClientInv,
            Age
    <3> QED
        BY <3>1, <3>2, <3>3, <3>4 DEF DataInv
  <2> QED
    BY <2>3, <2>4, <2>5, <2>6, <2>7, <2>8 DEF Next
<1>3. LossInv'
    BY LossNext DEF IInv
<1> QED
    BY <1>1, <1>2, <1>3 DEF IInv

\* The inductive invariant of ArchiveInv: what the buffers, the write request
\* and the file hold at each point of the two threads' loops.
THEOREM Invariance == Spec => []IInv
    BY InvInit, InvNext, PTL DEF Spec

LEMMA NoFaultsSum ==
    TypeOK /\ errors + crashes + stops = 0 => NoFaults
    BY DEF TypeOK, NoFaults

\* As long as nothing fails, every major block but the current one that the
\* index calls valid can be read: it is in the file, or the write that
\* request_read waits for will put it there.
THEOREM ArchiveIsReadable == Spec => []BlocksReadable
<1>1. IInv => BlocksReadable
  <2> SUFFICES ASSUME IInv, errors + crashes + stops = 0 PROVE Lost = {}
    BY DEF BlocksReadable
  <2>1. DataInv
    BY NoFaultsSum DEF IInv
  <2>2. ASSUME NEW b \in Blocks, b # current_major_block, index[b] # 0
        PROVE  OnDisk(b) \/ Pending(b)
    <3>1. Kept(b, index[b])
        BY <2>1, <2>2 DEF DataInv, AllKept
    <3>2. writing_active /\ writing_offset = b =>
            content[writing_block] = Whole(index[b])
        BY <2>1, <2>2 DEF DataInv, Request
    <3> QED
        BY <3>1, <3>2 DEF Kept, OnDisk, Pending
  <2> QED
    BY <2>2 DEF Lost
<1> QED
    BY <1>1, Invariance, PTL

\* INDEX_SKIP works: what a client reads is what the index promised when it
\* looked the block up, unless the archiver has completed more than INDEX_SKIP
\* blocks since.
THEOREM ReadsAreSafe == Spec => []ReadsAreFresh
<1>1. IInv => ReadsAreFresh
  <2> SUFFICES ASSUME IInv, NEW c \in Clients, cpc[c] = "reading",
                      advances - csince[c] <= IndexSkip,
                      errors + crashes + stops = 0
               PROVE  disk[cblock[c]] = Whole(cexpect[c])
    BY DEF ReadsAreFresh
  <2>1. ClientInv(c)
    BY NoFaultsSum DEF IInv, DataInv
  <2> QED
    BY <2>1 DEF ClientInv
<1> QED
    BY <1>1, Invariance, PTL

\* Whatever fails, and in whatever order, the archive has lost at most one
\* block that its index says it has for each write error, each crash and each
\* shutdown there has been.
THEOREM LossIsBounded == Spec => []LossBounded
<1>1. IInv => LossBounded
  <2> SUFFICES ASSUME IInv PROVE LossBounded
    OBVIOUS
  <2>1. TypeOK /\ Written /\ (Owed \/ LastLook)
    BY DEF IInv, LossInv
  <2>2. ASSUME NEW b \in Lost PROVE b \in GivenUp
    <3>1. /\ b \in Blocks /\ b # current_major_block /\ index[b] # 0
          /\ ~OnDisk(b) /\ ~Pending(b)
        BY DEF Lost
    <3>2. ~(writing_active /\ writing_offset = b)
        BY <2>1, <3>1 DEF Written, Pending
    <3> QED
        BY <3>1, <3>2 DEF GivenUp, Gone, OnDisk
  <2>3. IsFiniteSet(Lost) /\ Cardinality(Lost) <= Cardinality(GivenUp)
    BY <2>2, GivenUpFinite, FS_Subset
  <2>4. Cardinality(Lost) \in Nat
    BY <2>3, FS_CardinalityType
  <2>5. Cardinality(GivenUp) <= Faults /\ Faults \in Nat
    BY <2>1, Covered
  <2>6. Cardinality(Lost) <= Faults
    BY <2>3, <2>4, <2>5, GivenUpFinite
  <2> QED
    BY <2>6 DEF LossBounded, Faults
<1> QED
    BY <1>1, Invariance, PTL

=============================================================================
