---------------------------- MODULE ArchiverProofs ----------------------------
(***************************************************************************)
(* Proofs about the archiver as a process, for any sizes of file, any      *)
(* number of clients and of starts, preparations and pieces of data: the   *)
(* archive file it shares with fa-prepare, the order in which main brings  *)
(* its parts up and down, and the threads of the server.                   *)
(***************************************************************************)
EXTENDS Archiver, SequenceTheorems, TLAPS

-----------------------------------------------------------------------------
(* The inductive invariant, a part for each module. *)

Preparing == {"locked", "index", "fill", "done", "dumping"}

\* The lock is held by the one that is past lock_archive; an index that is not
\* the header's is one that fa-prepare has yet to reset, or never will.
FileInv ==
    /\ FileTypeOK
    /\ ppc \in Preparing => locked_by = "prepare"
    /\ dpc \in {"locked", "attached"} => locked_by = "archiver"
    /\ ppc = "index" => head.from = preparation
    /\ ~torn => index_from = head.from
    /\ MappedIsConsistent

\* How many entries the stack of a thread has, by where the thread is.
Height(pc) ==
    CASE pc \in {"absent", "started", "close", "closed"} -> 0
      [] pc = "parsed" -> 2
      [] OTHER -> 1

IsData(a) == a = [i \in DOMAIN a |-> IF i = 1 THEN "nul" ELSE "data"]

\* A client thread: its stack, what it holds, and what it has answered.
ThreadInv(c) ==
    /\ Len(error_stack[c]) = Height(cpc[c])
    /\ cpc[c] \notin {"parsed", "send", "release"} => held[c] = {}
    /\ cpc[c] \in {"started", "line", "parsed"} => answer[c] = <<>>
    /\ cpc[c] = "dispatched" /\ command[c] \in {"R", "S"} => answer[c] = <<>>
    /\ cpc[c] = "send" => answer[c] # <<>> /\ IsData(answer[c])
    /\ command[c] \in {"R", "S"} =>
        answer[c] \in {<<>>, <<"error">>} \/ IsData(answer[c])

ServerInv == ServerTypeOK /\ \A c \in Clients : ThreadInv(c)

Detached == {"down", "disk", "unlink"}
NoWriter == {"down", "disk", "daemonise", "close_disk", "unlink"}

\* The main thread: what it has mapped and started, by where it is.
MainInv ==
    /\ mpc \in {"down", "disk", "daemonise", "start", "serving", "running",
                "stop_sniffer", "stop_decimation", "stop_disk_writer",
                "close_disk", "unlink"}
    /\ threads \subseteq Threads
    /\ shutdown_semaphore \in BOOLEAN /\ pid_file \in BOOLEAN
    /\ abandoned \in BOOLEAN /\ writing_active \in BOOLEAN
    /\ starts \in 0 .. MaxStarts
    /\ mpc \in {"down", "unlink"} => dpc = "closed"
    /\ mpc \notin Detached => dpc = "attached"
    /\ mpc \in NoWriter => threads \cap {"writer", "transform"} = {}
    /\ PidFileTellsTheTruth

IInv == FileInv /\ ServerInv /\ MainInv

-----------------------------------------------------------------------------
(* The archive file. *)

LEMMA NoHeaderType ==
    /\ NoHeader \in [from : 0 .. MaxPreparations, size : {0} \cup Sizes]
    /\ NoHeader.from = 0
    BY FileAssumption DEF NoHeader

LEMMA FileInit == InitFile => FileInv
<1> SUFFICES ASSUME InitFile PROVE FileInv
    OBVIOUS
<1>1. FileTypeOK
    BY FileAssumption, NoHeaderType DEF InitFile, FileTypeOK, None
<1>2. MappedIsConsistent
    BY DEF InitFile, MappedIsConsistent
<1> QED
    BY <1>1, <1>2, NoHeaderType DEF InitFile, FileInv, Preparing

\* fa-prepare changes header, index and size only while it has the lock, except
\* for the truncation, which is recorded.
LEMMA PrepareKeepsFile ==
    ASSUME FileInv, PrepareNext PROVE FileInv'
<1> USE FileAssumption DEF FileInv, FileTypeOK, None, Preparing,
        MappedIsConsistent, file, disk_fd
<1>1. CASE PrepareOpens
  <2>1. PICK size \in {0} \cup Sizes : open_archive(size)
    BY <1>1 DEF PrepareOpens
  <2>2. CASE size > 0
    <3>1. truncated' = (dpc = "attached")
        BY <2>1, <2>2 DEF open_archive
    <3>2. truncated' \in BOOLEAN
        BY <3>1
    <3>3. /\ file_size' = 0 /\ head' = NoHeader /\ index_from' = 0
          /\ wanted' = size /\ torn' = FALSE /\ ppc' = "opened"
          /\ preparation' = preparation + 1 /\ preparation < MaxPreparations
          /\ ppc = "idle"
          /\ UNCHANGED <<locked_by, dpc, attached>>
        BY <1>1, <2>1, <2>2 DEF PrepareOpens, open_archive
    <3>4. FileTypeOK'
      <4>1. size \in {0} \cup Sizes /\ preparation + 1 \in 0 .. MaxPreparations
        BY <3>3
      <4> QED
        BY <3>2, <3>3, <4>1, NoHeaderType
    <3>5. MappedIsConsistent'
        BY <3>1, <3>3
    <3>6. ~torn' => index_from' = head'.from
        BY <3>3, NoHeaderType
    <3>7. /\ ppc' \in Preparing => locked_by' = "prepare"
          /\ dpc' \in {"locked", "attached"} => locked_by' = "archiver"
          /\ ppc' = "index" => head'.from = preparation'
        BY <3>3
    <3> QED
        BY <3>4, <3>5, <3>6, <3>7 DEF FileInv
  <2>3. CASE ~(size > 0)
    BY <1>1, <2>1, <2>3 DEF PrepareOpens, open_archive
  <2> QED
    BY <2>2, <2>3
<1>2. CASE PrepareLocks
    BY <1>2 DEF PrepareLocks, lock_archive
<1>3. CASE WriteHeader
    BY <1>3 DEF WriteHeader
<1>4. CASE reset_index
    BY <1>4 DEF reset_index
<1>5. CASE fill_zeros
    BY <1>5 DEF fill_zeros
<1>6. CASE PrepareEnds
    BY <1>6 DEF PrepareEnds
<1>7. CASE DumpIndex
    BY <1>7 DEF DumpIndex, lock_archive, validate_header
<1> QED
    BY <1>1, <1>2, <1>3, <1>4, <1>5, <1>6, <1>7 DEF PrepareNext

\* The archiver changes nothing in the file, and maps it while it has the lock.
LEMMA DiskKeepsFile ==
    ASSUME FileInv, OpenDisk \/ LockDisk \/ MapDisk \/ CloseDisk
    PROVE  FileInv'
<1> USE FileAssumption DEF FileInv, FileTypeOK, None, Preparing,
        MappedIsConsistent, file, prepare, rest_of_file
<1>1. CASE OpenDisk
    BY <1>1 DEF OpenDisk
<1>2. CASE LockDisk
    BY <1>2 DEF LockDisk, lock_archive
<1>3. CASE MapDisk
    BY <1>3 DEF MapDisk, validate_header
<1>4. CASE CloseDisk
    BY <1>4, NoHeaderType DEF CloseDisk
<1> QED
    BY <1>1, <1>2, <1>3, <1>4

LEMMA FileUnchanged ==
    ASSUME FileInv, UNCHANGED archive PROVE FileInv'
    BY DEF FileInv, FileTypeOK, MappedIsConsistent, archive, file, prepare,
        disk_fd

-----------------------------------------------------------------------------
(* The stacks of error messages. *)

Stacks == Seq(BOOLEAN)

LEMMA PushGrows ==
    ASSUME NEW s \in Stacks
    PROVE  /\ push_error_handling(s) \in Stacks
           /\ Len(push_error_handling(s)) = Len(s) + 1
<1>1. <<FALSE>> \in Stacks /\ Len(<<FALSE>>) = 1
    BY DEF Stacks
<1> QED
    BY <1>1, ConcatProperties DEF push_error_handling, Stacks

LEMMA PopShrinks ==
    ASSUME NEW s \in Stacks, Len(s) > 0
    PROVE  /\ pop_error_handling(s) \in Stacks
           /\ Len(pop_error_handling(s)) = Len(s) - 1
<1>1. s # <<>>
    BY EmptySeq
<1> QED
    BY <1>1, HeadTailProperties DEF pop_error_handling, Stacks

LEMMA PrintKeepsHeight ==
    ASSUME NEW s \in Stacks
    PROVE  /\ print_error(s) \in Stacks
           /\ Len(print_error(s)) = Len(s)
<1>1. CASE s = <<>>
    BY <1>1 DEF print_error
<1>2. CASE s # <<>>
  <2>1. Tail(s) \in Stacks /\ Len(Tail(s)) = Len(s) - 1 /\ Len(s) \in Nat
    BY <1>2, HeadTailProperties, LenProperties DEF Stacks
  <2>2. <<TRUE>> \in Stacks /\ Len(<<TRUE>>) = 1
    BY DEF Stacks
  <2> QED
    BY <1>2, <2>1, <2>2, ConcatProperties DEF print_error, Stacks
<1> QED
    BY <1>1, <1>2

-----------------------------------------------------------------------------
(* What has been sent. *)

Pieces == {"line", "error", "nul", "data"}

LEMMA NonEmpty ==
    ASSUME NEW a \in Seq(Pieces), NEW x \in Pieces
    PROVE  Append(a, x) \in Seq(Pieces) /\ Append(a, x) # <<>>
<1>1. /\ Append(a, x) \in Seq(Pieces)
      /\ Len(Append(a, x)) = Len(a) + 1 /\ Len(a) \in Nat
    BY AppendProperties, LenProperties
<1> QED
    BY <1>1, EmptySeq

LEMMA NulIsData ==
    Append(<<>>, "nul") # <<>> /\ IsData(Append(<<>>, "nul"))
<1>1. Append(<<>>, "nul") = [i \in 1 .. 1 |-> "nul"]
    OBVIOUS
<1>2. DOMAIN Append(<<>>, "nul") = 1 .. 1
    BY <1>1
<1> QED
    BY <1>1, <1>2 DEF IsData

LEMMA DataIsData ==
    ASSUME NEW a \in Seq(Pieces), a # <<>>, IsData(a)
    PROVE  Append(a, "data") # <<>> /\ IsData(Append(a, "data"))
<1> DEFINE n == Len(a)
           b == Append(a, "data")
<1>1. n \in Nat /\ n > 0 /\ DOMAIN a = 1 .. n
    BY EmptySeq, LenProperties
<1>2. /\ b \in Seq(Pieces) /\ b # <<>> /\ Len(b) = n + 1
      /\ \A i \in 1 .. n : b[i] = a[i]
      /\ b[n + 1] = "data"
  <2>1. "data" \in Pieces
    BY DEF Pieces
  <2> QED
    BY <2>1, AppendProperties
<1>3. b \in [1 .. n + 1 -> Pieces]
    BY <1>2, LenProperties
<1>4. \A i \in 1 .. n : a[i] = IF i = 1 THEN "nul" ELSE "data"
    BY <1>1 DEF IsData
<1> HIDE DEF n, b
<1>5. b = [i \in 1 .. n + 1 |-> IF i = 1 THEN "nul" ELSE "data"]
    BY <1>1, <1>2, <1>3, <1>4
<1>6. DOMAIN b = 1 .. n + 1
    BY <1>3
<1> QED
    BY <1>2, <1>5, <1>6 DEF IsData, b

LEMMA ErrorIsAnswer == Append(<<>>, "error") = <<"error">>
    OBVIOUS

-----------------------------------------------------------------------------
(* The client threads. *)

\* What a step of the thread of c leaves of the other threads.
Others(c) ==
    /\ \A d \in Clients \ {c} :
        /\ cpc'[d] = cpc[d] /\ command'[d] = command[d]
        /\ error_stack'[d] = error_stack[d] /\ held'[d] = held[d]
        /\ answer'[d] = answer[d]

LEMMA OneThread ==
    ASSUME ServerInv, NEW c \in Clients,
           ServerTypeOK', Others(c), ThreadInv(c)'
    PROVE  ServerInv'
<1>1. ASSUME NEW d \in Clients, d # c PROVE ThreadInv(d)'
    BY <1>1 DEF ServerInv, Others, ThreadInv
<1> QED
    BY <1>1 DEF ServerInv

LEMMA ServerInit == InitServer => ServerInv
<1> SUFFICES ASSUME InitServer PROVE ServerInv
    OBVIOUS
<1>1. ServerTypeOK
    BY ServerAssumption DEF InitServer, ServerTypeOK, Commands
<1>2. ASSUME NEW c \in Clients PROVE ThreadInv(c)
    BY EmptySeq DEF InitServer, ThreadInv, Height
<1> QED
    BY <1>1, <1>2 DEF ServerInv

LEMMA ServerEnds == EndServer => ServerInv'
<1> SUFFICES ASSUME EndServer PROVE ServerInv'
    OBVIOUS
<1>1. ServerTypeOK'
    BY ServerAssumption DEF EndServer, ServerTypeOK, Commands
<1>2. ASSUME NEW c \in Clients PROVE ThreadInv(c)'
    BY EmptySeq DEF EndServer, ThreadInv, Height
<1> QED
    BY <1>1, <1>2 DEF ServerInv

LEMMA ServerUnchanged ==
    ASSUME ServerInv, UNCHANGED <<client, client_list, lost>>,
           accepting' \in {"no", "yes", "cancelled"}
    PROVE  ServerInv'
    BY DEF ServerInv, ServerTypeOK, ThreadInv, client

\* The type of what a thread has, so that one lemma serves all its steps.
Thread(c) ==
    /\ cpc[c] \in {"absent", "started", "line", "dispatched", "parsed", "send",
                   "release", "pop", "close", "closed"}
    /\ error_stack[c] \in Stacks
    /\ answer[c] \in Seq(Pieces)
    /\ Len(error_stack[c]) = Height(cpc[c])

LEMMA ThreadFacts ==
    ASSUME ServerInv, NEW c \in Clients PROVE Thread(c) /\ ThreadInv(c)
    BY DEF ServerInv, ServerTypeOK, ThreadInv, Thread, Stacks, Pieces

\* A write that may fail: an entry may get a message, nothing else changes.
LEMMA WriteKeepsHeight ==
    ASSUME ServerInv, NEW c \in Clients, NEW s \in Stacks,
           NEW what \in Pieces, write(c, what, s)
    PROVE  /\ error_stack' \in [Clients -> Stacks]
           /\ Len(error_stack'[c]) = Len(s)
           /\ answer' \in [Clients -> Seq(Pieces)]
           /\ answer'[c] \in {answer[c], Append(answer[c], what)}
           /\ \A d \in Clients \ {c} :
                error_stack'[d] = error_stack[d] /\ answer'[d] = answer[d]
<1>0. /\ error_stack \in [Clients -> Stacks]
      /\ answer \in [Clients -> Seq(Pieces)]
    BY DEF ServerInv, ServerTypeOK, Stacks, Pieces
<1>1. CASE send(c, what) /\ stack(c, s)
  <2>1. Append(answer[c], what) \in Seq(Pieces)
    BY <1>0, NonEmpty
  <2> QED
    BY <1>0, <1>1, <2>1 DEF send, stack
<1>2. CASE UNCHANGED answer /\ stack(c, print_error(s))
    BY <1>0, <1>2, PrintKeepsHeight DEF stack
<1> QED
    BY <1>1, <1>2 DEF write

\* Steps that change neither the stack nor the answer.
LEMMA QuietSteps ==
    ASSUME ServerInv, NEW c \in Clients,
           \/ read_line(c) \/ process_command_ends(c) \/ take_resource(c)
           \/ release(c) \/ close_connection(c) \/ remove_client(c)
    PROVE  ServerInv'
<1> USE ServerAssumption, ThreadFacts DEF ThreadInv, Thread, Height, goto
<1>1. CASE read_line(c)
  <2>1. ServerTypeOK'
    BY <1>1 DEF ServerInv, ServerTypeOK, read_line
  <2>2. Others(c)
    BY <1>1 DEF ServerInv, ServerTypeOK, read_line, Others
  <2>3. ThreadInv(c)'
    BY <1>1 DEF ServerInv, ServerTypeOK, read_line
  <2> QED
    BY <2>1, <2>2, <2>3, OneThread
<1>2. CASE process_command_ends(c)
  <2>1. ServerTypeOK'
    BY <1>2 DEF ServerInv, ServerTypeOK, process_command_ends
  <2>2. Others(c)
    BY <1>2 DEF ServerInv, ServerTypeOK, process_command_ends, Others
  <2>3. ThreadInv(c)'
    BY <1>2 DEF ServerInv, ServerTypeOK, process_command_ends
  <2> QED
    BY <2>1, <2>2, <2>3, OneThread
<1>3. CASE take_resource(c)
  <2>1. ServerTypeOK'
    <3>1. PICK i \in DOMAIN Needed(c) :
            held' = [held EXCEPT ![c] = @ \cup {Needed(c)[i]}]
        BY <1>3 DEF take_resource
    <3>2. Needed(c)[i] \in {"buffers", "archive", "reader"}
        BY DEF Needed
    <3> QED
        BY <1>3, <3>1, <3>2 DEF ServerInv, ServerTypeOK, take_resource
  <2>2. Others(c)
    BY <1>3 DEF ServerInv, ServerTypeOK, take_resource, Others
  <2>3. ThreadInv(c)'
    BY <1>3 DEF ServerInv, ServerTypeOK, take_resource
  <2> QED
    BY <2>1, <2>2, <2>3, OneThread
<1>4. CASE release(c)
  <2>1. ServerTypeOK'
    BY <1>4 DEF ServerInv, ServerTypeOK, release
  <2>2. Others(c)
    BY <1>4 DEF ServerInv, ServerTypeOK, release, Others
  <2>3. ThreadInv(c)'
    BY <1>4 DEF ServerInv, ServerTypeOK, release
  <2> QED
    BY <2>1, <2>2, <2>3, OneThread
<1>5. CASE close_connection(c)
  <2>1. ServerTypeOK'
    BY <1>5 DEF ServerInv, ServerTypeOK, close_connection
  <2>2. Others(c)
    BY <1>5 DEF ServerInv, ServerTypeOK, close_connection, Others
  <2>3. ThreadInv(c)'
    BY <1>5 DEF ServerInv, ServerTypeOK, close_connection
  <2> QED
    BY <2>1, <2>2, <2>3, OneThread
<1>6. CASE remove_client(c)
  <2>1. ServerTypeOK'
    BY <1>6 DEF ServerInv, ServerTypeOK, remove_client
  <2>2. Others(c)
    BY <1>6 DEF ServerInv, ServerTypeOK, remove_client, Others
  <2>3. ThreadInv(c)'
    BY <1>6 DEF ServerInv, ServerTypeOK, remove_client
  <2> QED
    BY <2>1, <2>2, <2>3, OneThread
<1> QED
    BY <1>1, <1>2, <1>3, <1>4, <1>5, <1>6

\* Steps with the stack or the answer of the thread.
LEMMA LoudSteps ==
    ASSUME ServerInv, NEW c \in Clients,
           \/ add_client(c) \/ read_line_fails(c)
           \/ process_error(c) \/ process_letter(c)
           \/ parse_request(c) \/ refuse_request(c) \/ accept_request(c)
           \/ send_data(c) \/ send_ends(c) \/ dispatch_ends(c)
    PROVE  ServerInv'
<1>0. /\ Thread(c) /\ ThreadInv(c) /\ ServerTypeOK
      /\ {"line", "error", "nul", "data"} \subseteq Pieces
    BY ThreadFacts DEF ServerInv, Pieces
<1> USE ServerAssumption DEF goto
<1>1. CASE add_client(c)
  <2>1. /\ cpc[c] = "started"
        /\ error_stack[c] \in Stacks /\ Len(error_stack[c]) = 0
    BY <1>0, <1>1 DEF Thread, Height, add_client
  <2> DEFINE s == push_error_handling(error_stack[c])
  <2>2. s \in Stacks /\ Len(s) = 1
    <3>1. s \in Stacks /\ Len(s) = Len(error_stack[c]) + 1
        BY <2>1, PushGrows
    <3> QED
        BY <2>1, <3>1
  <2>6. error_stack' = [error_stack EXCEPT ![c] = s]
    BY <1>1 DEF add_client, stack
  <2> HIDE DEF s
  <2>7. ServerTypeOK'
    BY <1>0, <1>1, <2>1, <2>2, <2>6 DEF ServerTypeOK, add_client, Stacks, Pieces
  <2>8. Others(c)
    BY <1>0, <1>1, <2>1, <2>2, <2>6 DEF ServerTypeOK, add_client, Others
  <2>9. ThreadInv(c)'
    <3>1. Len(error_stack'[c]) = Height(cpc'[c])
        BY <1>0, <1>1, <2>1, <2>2, <2>6 DEF ServerTypeOK, Height, add_client
    <3> QED
        BY <1>0, <1>1, <2>1, <2>2, <2>6, <3>1 DEF ServerTypeOK, ThreadInv, add_client
  <2> QED
    BY <2>7, <2>8, <2>9, OneThread
<1>2. CASE read_line_fails(c)
  <2>1. /\ cpc[c] = "line"
        /\ error_stack[c] \in Stacks /\ Len(error_stack[c]) = 1
    BY <1>0, <1>2 DEF Thread, Height, read_line_fails
  <2> DEFINE s == pop_error_handling(print_error(error_stack[c]))
  <2>2. s \in Stacks /\ Len(s) = 0
    <3>1. /\ print_error(error_stack[c]) \in Stacks
          /\ Len(print_error(error_stack[c])) = Len(error_stack[c])
        BY <2>1, PrintKeepsHeight
    <3>2. Len(print_error(error_stack[c])) > 0
        BY <2>1, <3>1
    <3>3. s \in Stacks /\ Len(s) = Len(print_error(error_stack[c])) - 1
        BY <3>1, <3>2, PopShrinks
    <3> QED
        BY <2>1, <3>1, <3>3
  <2>3. write(c, "error", s)
    BY <1>2 DEF read_line_fails
  <2> HIDE DEF s
  <2>4. /\ error_stack' \in [Clients -> Stacks]
        /\ Len(error_stack'[c]) = Len(s)
        /\ answer' \in [Clients -> Seq(Pieces)]
        /\ answer'[c] \in {answer[c], Append(answer[c], "error")}
        /\ \A d \in Clients \ {c} :
            error_stack'[d] = error_stack[d] /\ answer'[d] = answer[d]
    BY <1>0, <2>2, <2>3, WriteKeepsHeight
  <2>7. ServerTypeOK'
    BY <1>0, <1>2, <2>1, <2>2, <2>4 DEF ServerTypeOK, read_line_fails, Stacks, Pieces
  <2>8. Others(c)
    BY <1>0, <1>2, <2>1, <2>2, <2>4 DEF ServerTypeOK, read_line_fails, Others
  <2>9. ThreadInv(c)'
    <3>1. Len(error_stack'[c]) = Height(cpc'[c])
        BY <1>0, <1>2, <2>1, <2>2, <2>4 DEF ServerTypeOK, Height, read_line_fails
    <3> QED
        BY <1>0, <1>2, <2>1, <2>2, <2>4, <3>1, ErrorIsAnswer DEF ServerTypeOK, ThreadInv, read_line_fails
  <2> QED
    BY <2>7, <2>8, <2>9, OneThread
<1>3. CASE process_error(c)
  <2>1. /\ cpc[c] = "dispatched"
        /\ error_stack[c] \in Stacks /\ Len(error_stack[c]) = 1
    BY <1>0, <1>3 DEF Thread, Height, process_error
  <2> DEFINE s == error_stack[c]
  <2>2. s \in Stacks /\ Len(s) = 1
    BY <2>1, <2>1
  <2>3. write(c, "error", s)
    BY <1>3 DEF process_error
  <2> HIDE DEF s
  <2>4. /\ error_stack' \in [Clients -> Stacks]
        /\ Len(error_stack'[c]) = Len(s)
        /\ answer' \in [Clients -> Seq(Pieces)]
        /\ answer'[c] \in {answer[c], Append(answer[c], "error")}
        /\ \A d \in Clients \ {c} :
            error_stack'[d] = error_stack[d] /\ answer'[d] = answer[d]
    BY <1>0, <2>2, <2>3, WriteKeepsHeight
  <2>7. ServerTypeOK'
    BY <1>0, <1>3, <2>1, <2>2, <2>4 DEF ServerTypeOK, process_error, Stacks, Pieces
  <2>8. Others(c)
    BY <1>0, <1>3, <2>1, <2>2, <2>4 DEF ServerTypeOK, process_error, Others
  <2>9. ThreadInv(c)'
    <3>1. Len(error_stack'[c]) = Height(cpc'[c])
        BY <1>0, <1>3, <2>1, <2>2, <2>4 DEF ServerTypeOK, Height, process_error
    <3> QED
        BY <1>0, <1>3, <2>1, <2>2, <2>4, <3>1, ErrorIsAnswer DEF ServerTypeOK, ThreadInv, process_error
  <2> QED
    BY <2>7, <2>8, <2>9, OneThread
<1>4. CASE process_letter(c)
  <2>1. /\ cpc[c] = "dispatched"
        /\ error_stack[c] \in Stacks /\ Len(error_stack[c]) = 1
    BY <1>0, <1>4 DEF Thread, Height, process_letter
  <2> DEFINE s == print_error(error_stack[c])
  <2>2. s \in Stacks /\ Len(s) = 1
    BY <2>1, PrintKeepsHeight
  <2>5. Append(answer[c], "line") \in Seq(Pieces)
    BY <1>0, NonEmpty DEF Thread
  <2>6. \/ /\ answer' = [answer EXCEPT ![c] = Append(@, "line")]
           /\ UNCHANGED <<cpc, error_stack>>
           /\ left[c] > 0 /\ left' = [left EXCEPT ![c] = @ - 1]
        \/ /\ error_stack' = [error_stack EXCEPT ![c] = s]
           /\ cpc' = [cpc EXCEPT ![c] = "pop"]
           /\ UNCHANGED <<answer, left>>
    BY <1>4 DEF process_letter, stack, send
  <2> HIDE DEF s
  <2>7. ServerTypeOK'
    <3>1. error_stack' \in [Clients -> Stacks]
        BY <1>0, <2>2, <2>6 DEF ServerTypeOK, Stacks
    <3>2. answer' \in [Clients -> Seq(Pieces)]
        BY <1>0, <2>5, <2>6 DEF ServerTypeOK, Pieces
    <3>3. left' \in [Clients -> Nat]
      <4>1. left \in [Clients -> Nat]
        BY <1>0 DEF ServerTypeOK
      <4>2. CASE UNCHANGED left
        BY <4>1, <4>2
      <4>3. CASE left[c] > 0 /\ left' = [left EXCEPT ![c] = @ - 1]
        <5>1. left[c] - 1 \in Nat
            BY <4>1, <4>3
        <5> QED
            BY <4>1, <4>3, <5>1
      <4> QED
        BY <2>6, <4>2, <4>3
    <3>4. UNCHANGED <<accepting, command, held, client_list, lost>>
        BY <1>4 DEF process_letter
    <3> QED
        BY <1>0, <2>6, <3>1, <3>2, <3>3, <3>4
        DEF ServerTypeOK, Stacks, Pieces
  <2>8. Others(c)
    BY <1>0, <1>4, <2>1, <2>2, <2>5, <2>6 DEF ServerTypeOK, process_letter, Others
  <2>9. ThreadInv(c)'
    <3>1. Len(error_stack'[c]) = Height(cpc'[c])
        BY <1>0, <1>4, <2>1, <2>2, <2>5, <2>6 DEF ServerTypeOK, Height, process_letter
    <3> QED
        BY <1>0, <1>4, <2>1, <2>2, <2>5, <2>6, <3>1 DEF ServerTypeOK, ThreadInv, process_letter
  <2> QED
    BY <2>7, <2>8, <2>9, OneThread
<1>5. CASE parse_request(c)
  <2>1. /\ cpc[c] = "dispatched"
        /\ error_stack[c] \in Stacks /\ Len(error_stack[c]) = 1
    BY <1>0, <1>5 DEF Thread, Height, parse_request
  <2> DEFINE s == push_error_handling(error_stack[c])
  <2>2. s \in Stacks /\ Len(s) = 2
    <3>1. s \in Stacks /\ Len(s) = Len(error_stack[c]) + 1
        BY <2>1, PushGrows
    <3> QED
        BY <2>1, <3>1
  <2>6. error_stack' = [error_stack EXCEPT ![c] = s]
    BY <1>5 DEF parse_request, stack
  <2> HIDE DEF s
  <2>7. ServerTypeOK'
    BY <1>0, <1>5, <2>1, <2>2, <2>6 DEF ServerTypeOK, parse_request, Stacks, Pieces
  <2>8. Others(c)
    BY <1>0, <1>5, <2>1, <2>2, <2>6 DEF ServerTypeOK, parse_request, Others
  <2>9. ThreadInv(c)'
    <3>1. Len(error_stack'[c]) = Height(cpc'[c])
        BY <1>0, <1>5, <2>1, <2>2, <2>6 DEF ServerTypeOK, Height, parse_request
    <3> QED
        BY <1>0, <1>5, <2>1, <2>2, <2>6, <3>1 DEF ServerTypeOK, ThreadInv, parse_request
  <2> QED
    BY <2>7, <2>8, <2>9, OneThread
<1>6. CASE refuse_request(c)
  <2>1. /\ cpc[c] = "parsed"
        /\ error_stack[c] \in Stacks /\ Len(error_stack[c]) = 2
    BY <1>0, <1>6 DEF Thread, Height, refuse_request
  <2> DEFINE s == Reported(c)
  <2>2. s \in Stacks /\ Len(s) = 1
    <3>1. Len(error_stack[c]) > 0
        BY <2>1
    <3>2. s \in Stacks /\ Len(s) = Len(error_stack[c]) - 1
        BY <2>1, <3>1, PopShrinks DEF Reported
    <3> QED
        BY <2>1, <3>2
  <2>3. write(c, "error", s)
    BY <1>6 DEF refuse_request
  <2> HIDE DEF s
  <2>4. /\ error_stack' \in [Clients -> Stacks]
        /\ Len(error_stack'[c]) = Len(s)
        /\ answer' \in [Clients -> Seq(Pieces)]
        /\ answer'[c] \in {answer[c], Append(answer[c], "error")}
        /\ \A d \in Clients \ {c} :
            error_stack'[d] = error_stack[d] /\ answer'[d] = answer[d]
    BY <1>0, <2>2, <2>3, WriteKeepsHeight
  <2>7. ServerTypeOK'
    BY <1>0, <1>6, <2>1, <2>2, <2>4 DEF ServerTypeOK, refuse_request, Stacks, Pieces
  <2>8. Others(c)
    BY <1>0, <1>6, <2>1, <2>2, <2>4 DEF ServerTypeOK, refuse_request, Others
  <2>9. ThreadInv(c)'
    <3>1. Len(error_stack'[c]) = Height(cpc'[c])
        BY <1>0, <1>6, <2>1, <2>2, <2>4 DEF ServerTypeOK, Height, refuse_request
    <3> QED
        BY <1>0, <1>6, <2>1, <2>2, <2>4, <3>1, ErrorIsAnswer DEF ServerTypeOK, ThreadInv, refuse_request
  <2> QED
    BY <2>7, <2>8, <2>9, OneThread
<1>7. CASE accept_request(c)
  <2>1. /\ cpc[c] = "parsed"
        /\ error_stack[c] \in Stacks /\ Len(error_stack[c]) = 2
    BY <1>0, <1>7 DEF Thread, Height, accept_request
  <2> DEFINE s == Reported(c)
             t == print_error(s)
             a == Append(answer[c], "nul")
  <2>2. s \in Stacks /\ Len(s) = 1
    <3>1. Len(error_stack[c]) > 0
        BY <2>1
    <3>2. s \in Stacks /\ Len(s) = Len(error_stack[c]) - 1
        BY <2>1, <3>1, PopShrinks DEF Reported
    <3> QED
        BY <2>1, <3>2
  <2>3. t \in Stacks /\ Len(t) = 1
    BY <2>2, PrintKeepsHeight
  <2>4. a \in Seq(Pieces) /\ a # <<>> /\ IsData(a)
    <3>1. answer[c] = <<>>
        BY <1>0, <2>1 DEF ThreadInv
    <3> QED
        BY <1>0, <3>1, NonEmpty, NulIsData DEF Thread
  <2>5. \/ /\ answer' = [answer EXCEPT ![c] = a]
           /\ error_stack' = [error_stack EXCEPT ![c] = s]
           /\ cpc' = [cpc EXCEPT ![c] = "send"]
        \/ /\ UNCHANGED answer
           /\ error_stack' = [error_stack EXCEPT ![c] = t]
           /\ cpc' = [cpc EXCEPT ![c] = "release"]
    BY <1>0, <1>7 DEF ServerTypeOK, accept_request, send, stack
  <2> HIDE DEF s, t, a
  <2>6. /\ left' = [left EXCEPT ![c] = MaxData]
        /\ UNCHANGED <<accepting, command, held, client_list, lost>>
    BY <1>7 DEF accept_request
  <2>7. ServerTypeOK'
    <3>1. error_stack' \in [Clients -> Stacks]
        BY <1>0, <2>2, <2>3, <2>5 DEF ServerTypeOK, Stacks
    <3>2. answer' \in [Clients -> Seq(Pieces)]
        BY <1>0, <2>4, <2>5 DEF ServerTypeOK, Pieces
    <3> QED
        BY <1>0, <2>5, <2>6, <3>1, <3>2 DEF ServerTypeOK, Stacks, Pieces
  <2>8. Others(c)
    BY <1>0, <2>5, <2>6 DEF ServerTypeOK, Others
  <2>9. ThreadInv(c)'
    <3>1. Len(error_stack'[c]) = Height(cpc'[c])
        BY <1>0, <2>2, <2>3, <2>5 DEF ServerTypeOK, Height
    <3> QED
        BY <1>0, <2>1, <2>4, <2>5, <2>6, <3>1 DEF ServerTypeOK, ThreadInv
  <2> QED
    BY <2>7, <2>8, <2>9, OneThread
<1>8. CASE send_data(c)
  <2>1. cpc[c] = "send" /\ answer[c] \in Seq(Pieces)
    BY <1>0, <1>8 DEF Thread, send_data
  <2>2. /\ Append(answer[c], "data") \in Seq(Pieces)
        /\ Append(answer[c], "data") # <<>>
        /\ IsData(Append(answer[c], "data"))
    BY <1>0, <2>1, NonEmpty, DataIsData DEF ThreadInv
  <2>3. answer' = [answer EXCEPT ![c] = Append(@, "data")]
    BY <1>8 DEF send_data, send
  <2>7. ServerTypeOK'
    BY <1>0, <1>8, <2>2, <2>3 DEF ServerTypeOK, send_data, Pieces
  <2>8. Others(c)
    BY <1>0, <1>8, <2>3 DEF ServerTypeOK, send_data, Others
  <2>9. ThreadInv(c)'
    BY <1>0, <1>8, <2>1, <2>2, <2>3 DEF ServerTypeOK, ThreadInv, send_data
  <2> QED
    BY <2>7, <2>8, <2>9, OneThread
<1>9. CASE send_ends(c)
  <2>1. /\ cpc[c] = "send"
        /\ error_stack[c] \in Stacks /\ Len(error_stack[c]) = 1
    BY <1>0, <1>9 DEF Thread, Height, send_ends
  <2> DEFINE s == print_error(error_stack[c])
  <2>2. s \in Stacks /\ Len(s) = 1
    BY <2>1, PrintKeepsHeight
  <2>6. \/ error_stack' = [error_stack EXCEPT ![c] = s]
        \/ UNCHANGED error_stack
    BY <1>9 DEF send_ends, stack
  <2> HIDE DEF s
  <2>7. ServerTypeOK'
    BY <1>0, <1>9, <2>1, <2>2, <2>6 DEF ServerTypeOK, send_ends, Stacks, Pieces
  <2>8. Others(c)
    BY <1>0, <1>9, <2>1, <2>2, <2>6 DEF ServerTypeOK, send_ends, Others
  <2>9. ThreadInv(c)'
    <3>1. Len(error_stack'[c]) = Height(cpc'[c])
        BY <1>0, <1>9, <2>1, <2>2, <2>6 DEF ServerTypeOK, Height, send_ends
    <3> QED
        BY <1>0, <1>9, <2>1, <2>2, <2>6, <3>1 DEF ServerTypeOK, ThreadInv, send_ends
  <2> QED
    BY <2>7, <2>8, <2>9, OneThread
<1>10. CASE dispatch_ends(c)
  <2>1. /\ cpc[c] = "pop"
        /\ error_stack[c] \in Stacks /\ Len(error_stack[c]) = 1
    BY <1>0, <1>10 DEF Thread, Height, dispatch_ends
  <2> DEFINE s == pop_error_handling(error_stack[c])
  <2>2. s \in Stacks /\ Len(s) = 0
    <3>1. Len(error_stack[c]) > 0
        BY <2>1
    <3>2. s \in Stacks /\ Len(s) = Len(error_stack[c]) - 1
        BY <2>1, <3>1, PopShrinks
    <3> QED
        BY <2>1, <3>2
  <2>6. error_stack' = [error_stack EXCEPT ![c] = s]
    BY <1>10 DEF dispatch_ends, stack
  <2> HIDE DEF s
  <2>7. ServerTypeOK'
    BY <1>0, <1>10, <2>1, <2>2, <2>6 DEF ServerTypeOK, dispatch_ends, Stacks, Pieces
  <2>8. Others(c)
    BY <1>0, <1>10, <2>1, <2>2, <2>6 DEF ServerTypeOK, dispatch_ends, Others
  <2>9. ThreadInv(c)'
    <3>1. Len(error_stack'[c]) = Height(cpc'[c])
        BY <1>0, <1>10, <2>1, <2>2, <2>6 DEF ServerTypeOK, Height, dispatch_ends
    <3> QED
        BY <1>0, <1>10, <2>1, <2>2, <2>6, <3>1 DEF ServerTypeOK, ThreadInv, dispatch_ends
  <2> QED
    BY <2>7, <2>8, <2>9, OneThread
<1> QED
    BY <1>1, <1>2, <1>3, <1>4, <1>5, <1>6, <1>7, <1>8, <1>9, <1>10

LEMMA ServerSteps ==
    ASSUME ServerInv, ServerNext PROVE ServerInv'
<1>1. ASSUME NEW c \in Clients, accept(c) PROVE ServerInv'
  <2>0. ThreadInv(c) /\ ServerTypeOK
    BY ThreadFacts DEF ServerInv
  <2>1. ServerTypeOK'
    <3>1. /\ cpc' = [cpc EXCEPT ![c] = "started"]
          /\ command' = [command EXCEPT ![c] = "?"]
          /\ answer' = [answer EXCEPT ![c] = <<>>]
          /\ accepting' \in {"no", "yes", "cancelled"}
          /\ UNCHANGED <<error_stack, held, left, client_list, lost>>
        BY <1>1 DEF accept, goto
    <3> QED
        BY <2>0, <3>1 DEF ServerTypeOK, Commands
  <2>2. Others(c)
    BY <1>1, <2>0 DEF ServerTypeOK, accept, goto, Others
  <2>3. ThreadInv(c)'
    BY <1>1, <2>0 DEF ServerTypeOK, accept, goto, ThreadInv, Height
  <2> QED
    BY <2>1, <2>2, <2>3, OneThread
<1>2. ASSUME NEW c \in Clients, read_line(c) \/ ClientSteps(c)
      PROVE  ServerInv'
    BY <1>2, QuietSteps, LoudSteps DEF ClientSteps
<1>3. CASE accept_without_thread
  <2>1. UNCHANGED <<accepting, client, client_list>> /\ lost' \in 0 .. MaxLost
    BY <1>3, ServerAssumption DEF accept_without_thread, ServerInv, ServerTypeOK
  <2> QED
    BY <2>1 DEF ServerInv, ServerTypeOK, ThreadInv, client
<1>4. CASE accept_fails
    BY <1>4, ServerUnchanged DEF accept_fails
<1> QED
    BY <1>1, <1>2, <1>3, <1>4 DEF ServerNext

-----------------------------------------------------------------------------
(* The main thread. *)

LEMMA MainInit == Init => MainInv
<1> SUFFICES ASSUME Init PROVE MainInv
    OBVIOUS
<1>1. /\ mpc = "down" /\ threads = {} /\ dpc = "closed"
      /\ shutdown_semaphore = FALSE /\ pid_file = FALSE
      /\ abandoned = FALSE /\ starts = 0 /\ writing_active = FALSE
    BY DEF Init, InitFile
<1>2. threads \subseteq Threads /\ threads \cap {"writer", "transform"} = {}
    BY <1>1
<1>3. starts \in 0 .. MaxStarts
    BY <1>1, ArchiverAssumption
<1>4. shutdown_semaphore \in BOOLEAN /\ pid_file \in BOOLEAN
      /\ abandoned \in BOOLEAN /\ writing_active \in BOOLEAN
    BY <1>1
<1> QED
    BY <1>1, <1>2, <1>3, <1>4 DEF MainInv, Detached, PidFileTellsTheTruth

\* The steps of main and the failures, each with the part of the state it is
\* about; the other parts are left alone, or end with the process.
LEMMA MainSteps ==
    ASSUME IInv,
           \/ StartArchiver \/ initialise_disk_writer \/ maybe_daemonise
           \/ start_thread \/ main_starts_server \/ run_archiver
           \/ shutdown_archiver \/ wait_for_exit
           \/ terminate_sniffer \/ terminate_decimation
           \/ terminate_disk_writer \/ close_disk \/ unlink_pid_file
           \/ fail_to_start \/ killed \/ remove_pid_file
    PROVE  IInv'
<1>0. /\ FileInv /\ ServerInv /\ MainInv
      /\ accepting \in {"no", "yes", "cancelled"}
    BY DEF IInv, ServerInv, ServerTypeOK
<1>a. UNCHANGED server => ServerInv'
    BY <1>0, ServerUnchanged DEF server
<1>b. UNCHANGED archive => FileInv' /\ dpc' = dpc
    BY <1>0, FileUnchanged DEF archive, disk_fd
<1> USE DEF main_goto, rest_of_main, MainInv, Detached, NoWriter,
        PidFileTellsTheTruth
<1>1. CASE StartArchiver
  <2>1. starts' \in 0 .. MaxStarts
    BY <1>0, <1>1, ArchiverAssumption DEF StartArchiver
  <2>2. MainInv'
    BY <1>0, <1>1, <2>1 DEF StartArchiver, OpenDisk
  <2> QED
    BY <1>0, <1>1, <1>a, <2>2, DiskKeepsFile DEF IInv, StartArchiver
<1>2. CASE initialise_disk_writer
  <2>1. MainInv'
    BY <1>0, <1>2 DEF initialise_disk_writer, LockDisk, MapDisk
  <2> QED
    BY <1>0, <1>2, <1>a, <2>1, DiskKeepsFile DEF IInv, initialise_disk_writer
<1>3. CASE maybe_daemonise
    BY <1>0, <1>3, <1>a, <1>b DEF IInv, maybe_daemonise
<1>4. CASE start_thread
  <2>1. \A i \in DOMAIN StartOrder : StartOrder[i] \in Threads
    BY DEF StartOrder, Threads
  <2>2. threads' \subseteq Threads
    BY <1>0, <1>4, <2>1 DEF start_thread
  <2> QED
    BY <1>0, <1>4, <1>a, <1>b, <2>2 DEF IInv, start_thread
<1>5. CASE main_starts_server
  <2>1. ServerInv'
    BY <1>0, <1>5, ServerUnchanged DEF main_starts_server, start_server
  <2> QED
    BY <1>0, <1>5, <1>b, <2>1 DEF IInv, main_starts_server
<1>6. CASE run_archiver
    BY <1>0, <1>6, <1>a, <1>b DEF IInv, run_archiver
<1>7. CASE shutdown_archiver
    BY <1>0, <1>7, <1>a, <1>b DEF IInv, shutdown_archiver
<1>8. CASE wait_for_exit
  <2>1. ServerInv'
    BY <1>0, <1>8, ServerUnchanged DEF wait_for_exit, terminate_server
  <2> QED
    BY <1>0, <1>8, <1>b, <2>1 DEF IInv, wait_for_exit
<1>9. CASE terminate_sniffer
    BY <1>0, <1>9, <1>a, <1>b DEF IInv, terminate_sniffer
<1>10. CASE terminate_decimation
    BY <1>0, <1>10, <1>a, <1>b DEF IInv, terminate_decimation
<1>11. CASE terminate_disk_writer
    BY <1>0, <1>11, <1>a, <1>b DEF IInv, terminate_disk_writer
<1>12. CASE close_disk
  <2>1. MainInv'
    BY <1>0, <1>12 DEF close_disk, CloseDisk
  <2> QED
    BY <1>0, <1>12, <1>a, <2>1, DiskKeepsFile DEF IInv, close_disk
<1>13. CASE unlink_pid_file
  <2>1. dpc = "closed"
    BY <1>0, <1>13 DEF unlink_pid_file
  <2>2. /\ pid_file' \in BOOLEAN /\ abandoned' \in BOOLEAN
        /\ pid_file' /\ ~abandoned' => FALSE
    BY <1>0, <1>13 DEF unlink_pid_file
  <2>3. MainInv'
    BY <1>0, <1>13, <1>b, <2>1, <2>2 DEF unlink_pid_file
  <2> QED
    BY <1>0, <1>13, <1>b, <2>3, ServerEnds DEF IInv, unlink_pid_file
<1>14. CASE fail_to_start
  <2>1. abandoned' \in BOOLEAN
    BY <1>0, <1>14 DEF fail_to_start
  <2>2. MainInv'
    BY <1>0, <1>14, <2>1 DEF fail_to_start, EndProcess, CloseDisk
  <2> QED
    BY <1>0, <1>14, <2>2, DiskKeepsFile, ServerEnds
    DEF IInv, fail_to_start, EndProcess
<1>15. CASE killed
  <2>1. MainInv'
    BY <1>0, <1>15 DEF killed, EndProcess, CloseDisk
  <2> QED
    BY <1>0, <1>15, <2>1, DiskKeepsFile, ServerEnds DEF IInv, killed, EndProcess
<1>16. CASE remove_pid_file
    BY <1>0, <1>16, <1>a, <1>b DEF IInv, remove_pid_file
<1> QED
    BY <1>1, <1>2, <1>3, <1>4, <1>5, <1>6, <1>7, <1>8, <1>9, <1>10, <1>11,
        <1>12, <1>13, <1>14, <1>15, <1>16

\* The clients wait for the disk threads, but main does not look at them.
LEMMA WriterSteps ==
    ASSUME IInv, schedule_write \/ write_ends PROVE IInv'
<1>0. /\ FileInv /\ ServerInv /\ MainInv
      /\ accepting \in {"no", "yes", "cancelled"}
    BY DEF IInv, ServerInv, ServerTypeOK
<1>1. /\ UNCHANGED <<archive, server, main_thread>>
      /\ writing_active' \in BOOLEAN
    BY DEF schedule_write, write_ends
<1>2. ServerInv'
    BY <1>0, <1>1, ServerUnchanged DEF server
<1>3. FileInv' /\ dpc' = dpc
    BY <1>0, <1>1, FileUnchanged DEF archive, disk_fd
<1>4. MainInv'
    BY <1>0, <1>1, <1>3 DEF main_thread, MainInv, PidFileTellsTheTruth
<1> QED
    BY <1>2, <1>3, <1>4 DEF IInv

-----------------------------------------------------------------------------
(* The theorems. *)

LEMMA InvInit == Init => IInv
    BY FileInit, ServerInit, MainInit DEF Init, IInv

LEMMA InvNext == IInv /\ [Next]_vars => IInv'
<1> SUFFICES ASSUME IInv, [Next]_vars PROVE IInv'
    OBVIOUS
<1>0. FileInv /\ ServerInv /\ MainInv
    BY DEF IInv
<1>a. UNCHANGED process /\ UNCHANGED dpc => MainInv'
    BY <1>0 DEF process, main_thread, MainInv, PidFileTellsTheTruth
<1>1. CASE PrepareNext /\ UNCHANGED <<server, process>>
  <2>1. FileInv'
    BY <1>0, <1>1, PrepareKeepsFile
  <2>2. ServerInv'
    BY <1>0, <1>1, ServerUnchanged DEF server, ServerInv, ServerTypeOK
  <2>3. UNCHANGED dpc
    BY <1>1 DEF PrepareNext, PrepareOpens, PrepareLocks, WriteHeader,
        reset_index, fill_zeros, PrepareEnds, DumpIndex, disk_fd
  <2> QED
    BY <1>1, <1>a, <2>1, <2>2, <2>3 DEF IInv
<1>2. CASE ServerNext /\ UNCHANGED <<archive, process>>
  <2>1. UNCHANGED dpc
    BY <1>2 DEF archive, disk_fd
  <2> QED
    BY <1>0, <1>2, <1>a, <2>1, ServerSteps, FileUnchanged DEF IInv
<1>3. CASE UNCHANGED vars
  <2>1. /\ UNCHANGED archive /\ UNCHANGED server /\ UNCHANGED process
        /\ UNCHANGED dpc
    BY <1>3 DEF vars, archive, disk_fd
  <2> QED
    BY <1>0, <1>a, <2>1, FileUnchanged, ServerUnchanged
    DEF IInv, server, ServerInv, ServerTypeOK
<1> QED
    BY <1>1, <1>2, <1>3, MainSteps, WriterSteps DEF Next

\* The inductive invariant: who holds the lock and what is mapped and running
\* at each point of main, of fa-prepare and of a client thread.
THEOREM Invariance == Spec => []IInv
    BY InvInit, InvNext, PTL DEF Spec

\* Type correctness of the file, the server and the process.
THEOREM TypeCorrect == Spec => []TypeOK
<1>1. IInv => TypeOK
    BY DEF IInv, FileInv, ServerInv, MainInv, TypeOK
<1> QED
    BY <1>1, Invariance, PTL

\* The header an archiver has mapped stays in the file, and its index with it,
\* unless fa-prepare -s truncates the file before it asks for the lock, or ends
\* between header and index.
THEOREM MappedArchiveIsConsistent == Spec => []MappedIsConsistent
<1>1. IInv => MappedIsConsistent
    BY DEF IInv, FileInv
<1> QED
    BY <1>1, Invariance, PTL

\* The disk threads only run while the archive is mapped and locked, whatever
\* fails, and wherever main is killed.
THEOREM ThreadsHaveArchive == Spec => []ArchiveOutlivesThreads
<1>1. IInv => ArchiveOutlivesThreads
    BY DEF IInv, FileInv, MainInv, Detached, NoWriter, ArchiveOutlivesThreads
<1> QED
    BY <1>1, Invariance, PTL

\* A pid file means that the archiver runs, or that one failed to start, was
\* killed or could not remove it; and there is one from the first thread that
\* is started until the archive is closed.
THEOREM PidFileIsHonest == Spec => []PidFileTellsTheTruth
<1>1. IInv => PidFileTellsTheTruth
    BY DEF IInv, MainInv
<1> QED
    BY <1>1, Invariance, PTL

\* Every path through a client thread, whatever fails on it, leaves the stack of
\* error messages as deep as error.c's callers expect.
THEOREM StacksAreBalanced == Spec => []StackIsBalanced
<1>1. IInv => StackIsBalanced
    BY DEF IInv, ServerInv, ThreadInv, Height, StackIsBalanced
<1> QED
    BY <1>1, Invariance, PTL

\* Buffers, archive and reader are given back on every path to the end of the
\* connection.
THEOREM EverythingIsReleased == Spec => []NothingHeldAtEnd
<1>1. IInv => NothingHeldAtEnd
    BY DEF IInv, ServerInv, ThreadInv, NothingHeldAtEnd
<1> QED
    BY <1>1, Invariance, PTL

\* A client that asks for data gets the null byte and data, or one message.
THEOREM AnswersAreUnmixed == Spec => []AnswerIsOneOrTheOther
<1>1. IInv => AnswerIsOneOrTheOther
    BY DEF IInv, ServerInv, ThreadInv, IsData, AnswerIsOneOrTheOther
<1> QED
    BY <1>1, Invariance, PTL

=============================================================================
