------------------------------ MODULE Pipeline ------------------------------
(***************************************************************************)
(* The live data path: the sniffer thread writes blocks into the frame     *)
(* buffer, the decimation thread reads them and writes a buffer of         *)
(* decimated blocks, a client subscribes to either.                        *)
(*                                                                         *)
(* The two buffers are FrameStreams, which Buffer implements.  A block     *)
(* that has been got but not yet released may be any stored one: a reader  *)
(* that was lapped before get_read_block is given a later block, and finds *)
(* out when it releases it.                                                *)
(***************************************************************************)
EXTENDS Decimation, Subscribe, SequencesExt

CONSTANTS
    MaxFrames,  \* bound: number of blocks the sniffer attempts
    MaxNulls    \* bound: number of times decimation gets no block

ASSUME PipelineAssumption == MaxFrames \in Nat /\ MaxNulls \in Nat

VARIABLES
    fa_frame, fa_stored, fa_open, fa_last, fa_cont,        \* frame buffer
    dec_frame, dec_stored, dec_open, dec_last, dec_cont,   \* decimated buffer
    contents,   \* the decimated blocks, by the attempt that made them
    spoiled     \* ghost: the decimation thread has been overrun

Fa == INSTANCE FrameStream WITH
    Readers <- {"decimation", "client"}, Reserved <- {},
    frame <- fa_frame, stored <- fa_stored, open <- fa_open,
    last <- fa_last, cont <- fa_cont
Dec == INSTANCE FrameStream WITH
    Readers <- {"client"}, Reserved <- {},
    frame <- dec_frame, stored <- dec_stored, open <- dec_open,
    last <- dec_last, cont <- dec_cont

fa_buffer == <<fa_frame, fa_stored, fa_open, fa_last, fa_cont>>
dec_buffer == <<dec_frame, dec_stored, dec_open, dec_last, dec_cont>>
vars == <<decimation, subscription, fa_buffer, dec_buffer, contents, spoiled>>

\* initialise_decimation opens its reader before the sniffer thread starts.
Init ==
    /\ InitDecimation /\ InitSubscription
    /\ fa_frame = 1 /\ fa_stored = {} /\ fa_open = {"decimation"}
    /\ fa_last = [r \in {"decimation", "client"} |-> 0]
    /\ fa_cont = [r \in {"decimation", "client"} |-> r = "decimation"]
    /\ Dec!Init
    /\ contents = <<>>
    /\ spoiled = FALSE

-----------------------------------------------------------------------------
\* The sniffer thread reads a block, or fails to; it also fails while writing
\* to the buffer is blocked.
sniffer_thread ==
    /\ fa_frame <= MaxFrames
    /\ \E ok \in BOOLEAN : Fa!Attempt(ok)
    /\ UNCHANGED <<decimation, subscription, dec_buffer, contents, spoiled>>

\* What advance_write_block does to the decimated buffer.
advance_write_block(gap) ==
    IF Releases(gap)
    THEN /\ Dec!Attempt(~gap)
         /\ contents' = Append(contents, IF gap THEN Fresh ELSE Written)
    ELSE UNCHANGED <<dec_buffer, contents>>

\* Bound: the thread is not followed any further once it has been overrun
\* (spoiled); nothing is claimed of decimated data from then on.

\* decimation_thread: get_read_block returns a block, which is not the one it
\* should be if the thread has been overrun already, ...
DecimationGets ==
    /\ ~spoiled
    /\ \E f \in fa_stored :
        /\ f > fa_last["decimation"]
        /\ StartBlock(f)
        /\ spoiled' = (spoiled \/ ~Fa!Deliverable("decimation", f))
    /\ UNCHANGED <<subscription, fa_buffer, dec_buffer, contents>>

\* ... or NULL: a gap in its input or a timeout, a gap in its output.
DecimationGetsNull ==
    /\ ~spoiled
    /\ dec_frame - Cardinality(dec_stored) <= MaxNulls
    /\ NoBlock
    /\ Fa!Break("decimation")
    /\ advance_write_block(TRUE)
    /\ UNCHANGED <<subscription, spoiled>>

decimate_block ==
    /\ ~spoiled
    /\ decimate_sample
    /\ IF WritesRow
       THEN advance_write_block(FALSE)
       ELSE UNCHANGED <<dec_buffer, contents>>
    /\ UNCHANGED <<subscription, fa_buffer, spoiled>>

DecimationReleases ==
    /\ ~spoiled
    /\ EndBlock
    /\ \/ Fa!Deliver("decimation", block_in) /\ UNCHANGED spoiled
       \/ Fa!Break("decimation") /\ spoiled' = TRUE
    /\ UNCHANGED <<subscription, dec_buffer, contents>>

-----------------------------------------------------------------------------
(* The client. *)

Rest == <<decimation, contents, spoiled>>
OnFa == source = "fa" /\ UNCHANGED dec_buffer
OnDecimated == source = "decimated" /\ UNCHANGED fa_buffer

Subscribes ==
    /\ \/ process_subscribe("fa") /\ Fa!Open("client") /\ UNCHANGED dec_buffer
       \/ /\ process_subscribe("decimated") /\ Dec!Open("client")
          /\ UNCHANGED fa_buffer
    /\ UNCHANGED Rest

ClientGets ==
    /\ \/ /\ source = "fa"
          /\ \E f \in fa_stored : f > fa_last["client"] /\ GetBlock(f)
       \/ /\ source = "decimated"
          /\ \E f \in dec_stored : f > dec_last["client"] /\ GetBlock(f)
    /\ UNCHANGED <<Rest, fa_buffer, dec_buffer>>

ClientGetsNull ==
    /\ GetNull
    /\ (OnFa /\ Fa!Break("client")) \/ (OnDecimated /\ Dec!Break("client"))
    /\ UNCHANGED Rest

ClientHeader == send_header /\ UNCHANGED <<Rest, fa_buffer, dec_buffer>>

ClientReleases ==
    /\ \/ /\ SendCopy
          /\ \/ OnFa /\ Fa!Deliver("client", sblock)
             \/ OnDecimated /\ Dec!Deliver("client", sblock)
       \/ /\ Underrun
          /\ (OnFa /\ Fa!Break("client")) \/ (OnDecimated /\ Dec!Break("client"))
    /\ UNCHANGED Rest

ClientCloses ==
    /\ close_reader
    /\ (OnFa /\ Fa!Close("client")) \/ (OnDecimated /\ Dec!Close("client"))
    /\ UNCHANGED Rest

Next ==
    \/ sniffer_thread
    \/ DecimationGets \/ DecimationGetsNull \/ decimate_block
    \/ DecimationReleases
    \/ Subscribes \/ ClientGets \/ ClientGetsNull \/ ClientHeader
    \/ ClientReleases \/ ClientCloses

Spec == Init /\ [][Next]_vars

-----------------------------------------------------------------------------
(* Properties. *)

\* Every row is Filtered, in the block being filled and in those finished.
RowsAreFiltered ==
    \A i \in Rows :
        /\ Filtered(block_out[i])
        /\ contents # <<>> => Filtered(Last(contents)[i])

RowsOf(f) ==
    [i \in 1 .. output_sample_count |-> contents[f][i - 1].events]

\* A row stands for get_decimation_factor samples on end, ...
Whole(row) == \E s \in row : row = s .. s + get_decimation_factor - 1

\* ... and goes on where the row before ended, with none of its samples.
Follows(row, before) ==
    row \cap before = {} /\ \E s \in row : s - 1 \in before

Seamless(rows) ==
    /\ \A i \in DOMAIN rows : Whole(rows[i])
    /\ \A i \in DOMAIN rows \ {1} : Follows(rows[i], rows[i - 1])

\* All that the filters remember when they have taken sample e is without a gap.
Remembers(e) == (e - filter_length + 1) .. e \subseteq Range(taken)

\* The value of such a row is that of the filter_length samples up to its last,
\* whatever was taken before them.
Forgets(row) ==
    \A e \in row.events :
        (\A d \in row.events : d <= e) /\ Remembers(e) =>
            row.x = Convolved([n \in 1 .. filter_length |->
                                    Value(e - filter_length + n)])

\* decimate.c, "mark a gap in incoming data": rows, counters and filters survive
\* a gap ("we ought to reset all the filters").  Of the samples the rows stand
\* for only the marked block has lost any: a block that follows another without
\* a gap is seamless, and goes on where the other ended.  Of the values of the
\* rows a gap leaves its trace in the marked block and in those after it, but
\* only until filter_length samples have come.  This takes a decimation thread
\* that is never overrun: it ignores the result of release_read_block.
DecimatedGapsAreMarked ==
    ~spoiled =>
        \A f \in dec_stored :
            /\ f = 1 \/ f - 1 \in dec_stored => Seamless(RowsOf(f))
            /\ f - 1 \in dec_stored =>
                Follows(Head(RowsOf(f)), Last(RowsOf(f - 1)))
            /\ \A i \in Rows : Forgets(contents[f][i])

\* A client is sent an unbroken stream from the header on, whatever it
\* subscribed to and whenever it did, "until something fails": not a block is
\* missing, nor a row or a sample that the rows stand for, or in there twice.
ClientStreamIsSeamless ==
    /\ received # <<>> => header = received[1]
    /\ source = "fa" =>
        \A i \in DOMAIN received \ {1} : received[i] = received[i - 1] + 1
    /\ source = "decimated" /\ ~spoiled =>
        /\ \A i \in DOMAIN received : Seamless(RowsOf(received[i]))
        /\ \A i \in DOMAIN received \ {1} :
            Follows(Head(RowsOf(received[i])), Last(RowsOf(received[i - 1])))

=============================================================================
