---------------------------- MODULE PipelineProofs ----------------------------
(***************************************************************************)
(* Proofs about the decimation thread between its two streams, for any     *)
(* decimation factors, sizes of blocks, filters and samples: first what    *)
(* its counters and blocks say of the streams, then what its filters make  *)
(* of the samples.                                                         *)
(***************************************************************************)
EXTENDS Pipeline, FiniteSetTheorems, SequenceTheorems, WellFoundedInduction,
        TLAPS

\* The sample that comes next if no block is missing.
Here == IF dpc = "decimate" THEN Sample(block_in, in)
        ELSE Sample(fa_last["decimation"] + 1, 0)

\* Samples since the row before, going by the counters.
Pending == decimation_counter + decimation_factor * output_counter

Streams ==
    /\ fa_frame \in Nat \ {0} /\ fa_stored \in SUBSET (Nat \ {0})
    /\ fa_last \in [{"decimation", "client"} -> Nat]
    /\ fa_cont \in [{"decimation", "client"} -> BOOLEAN]
    /\ dec_frame \in Nat \ {0} /\ dec_stored \in SUBSET (1 .. dec_frame - 1)
    /\ spoiled \in BOOLEAN

Events ==
    /\ accumulated_events \in SUBSET Int /\ IsFiniteSet(accumulated_events)
    /\ ~spoiled => \A e \in accumulated_events : e < Here

\* The first half of the invariant: the counters.
CountInv == DecimationTypeOK /\ Streams /\ Events /\ CountersMatchSamples

-----------------------------------------------------------------------------
(* Arithmetic with constants. *)

LEMMA Constants ==
    /\ decimation_factor \in Nat /\ decimation_factor > 1
    /\ filter_decimation \in Nat /\ filter_decimation > 0
    /\ output_sample_count \in Nat /\ output_sample_count > 0
    /\ SampleCountIn \in Nat /\ SampleCountIn > 0
    BY FilterAssumption, DecimationAssumption

LEMMA SampleType ==
    ASSUME NEW f \in Nat, NEW i \in Nat
    PROVE  /\ Sample(f, i) \in Nat
           /\ Sample(f, i + 1) = Sample(f, i) + 1
<1>1. f * SampleCountIn \in Nat
    BY Constants
<1> QED
    BY <1>1 DEF Sample

LEMMA SampleNext ==
    ASSUME NEW f \in Nat
    PROVE  Sample(f + 1, 0) = Sample(f, SampleCountIn)
<1>1. (f + 1) * SampleCountIn = f * SampleCountIn + SampleCountIn
    BY Constants
<1> QED
    BY <1>1, Constants DEF Sample

LEMMA SampleLater ==
    ASSUME NEW f \in Nat, NEW g \in Nat, f < g
    PROVE  Sample(f + 1, 0) <= Sample(g, 0)
<1>1. PICK d \in Nat : g = (f + 1) + d
  <2>1. g - (f + 1) \in Nat /\ g = (f + 1) + (g - (f + 1))
    OBVIOUS
  <2> QED
    BY <2>1
<1>2. g * SampleCountIn = (f + 1) * SampleCountIn + d * SampleCountIn
    BY <1>1, Constants
<1>3. d * SampleCountIn \in Nat /\ (f + 1) * SampleCountIn \in Nat
    BY Constants
<1> QED
    BY <1>2, <1>3 DEF Sample

\* What Pending becomes when both counters have moved on.
LEMMA PendingMoves ==
    ASSUME DecimationTypeOK
    PROVE  /\ Pending \in Nat
           /\ decimation_factor * (output_counter + 1) =
                decimation_factor * output_counter + decimation_factor
           /\ WritesRow => Pending + 1 = get_decimation_factor
           /\ get_decimation_factor \in Nat \ {0}
<1>1. /\ decimation_counter \in Nat /\ decimation_counter < decimation_factor
      /\ output_counter \in Nat /\ output_counter < filter_decimation
    BY Constants DEF DecimationTypeOK
<1>2. decimation_factor * output_counter \in Nat
    BY <1>1, Constants
<1>3. decimation_factor * (output_counter + 1) =
        decimation_factor * output_counter + decimation_factor
    BY <1>1, Constants
<1>4. ASSUME WritesRow PROVE Pending + 1 = get_decimation_factor
  <2>1. decimation_counter + 1 >= decimation_factor
        /\ output_counter + 1 >= filter_decimation
    BY <1>4 DEF WritesRow, Combs, Cycles
  <2>2. decimation_counter + 1 = decimation_factor
        /\ output_counter + 1 = filter_decimation
    BY <1>1, <2>1, Constants
  <2>3. get_decimation_factor = decimation_factor * output_counter + decimation_factor
    BY <1>3, <2>2 DEF get_decimation_factor
  <2> QED
    BY <1>1, <1>2, <2>2, <2>3, Constants DEF Pending
<1>5. get_decimation_factor \in Nat \ {0}
    BY Constants DEF get_decimation_factor
<1> QED
    BY <1>1, <1>2, <1>3, <1>4, <1>5 DEF Pending

-----------------------------------------------------------------------------
(* The counters and the events. *)

\* The client, and the sniffer thread, leave everything the decimation thread
\* knows alone.
Beside ==
    /\ UNCHANGED <<decimation, contents, spoiled, dec_frame, dec_stored>>
    /\ fa_last'["decimation"] = fa_last["decimation"]
    /\ fa_cont'["decimation"] = fa_cont["decimation"]

LEMMA ClientBeside ==
    ASSUME Streams,
           \/ Subscribes \/ ClientGets \/ ClientGetsNull \/ ClientHeader
           \/ ClientReleases \/ ClientCloses
    PROVE  Beside /\ Streams'
<1> USE DEF Streams
<1> DEFINE Alone ==
        /\ UNCHANGED <<decimation, contents, spoiled, dec_frame, dec_stored,
                       fa_frame, fa_stored>>
<1>0. ASSUME Alone, UNCHANGED <<fa_last, fa_cont>> PROVE Beside /\ Streams'
    BY <1>0 DEF Beside
<1>1. ASSUME Alone, NEW n \in Nat, NEW b \in BOOLEAN,
             \/ fa_last' = [fa_last EXCEPT !["client"] = n]
             \/ UNCHANGED fa_last,
             fa_cont' = [fa_cont EXCEPT !["client"] = b]
      PROVE  Beside /\ Streams'
  <2>1. fa_last' \in [{"decimation", "client"} -> Nat]
        /\ fa_last'["decimation"] = fa_last["decimation"]
    BY <1>1
  <2>2. fa_cont' \in [{"decimation", "client"} -> BOOLEAN]
        /\ fa_cont'["decimation"] = fa_cont["decimation"]
    BY <1>1
  <2> QED
    BY <1>1, <2>1, <2>2 DEF Beside
<1>2. CASE Subscribes
  <2>1. Alone
    BY <1>2 DEF Subscribes, Rest, Fa!Open, Dec!Open, fa_buffer, dec_buffer
  <2>2. CASE Fa!Open("client")
    <3>1. PICK n \in fa_stored \cup {0} :
                fa_last' = [fa_last EXCEPT !["client"] = n]
        BY <2>2 DEF Fa!Open
    <3>2. n \in Nat /\ fa_cont' = [fa_cont EXCEPT !["client"] = TRUE]
        BY <2>2 DEF Fa!Open
    <3> QED
        BY <1>1, <2>1, <3>1, <3>2
  <2>3. CASE UNCHANGED fa_buffer
    BY <1>0, <2>1, <2>3 DEF fa_buffer
  <2> QED
    BY <1>2, <2>2, <2>3 DEF Subscribes
<1>3. CASE ClientGets \/ ClientHeader
    BY <1>0, <1>3 DEF ClientGets, ClientHeader, Rest, fa_buffer, dec_buffer
<1>4. ASSUME UNCHANGED Rest,
             (OnFa /\ Fa!Break("client")) \/ (OnDecimated /\ Dec!Break("client"))
      PROVE  Beside /\ Streams'
  <2>1. Alone /\ UNCHANGED fa_last
    BY <1>4 DEF Rest, OnFa, OnDecimated, Fa!Break, Dec!Break, fa_buffer,
                dec_buffer
  <2>2. CASE Fa!Break("client")
    BY <1>1, <2>1, <2>2 DEF Fa!Break
  <2>3. CASE UNCHANGED fa_buffer
    BY <1>0, <2>1, <2>3 DEF fa_buffer
  <2> QED
    BY <1>4, <2>2, <2>3 DEF OnDecimated
<1>5. CASE ClientGetsNull
    BY <1>4, <1>5 DEF ClientGetsNull
<1>6. CASE ClientReleases
  <2>1. CASE \/ OnFa /\ Fa!Deliver("client", sblock)
             \/ OnDecimated /\ Dec!Deliver("client", sblock)
    <3>1. Alone
        BY <1>6, <2>1 DEF ClientReleases, Rest, OnFa, OnDecimated, Fa!Deliver,
                          Dec!Deliver, fa_buffer, dec_buffer
    <3>2. CASE Fa!Deliver("client", sblock)
      <4>1. sblock \in Nat
        BY <3>2 DEF Fa!Deliver, Fa!Deliverable
      <4>2. /\ fa_last' = [fa_last EXCEPT !["client"] = sblock]
            /\ fa_cont' = [fa_cont EXCEPT !["client"] = TRUE]
        BY <3>2 DEF Fa!Deliver
      <4> QED
        BY <1>1, <3>1, <4>1, <4>2
    <3>3. CASE UNCHANGED fa_buffer
        BY <1>0, <3>1, <3>3 DEF fa_buffer
    <3> QED
        BY <2>1, <3>2, <3>3 DEF OnDecimated
  <2> QED
    BY <1>4, <1>6, <2>1 DEF ClientReleases
<1>7. CASE ClientCloses
  <2>1. Alone
    BY <1>7 DEF ClientCloses, Rest, OnFa, OnDecimated, Fa!Close, Dec!Close,
                fa_buffer, dec_buffer
  <2>2. CASE Fa!Close("client")
    BY <1>1, <2>1, <2>2 DEF Fa!Close
  <2>3. CASE UNCHANGED fa_buffer
    BY <1>0, <2>1, <2>3 DEF fa_buffer
  <2> QED
    BY <1>7, <2>2, <2>3 DEF ClientCloses, OnDecimated
<1> QED
    BY <1>2, <1>3, <1>5, <1>6, <1>7

LEMMA SnifferBeside ==
    ASSUME Streams, sniffer_thread
    PROVE  Beside /\ Streams'
<1>1. PICK ok \in BOOLEAN : Fa!Attempt(ok)
    BY DEF sniffer_thread
<1>2. /\ fa_frame' = fa_frame + 1
      /\ fa_stored' \in SUBSET (Nat \ {0})
      /\ UNCHANGED <<fa_last, fa_cont>>
    BY <1>1 DEF Fa!Attempt, Streams
<1> QED
    BY <1>2 DEF sniffer_thread, Streams, Beside, dec_buffer

LEMMA BesideCounts ==
    ASSUME CountInv, Beside, Streams'
    PROVE  CountInv'
<1>1. UNCHANGED <<dpc, block_in, in, decimation_counter, output_counter,
                  accumulated_events, out_pointer, spoiled>>
    BY DEF Beside, decimation, counters, output
<1>2. Here' = Here
    BY <1>1 DEF Beside, Here, Sample
<1> QED
    BY <1>1, <1>2 DEF CountInv, DecimationTypeOK, Events, CountersMatchSamples

LEMMA CountInit == Init => CountInv
<1> SUFFICES ASSUME Init PROVE CountInv
    OBVIOUS
<1>1. DecimationTypeOK
    BY Constants DEF Init, InitDecimation, DecimationTypeOK, Rows
<1>2. Streams
  <2>1. /\ fa_frame \in Nat \ {0} /\ fa_stored \in SUBSET (Nat \ {0})
        /\ fa_last \in [{"decimation", "client"} -> Nat]
    BY DEF Init
  <2>2. fa_cont \in [{"decimation", "client"} -> BOOLEAN]
    BY DEF Init
  <2>3. dec_frame = 1 /\ dec_stored = {} /\ spoiled = FALSE
    BY DEF Init, Dec!Init
  <2>4. dec_stored \in SUBSET (1 .. dec_frame - 1)
    BY <2>3
  <2>5. dec_frame \in Nat \ {0}
    BY <2>3
  <2>6. spoiled \in BOOLEAN
    BY <2>3, Zenon
  <2> QED
    BY <2>1, <2>2, <2>4, <2>5, <2>6 DEF Streams
<1>3. Events
    BY FS_EmptySet DEF Init, InitDecimation, Events
<1>4. decimation_factor * 0 = 0
    BY Constants
<1>5. CountersMatchSamples
    BY <1>4, FS_EmptySet DEF Init, InitDecimation, CountersMatchSamples
<1> QED
    BY <1>1, <1>2, <1>3, <1>5 DEF CountInv

LEMMA GetsCounts ==
    ASSUME CountInv, DecimationGets
    PROVE  CountInv'
<1>1. PICK f \in fa_stored :
        /\ f > fa_last["decimation"]
        /\ StartBlock(f)
        /\ spoiled' = (spoiled \/ ~Fa!Deliverable("decimation", f))
    BY DEF DecimationGets
<1>2. f \in Nat /\ fa_last["decimation"] \in Nat
    BY DEF CountInv, Streams
<1>3. DecimationTypeOK'
    BY <1>1, <1>2, Constants DEF CountInv, DecimationTypeOK, StartBlock,
                                 counters, output
<1>4. UNCHANGED <<fa_frame, fa_stored, fa_last, fa_cont, dec_frame, dec_stored>>
    BY DEF DecimationGets, fa_buffer, dec_buffer
<1>5. Streams'
    BY <1>1, <1>4 DEF CountInv, Streams
<1>6. UNCHANGED <<decimation_counter, output_counter, accumulated_events>>
    BY <1>1 DEF StartBlock, counters
<1>7. Here <= Here' /\ Here \in Nat /\ Here' \in Nat
  <2>1. Here = Sample(fa_last["decimation"] + 1, 0) /\ Here' = Sample(f, 0)
    BY <1>1 DEF StartBlock, Here, Sample
  <2>2. fa_last["decimation"] + 1 \in Nat
    BY <1>2
  <2>3. \A g \in Nat : Sample(g, 0) \in Nat
    BY SampleType, Zenon
  <2> QED
    BY <1>1, <1>2, <2>1, <2>2, <2>3, SampleLater
<1>8. Events'
    BY <1>6, <1>7 DEF CountInv, Events, DecimationGets
<1> QED
    BY <1>3, <1>5, <1>6, <1>8 DEF CountInv, CountersMatchSamples

LEMMA GapCounts ==
    ASSUME CountInv, DecimationGetsNull
    PROVE  CountInv'
<1>1. /\ UNCHANGED <<dpc, block_in, in, decimation_counter, output_counter,
                     accumulated_events, spoiled, fa_frame, fa_stored, fa_last>>
      /\ fa_cont' = [fa_cont EXCEPT !["decimation"] = FALSE]
    BY DEF DecimationGetsNull, NoBlock, counters, Fa!Break
<1>2. Releases(TRUE)
    BY DEF Releases
<1>3. dec_frame' = dec_frame + 1 /\ UNCHANGED dec_stored
    BY <1>2 DEF DecimationGetsNull, advance_write_block, Dec!Attempt
<1>4. out_pointer' \in Rows
    BY Constants DEF DecimationGetsNull, NoBlock, advance_index, CountInv,
                     DecimationTypeOK, Rows
<1>5. DecimationTypeOK'
    BY <1>1, <1>4 DEF CountInv, DecimationTypeOK, Rows
<1>6. Streams'
  <2>1. fa_cont' \in [{"decimation", "client"} -> BOOLEAN]
    BY <1>1 DEF CountInv, Streams
  <2>2. dec_frame' \in Nat \ {0} /\ dec_stored' \in SUBSET (1 .. dec_frame' - 1)
    BY <1>3 DEF CountInv, Streams
  <2> QED
    BY <1>1, <2>1, <2>2 DEF CountInv, Streams
<1>7. Here' = Here
    BY <1>1 DEF Here, Sample
<1> QED
    BY <1>1, <1>5, <1>6, <1>7 DEF CountInv, Events, CountersMatchSamples

LEMMA ReleaseCounts ==
    ASSUME CountInv, DecimationReleases
    PROVE  CountInv'
<1>1. /\ dpc = "decimate" /\ in = SampleCountIn
      /\ dpc' = "get" /\ block_in' = 0 /\ in' = 0
      /\ UNCHANGED <<decimation_counter, output_counter, accumulated_events,
                     out_pointer, dec_frame, dec_stored>>
    BY DEF DecimationReleases, EndBlock, counters, output, dec_buffer
<1>2. DecimationTypeOK'
    BY <1>1, Constants DEF CountInv, DecimationTypeOK, Rows
<1>3. CASE Fa!Deliver("decimation", block_in) /\ UNCHANGED spoiled
  <2>1. /\ block_in \in Nat
        /\ UNCHANGED <<fa_frame, fa_stored>>
        /\ fa_last' = [fa_last EXCEPT !["decimation"] = block_in]
        /\ fa_cont' = [fa_cont EXCEPT !["decimation"] = TRUE]
    BY <1>3 DEF Fa!Deliver, CountInv, DecimationTypeOK
  <2>2. /\ fa_last' \in [{"decimation", "client"} -> Nat]
        /\ fa_last'["decimation"] = block_in
    BY <2>1 DEF CountInv, Streams
  <2>3. fa_cont' \in [{"decimation", "client"} -> BOOLEAN]
    BY <2>1 DEF CountInv, Streams
  <2>4. Streams'
    BY <1>1, <1>3, <2>1, <2>2, <2>3 DEF CountInv, Streams
  <2>5. Here' = Here
    BY <1>1, <2>1, <2>2, SampleNext DEF Here, Sample
  <2> QED
    BY <1>1, <1>2, <1>3, <2>4, <2>5 DEF CountInv, Events, CountersMatchSamples
<1>4. CASE Fa!Break("decimation") /\ spoiled' = TRUE
  <2>1. /\ UNCHANGED <<fa_frame, fa_stored, fa_last>>
        /\ fa_cont' \in [{"decimation", "client"} -> BOOLEAN]
    BY <1>4 DEF Fa!Break, CountInv, Streams
  <2>2. Streams'
    BY <1>1, <1>4, <2>1 DEF CountInv, Streams
  <2> QED
    BY <1>1, <1>2, <1>4, <2>2 DEF CountInv, Events, CountersMatchSamples
<1> QED
    BY <1>3, <1>4 DEF DecimationReleases

\* One sample more: the counters follow it.
LEMMA DecimateCounters ==
    ASSUME CountInv, decimate_block
    PROVE  /\ Here = sample /\ Here' = sample + 1 /\ sample \in Nat
           /\ DecimationTypeOK'
           /\ WritesRow => Pending' = 0
           /\ ~WritesRow => Pending' = Pending + 1
<1>1. /\ dpc = "decimate" /\ in < SampleCountIn /\ in' = in + 1
      /\ UNCHANGED <<dpc, block_in>>
      /\ decimation_counter' =
            advance_index(decimation_counter, decimation_factor)
      /\ output_counter' = IF Combs
                           THEN advance_index(output_counter, filter_decimation)
                           ELSE output_counter
    BY DEF decimate_block, decimate_sample, AdvanceOutputCounter
<1>2. out_pointer' = IF WritesRow
                     THEN advance_index(out_pointer, output_sample_count)
                     ELSE out_pointer
    BY DEF decimate_block, decimate_sample, output
<1>3. /\ in \in Nat /\ block_in \in Nat
      /\ decimation_counter \in Nat /\ decimation_counter < decimation_factor
      /\ output_counter \in Nat /\ output_counter < filter_decimation
    BY Constants DEF CountInv, DecimationTypeOK
<1>4. Here = sample /\ Here' = sample + 1 /\ sample \in Nat
  <2>1. Here = Sample(block_in, in) /\ Here' = Sample(block_in, in + 1)
    BY <1>1 DEF Here, Sample
  <2> QED
    BY <1>3, <2>1, SampleType DEF sample
<1>5. DecimationTypeOK'
  <2>1. dpc' = "decimate" /\ block_in' \in Nat /\ in' \in 0 .. SampleCountIn
    BY <1>1, <1>3, Constants
  <2>2. decimation_counter' \in 0 .. decimation_factor - 1
    BY <1>1, <1>3, Constants DEF advance_index
  <2>3. output_counter' \in 0 .. filter_decimation - 1
    BY <1>1, <1>3, Constants DEF advance_index
  <2>4. out_pointer' \in Rows
    BY <1>2, Constants DEF advance_index, CountInv, DecimationTypeOK, Rows
  <2> QED
    BY <2>1, <2>2, <2>3, <2>4 DEF DecimationTypeOK, Rows
<1>6. decimation_factor * 0 = 0
    BY Constants
<1>7. ASSUME WritesRow PROVE Pending' = 0
  <2>1. decimation_counter' = 0 /\ output_counter' = 0
    BY <1>1, <1>7 DEF WritesRow, Combs, Cycles, advance_index
  <2> QED
    BY <1>6, <2>1 DEF Pending
<1>8. ASSUME ~WritesRow PROVE Pending' = Pending + 1
  <2>1. CASE Combs
    <3>1. decimation_counter' = 0 /\ decimation_counter = decimation_factor - 1
          /\ output_counter' = output_counter + 1
        BY <1>1, <1>3, <1>8, <2>1, Constants
            DEF WritesRow, Combs, Cycles, advance_index
    <3>2. /\ decimation_factor * (output_counter + 1) =
                decimation_factor * output_counter + decimation_factor
          /\ decimation_factor * output_counter \in Nat
        BY PendingMoves, <1>3, Constants DEF CountInv
    <3> QED
        BY <3>1, <3>2, Constants DEF Pending
  <2>2. CASE ~Combs
    <3>1. decimation_counter' = decimation_counter + 1
          /\ output_counter' = output_counter
        BY <1>1, <2>2 DEF Combs, Cycles, advance_index
    <3>2. decimation_factor * output_counter \in Nat
        BY <1>3, Constants
    <3> QED
        BY <1>3, <3>1, <3>2 DEF Pending
  <2> QED
    BY <2>1, <2>2
<1> QED
    BY <1>4, <1>5, <1>7, <1>8

LEMMA DecimateCounts ==
    ASSUME CountInv, decimate_block
    PROVE  CountInv'
<1>1. /\ Here = sample /\ Here' = sample + 1 /\ sample \in Nat
      /\ DecimationTypeOK'
      /\ WritesRow => Pending' = 0
      /\ ~WritesRow => Pending' = Pending + 1
    BY DecimateCounters
<1>2. ~spoiled /\ UNCHANGED <<spoiled, fa_frame, fa_stored, fa_last, fa_cont>>
    BY DEF decimate_block, fa_buffer
<1>3. accumulated_events' = IF WritesRow THEN {} ELSE combine_events
    BY DEF decimate_block, decimate_sample
<1>4. Streams'
  <2>1. \/ UNCHANGED <<dec_frame, dec_stored>>
        \/ /\ dec_frame' = dec_frame + 1
           /\ dec_stored' = dec_stored \cup {dec_frame}
    BY DEF decimate_block, advance_write_block, dec_buffer, Dec!Attempt
  <2>2. CASE UNCHANGED <<dec_frame, dec_stored>>
    BY <1>2, <2>2 DEF CountInv, Streams
  <2>3. CASE /\ dec_frame' = dec_frame + 1
             /\ dec_stored' = dec_stored \cup {dec_frame}
    <3>1. dec_frame \in Nat \ {0} /\ dec_stored \in SUBSET (1 .. dec_frame - 1)
        BY DEF CountInv, Streams
    <3>2. \A f \in dec_stored' : f \in 1 .. dec_frame
        BY <2>3, <3>1
    <3>3. dec_frame' \in Nat \ {0} /\ dec_frame' - 1 = dec_frame
        BY <2>3, <3>1
    <3> QED
        BY <1>2, <3>2, <3>3 DEF CountInv, Streams
  <2> QED
    BY <2>1, <2>2, <2>3
<1>5. /\ sample \notin accumulated_events
      /\ \A e \in combine_events : e \in Int /\ e < sample + 1
    BY <1>1, <1>2 DEF CountInv, Events, combine_events
<1>6. /\ IsFiniteSet(combine_events)
      /\ Cardinality(combine_events) = Cardinality(accumulated_events) + 1
    BY <1>5, FS_AddElement DEF CountInv, Events, combine_events
<1>7. Cardinality(accumulated_events) = Pending
    BY DEF CountInv, CountersMatchSamples, Pending
<1>8. Events' /\ Cardinality(accumulated_events') = Pending'
  <2>1. CASE WritesRow
    BY <1>1, <1>3, <2>1, FS_EmptySet DEF Events
  <2>2. CASE ~WritesRow
    <3>1. accumulated_events' = combine_events
        BY <1>3, <2>2
    <3>2. \A e \in accumulated_events' : e \in Int /\ e < Here'
        BY <1>1, <1>5, <3>1
    <3> QED
        BY <1>1, <1>6, <1>7, <2>2, <3>1, <3>2 DEF Events
  <2> QED
    BY <2>1, <2>2
<1> QED
    BY <1>1, <1>4, <1>8 DEF CountInv, CountersMatchSamples, Pending

LEMMA CountNext == CountInv /\ [Next]_vars => CountInv'
<1> SUFFICES ASSUME CountInv, [Next]_vars PROVE CountInv'
    OBVIOUS
<1>1. CASE UNCHANGED vars
  <2>1. Beside /\ Streams'
    BY <1>1 DEF vars, fa_buffer, dec_buffer, Beside, CountInv, Streams
  <2> QED
    BY <2>1, BesideCounts
<1>2. CASE \/ sniffer_thread \/ Subscribes \/ ClientGets \/ ClientGetsNull
           \/ ClientHeader \/ ClientReleases \/ ClientCloses
    BY <1>2, ClientBeside, SnifferBeside, BesideCounts DEF CountInv
<1> QED
    BY <1>1, <1>2, GetsCounts, GapCounts, DecimateCounts, ReleaseCounts DEF Next

-----------------------------------------------------------------------------
(* The rows.  What has to be known of a block that is being filled is      *)
(* known only if it will be the first, or follow a stored one: any gap     *)
(* before it makes it one of which nothing is promised.                    *)

Unbroken == dec_frame = 1 \/ dec_frame - 1 \in dec_stored

\* The first sample that belongs to the row to come.
RowStart == Here - Pending

EndsAt(row, n) == n - 1 \in row /\ \A e \in row : e < n

LastRow(block) == block[output_sample_count - 1].events

\* The row before the one to come, if there is any.
HasBefore == out_pointer > 0 \/ dec_frame > 1
Before == IF out_pointer > 0 THEN block_out[out_pointer - 1].events
          ELSE LastRow(contents[dec_frame - 1])

\* The first n rows of a block are whole, and each follows the one before.
SeamlessTo(block, n) ==
    /\ \A r \in 0 .. n - 1 : Whole(block[r].events)
    /\ \A r \in 1 .. n - 1 : Follows(block[r].events, block[r - 1].events)

Continues ==
    ~spoiled /\ Unbroken =>
        /\ dpc = "get" => fa_cont["decimation"]
        /\ accumulated_events = RowStart .. Here - 1
        /\ SeamlessTo(block_out, out_pointer)
        /\ HasBefore => EndsAt(Before, RowStart)
        /\ out_pointer > 0 /\ dec_frame > 1 =>
            Follows(block_out[0].events, LastRow(contents[dec_frame - 1]))

\* What DecimatedGapsAreMarked says of a block that was stored.
Marked(f) ==
    /\ f = 1 \/ f - 1 \in dec_stored =>
        SeamlessTo(contents[f], output_sample_count)
    /\ f - 1 \in dec_stored =>
        Follows(contents[f][0].events, LastRow(contents[f - 1]))

Functional ==
    /\ contents = [f \in 1 .. dec_frame - 1 |-> contents[f]]
    /\ block_out = [r \in Rows |-> block_out[r]]

\* The inductive invariant.
MarkInv ==
    /\ CountInv
    /\ Functional
    /\ Continues
    /\ ~spoiled => \A f \in dec_stored : Marked(f)

\* Appending to a sequence of anything.
LEMMA Appended ==
    ASSUME NEW n \in Nat, NEW s, s = [i \in 1 .. n |-> s[i]], NEW e
    PROVE  LET t == Append(s, e)
           IN /\ t = [i \in 1 .. n + 1 |-> t[i]]
              /\ \A i \in 1 .. n : t[i] = s[i]
              /\ t[n + 1] = e
<1> DEFINE S == {s[i] : i \in 1 .. n} \cup {e}
           t == Append(s, e)
<1>1. s \in [1 .. n -> S]
    OBVIOUS
<1>2. s \in Seq(S) /\ Len(s) = n
    BY <1>1, SeqDef, LenProperties
<1>3. /\ t \in Seq(S) /\ Len(t) = n + 1
      /\ \A i \in 1 .. n : t[i] = s[i]
      /\ t[n + 1] = e
    BY <1>2, AppendProperties
<1>4. t \in [1 .. n + 1 -> S]
    BY <1>3, LenProperties
<1>5. t = [i \in 1 .. n + 1 |-> t[i]]
    BY <1>4
<1> QED
    BY <1>3, <1>5

\* The row that completes a run of samples.
LEMMA RowWritten ==
    ASSUME MarkInv, decimate_block, WritesRow
    PROVE  /\ Written = [r \in Rows |-> Written[r]]
           /\ Written[out_pointer].events = combine_events
           /\ EndsAt(combine_events, sample + 1)
           /\ Unbroken =>
                /\ SeamlessTo(Written, out_pointer + 1)
                /\ dec_frame > 1 =>
                    Follows(Written[0].events, LastRow(contents[dec_frame - 1]))
<1>1. /\ Here = sample /\ sample \in Nat /\ ~spoiled
      /\ Pending \in Nat /\ Pending + 1 = get_decimation_factor
    BY DecimateCounters, PendingMoves DEF MarkInv, CountInv, decimate_block
<1>2. out_pointer \in Rows /\ out_pointer \in Nat
    BY DEF MarkInv, CountInv, DecimationTypeOK, Rows
<1>3. /\ Written = [r \in Rows |-> Written[r]]
      /\ Written[out_pointer].events = combine_events
      /\ \A r \in Rows \ {out_pointer} : Written[r] = block_out[r]
  <2>1. block_out = [r \in Rows |-> block_out[r]]
    BY DEF MarkInv, Functional
  <2> QED
    BY <1>2, <2>1 DEF Written
<1> DEFINE w == Written
<1> HIDE DEF w
<1>4. EndsAt(combine_events, sample + 1)
  <2>1. \A e \in accumulated_events : e \in Int /\ e < sample
    BY <1>1 DEF MarkInv, CountInv, Events
  <2>2. \A e \in combine_events : e < sample + 1
    BY <1>1, <2>1 DEF combine_events
  <2> QED
    BY <1>1, <2>2 DEF EndsAt, combine_events
<1>5. ASSUME Unbroken
      PROVE  /\ Whole(combine_events)
             /\ HasBefore => Follows(combine_events, Before)
  <2>1. /\ accumulated_events = RowStart .. Here - 1
        /\ HasBefore => EndsAt(Before, RowStart)
    BY <1>1, <1>5 DEF MarkInv, Continues
  <2>2. RowStart \in Int /\ RowStart <= sample /\ RowStart = sample - Pending
    BY <1>1 DEF RowStart
  <2>3. combine_events = RowStart .. sample
    BY <1>1, <2>1, <2>2 DEF combine_events
  <2>4. RowStart \in combine_events
        /\ sample = RowStart + get_decimation_factor - 1
    BY <1>1, <2>2, <2>3
  <2>5. Whole(combine_events)
    BY <2>3, <2>4 DEF Whole
  <2>6. ASSUME HasBefore PROVE Follows(combine_events, Before)
    <3>1. RowStart - 1 \in Before /\ \A e \in Before : e < RowStart
        BY <2>1, <2>6 DEF EndsAt
    <3>2. \A e \in combine_events : e >= RowStart /\ e \in Int
        BY <2>2, <2>3
    <3>3. combine_events \cap Before = {}
        BY <2>2, <3>1, <3>2
    <3> QED
        BY <2>4, <3>1, <3>3 DEF Follows
  <2> QED
    BY <2>5, <2>6
<1>6. ASSUME Unbroken PROVE SeamlessTo(w, out_pointer + 1)
  <2>1. SeamlessTo(block_out, out_pointer)
    BY <1>1, <1>6 DEF MarkInv, Continues
  <2>2. ASSUME NEW r \in 0 .. out_pointer PROVE Whole(w[r].events)
    <3>1. r \in Rows /\ (r = out_pointer \/ r \in 0 .. out_pointer - 1)
        BY <1>2, Constants DEF Rows
    <3> QED
        BY <1>3, <1>5, <1>6, <2>1, <3>1 DEF SeamlessTo, w
  <2>3. ASSUME NEW r \in 1 .. out_pointer
        PROVE  Follows(w[r].events, w[r - 1].events)
    <3>1. r \in Rows /\ r - 1 \in Rows /\ r - 1 # out_pointer
        BY <1>2, Constants DEF Rows
    <3>2. w[r - 1] = block_out[r - 1]
        BY <1>3, <3>1 DEF w
    <3>3. CASE r = out_pointer
      <4>1. HasBefore /\ Before = block_out[out_pointer - 1].events
        BY <1>2, <3>3 DEF HasBefore, Before
      <4> QED
        BY <1>3, <1>5, <1>6, <3>2, <3>3, <4>1 DEF w
    <3>4. CASE r # out_pointer
      <4>1. r \in 1 .. out_pointer - 1 /\ w[r] = block_out[r]
        BY <1>2, <1>3, <3>1, <3>4 DEF w
      <4> QED
        BY <2>1, <3>2, <4>1 DEF SeamlessTo
    <3> QED
        BY <3>3, <3>4
  <2>4. (out_pointer + 1) - 1 = out_pointer
    BY <1>2
  <2> QED
    BY <2>2, <2>3, <2>4 DEF SeamlessTo
<1>7. ASSUME Unbroken, dec_frame > 1
      PROVE  Follows(w[0].events, LastRow(contents[dec_frame - 1]))
  <2>1. CASE out_pointer = 0
    <3>1. HasBefore /\ Before = LastRow(contents[dec_frame - 1])
        BY <1>7, <2>1 DEF HasBefore, Before
    <3> QED
        BY <1>3, <1>5, <1>7, <2>1, <3>1 DEF w
  <2>2. CASE out_pointer # 0
    <3>1. out_pointer > 0 /\ 0 \in Rows
        BY <1>2, <2>2, Constants DEF Rows
    <3>2. Follows(block_out[0].events, LastRow(contents[dec_frame - 1]))
        BY <1>1, <1>7, <3>1 DEF MarkInv, Continues
    <3> QED
        BY <1>3, <2>2, <3>1, <3>2 DEF w
  <2> QED
    BY <2>1, <2>2
<1> QED
    BY <1>3, <1>4, <1>6, <1>7 DEF w

LEMMA MarkInit == Init => MarkInv
<1> SUFFICES ASSUME Init PROVE MarkInv
    OBVIOUS
<1>1. CountInv
    BY CountInit
<1>2. dec_frame = 1 /\ dec_stored = {}
    BY DEF Init, Dec!Init
<1>3. Functional
    BY <1>2 DEF Init, InitDecimation, Functional, Fresh
<1>4. Pending = 0 /\ Here \in Nat
  <2>1. decimation_factor * 0 = 0
    BY Constants
  <2>2. Pending = 0
    BY <2>1 DEF Init, InitDecimation, Pending
  <2>3. Here = Sample(1, 0)
    BY DEF Init, InitDecimation, Here
  <2> QED
    BY <2>2, <2>3, SampleType
<1>5. Continues
  <2>1. /\ out_pointer = 0 /\ accumulated_events = {}
        /\ fa_cont["decimation"]
    BY DEF Init, InitDecimation
  <2>2. accumulated_events = RowStart .. Here - 1
    BY <1>4, <2>1 DEF RowStart
  <2>3. SeamlessTo(block_out, out_pointer) /\ ~HasBefore
    BY <1>2, <2>1 DEF SeamlessTo, HasBefore
  <2> QED
    BY <2>1, <2>2, <2>3 DEF Continues
<1> QED
    BY <1>1, <1>2, <1>3, <1>5 DEF MarkInv

\* Nothing that the second half of the invariant speaks of has changed.
LEMMA SameRows ==
    ASSUME MarkInv, CountInv',
           UNCHANGED <<dpc, decimation_counter, output_counter,
                       accumulated_events, block_out, out_pointer, contents,
                       dec_frame, dec_stored, spoiled>>,
           Here' = Here, fa_cont'["decimation"] = fa_cont["decimation"]
    PROVE  MarkInv'
<1>1. Pending' = Pending /\ RowStart' = RowStart
    BY DEF Pending, RowStart
<1>2. Functional'
    BY DEF MarkInv, Functional
<1>3. HasBefore' = HasBefore /\ Before' = Before
    BY DEF HasBefore, Before, LastRow
<1>4. Continues'
    BY <1>1, <1>3 DEF MarkInv, Continues, Unbroken, SeamlessTo, Whole, LastRow,
                      Follows, EndsAt
<1>5. \A f : Marked(f)' = Marked(f)
    BY DEF Marked, SeamlessTo, Whole, LastRow, Follows
<1> QED
    BY <1>2, <1>4, <1>5 DEF MarkInv

LEMMA GetsMarks ==
    ASSUME MarkInv, DecimationGets
    PROVE  MarkInv'
<1>1. PICK f \in fa_stored :
        /\ f > fa_last["decimation"]
        /\ StartBlock(f)
        /\ spoiled' = (spoiled \/ ~Fa!Deliverable("decimation", f))
    BY DEF DecimationGets
<1>2. CountInv'
    BY GetsCounts DEF MarkInv
<1>3. /\ dpc = "get" /\ dpc' = "decimate"
      /\ UNCHANGED <<decimation_counter, output_counter, accumulated_events,
                     block_out, out_pointer, contents, dec_frame, dec_stored>>
    BY <1>1 DEF DecimationGets, StartBlock, counters, output, dec_buffer
<1>4. Functional'
    BY <1>3 DEF MarkInv, Functional
<1>5. ASSUME ~spoiled', Unbroken PROVE Here' = Here
  <2>1. ~spoiled /\ Fa!Deliverable("decimation", f) /\ fa_cont["decimation"]
    BY <1>1, <1>3, <1>5 DEF MarkInv, Continues
  <2>2. f = fa_last["decimation"] + 1
    BY <2>1 DEF Fa!Deliverable
  <2> QED
    BY <1>1, <1>3, <2>2 DEF StartBlock, Here, Sample
<1>6. Continues'
  <2> SUFFICES ASSUME ~spoiled', Unbroken' PROVE Continues'
    BY DEF Continues
  <2>1. Unbroken /\ ~spoiled
    BY <1>1, <1>3 DEF Unbroken
  <2>2. Here' = Here /\ RowStart' = RowStart
    BY <1>3, <1>5, <2>1 DEF RowStart, Pending
  <2>3. HasBefore' = HasBefore /\ Before' = Before
    BY <1>3 DEF HasBefore, Before, LastRow
  <2> QED
    BY <1>3, <2>1, <2>2, <2>3 DEF MarkInv, Continues, SeamlessTo, Whole,
                                  LastRow, Follows, EndsAt
<1>7. \A g : Marked(g)' = Marked(g)
    BY <1>3 DEF Marked, SeamlessTo, Whole, LastRow, Follows
<1> QED
    BY <1>1, <1>2, <1>3, <1>4, <1>6, <1>7 DEF MarkInv

LEMMA ReleaseMarks ==
    ASSUME MarkInv, DecimationReleases
    PROVE  MarkInv'
<1>1. CountInv'
    BY ReleaseCounts DEF MarkInv
<1>2. /\ dpc = "decimate" /\ in = SampleCountIn /\ dpc' = "get"
      /\ UNCHANGED <<decimation_counter, output_counter, accumulated_events,
                     block_out, out_pointer, contents, dec_frame, dec_stored>>
    BY DEF DecimationReleases, EndBlock, counters, output, dec_buffer
<1>3. Functional'
    BY <1>2 DEF MarkInv, Functional
<1>4. \A g : Marked(g)' = Marked(g)
    BY <1>2 DEF Marked, SeamlessTo, Whole, LastRow, Follows
<1>5. CASE Fa!Deliver("decimation", block_in) /\ UNCHANGED spoiled
  <2>1. /\ block_in \in Nat
        /\ fa_last' = [fa_last EXCEPT !["decimation"] = block_in]
        /\ fa_cont' = [fa_cont EXCEPT !["decimation"] = TRUE]
    BY <1>5 DEF Fa!Deliver, MarkInv, CountInv, DecimationTypeOK
  <2>2. fa_last'["decimation"] = block_in /\ fa_cont'["decimation"]
    BY <2>1 DEF MarkInv, CountInv, Streams
  <2>3. Here' = Here
    BY <1>2, <2>1, <2>2, SampleNext DEF Here, Sample
  <2>4. RowStart' = RowStart
    BY <1>2, <2>3 DEF RowStart, Pending
  <2>5. HasBefore' = HasBefore /\ Before' = Before
    BY <1>2 DEF HasBefore, Before, LastRow
  <2>6. Continues'
    BY <1>2, <1>5, <2>2, <2>3, <2>4, <2>5
        DEF MarkInv, Continues, Unbroken, SeamlessTo, Whole, LastRow, Follows,
            EndsAt
  <2> QED
    BY <1>1, <1>2, <1>3, <1>4, <1>5, <2>6 DEF MarkInv
<1>6. CASE spoiled' = TRUE
    BY <1>1, <1>3, <1>6 DEF MarkInv, Continues
<1> QED
    BY <1>5, <1>6 DEF DecimationReleases

\* After a block has been appended those stored before are still what they were.
LEMMA MarksKept ==
    ASSUME MarkInv, CountInv', ~spoiled, NEW b,
           contents' = Append(contents, b), dec_frame' = dec_frame + 1,
           dec_stored' \in {dec_stored, dec_stored \cup {dec_frame}}
    PROVE  /\ contents' = [f \in 1 .. dec_frame' - 1 |-> contents'[f]]
           /\ \A f \in 1 .. dec_frame - 1 : contents'[f] = contents[f]
           /\ contents'[dec_frame] = b
           /\ \A f \in dec_stored : Marked(f)'
<1>1. /\ dec_frame \in Nat \ {0} /\ dec_stored \in SUBSET (1 .. dec_frame - 1)
      /\ dec_frame' - 1 = dec_frame
    BY DEF MarkInv, CountInv, Streams
<1> DEFINE n == dec_frame - 1
<1>2. n \in Nat /\ n + 1 = dec_frame
    BY <1>1
<1>3. contents = [f \in 1 .. n |-> contents[f]]
    BY DEF MarkInv, Functional
<1> HIDE DEF n
<1>4. /\ contents' = [f \in 1 .. dec_frame |-> contents'[f]]
      /\ \A f \in 1 .. n : contents'[f] = contents[f]
      /\ contents'[dec_frame] = b
  <2> DEFINE t == Append(contents, b)
  <2>1. /\ t = [f \in 1 .. n + 1 |-> t[f]]
        /\ \A f \in 1 .. n : t[f] = contents[f]
        /\ t[n + 1] = b
    BY <1>2, <1>3, Appended
  <2> HIDE DEF t
  <2>2. contents' = t
    BY DEF t
  <2> QED
    BY <1>2, <2>1, <2>2
<1>5. ASSUME NEW f \in dec_stored PROVE Marked(f)'
  <2>1. f \in 1 .. n /\ f # dec_frame /\ f - 1 # dec_frame /\ Marked(f)
    BY <1>1, <1>2 DEF MarkInv
  <2>2. (f - 1 \in dec_stored') = (f - 1 \in dec_stored)
    BY <2>1
  <2>3. contents'[f] = contents[f]
    BY <1>4, <2>1
  <2>4. f - 1 \in dec_stored => contents'[f - 1] = contents[f - 1]
    BY <1>1, <1>4 DEF n
  <2>5. f = 1 \/ f - 1 \in dec_stored' =>
            SeamlessTo(contents'[f], output_sample_count)
    BY <2>1, <2>2, <2>3 DEF Marked
  <2>6. f - 1 \in dec_stored' =>
            Follows(contents'[f][0].events, LastRow(contents'[f - 1]))
    BY <2>1, <2>2, <2>3, <2>4 DEF Marked
  <2> QED
    BY <2>5, <2>6 DEF Marked, SeamlessTo, LastRow
<1> QED
    BY <1>1, <1>4, <1>5 DEF n

LEMMA GapMarks ==
    ASSUME MarkInv, DecimationGetsNull
    PROVE  MarkInv'
<1>1. CountInv' /\ ~spoiled /\ UNCHANGED <<spoiled, block_out>>
    BY GapCounts DEF MarkInv, DecimationGetsNull, NoBlock
<1>2. Releases(TRUE)
    BY DEF Releases
<1>3. /\ dec_frame' = dec_frame + 1 /\ UNCHANGED dec_stored
      /\ contents' = Append(contents, Fresh)
    BY <1>2 DEF DecimationGetsNull, advance_write_block, Dec!Attempt
<1>4. /\ contents' = [f \in 1 .. dec_frame' - 1 |-> contents'[f]]
      /\ \A f \in dec_stored : Marked(f)'
    BY <1>1, <1>3, MarksKept
<1>5. ~Unbroken'
  <2>1. /\ dec_frame \in Nat \ {0} /\ dec_stored \in SUBSET (1 .. dec_frame - 1)
    BY DEF MarkInv, CountInv, Streams
  <2> QED
    BY <1>3, <2>1 DEF Unbroken
<1>6. Functional'
    BY <1>1, <1>4 DEF MarkInv, Functional
<1> QED
    BY <1>1, <1>3, <1>4, <1>5, <1>6 DEF MarkInv, Continues

LEMMA DecimateMarks ==
    ASSUME MarkInv, decimate_block
    PROVE  MarkInv'
<1>1. CountInv' /\ ~spoiled /\ UNCHANGED <<spoiled, dpc>> /\ dpc = "decimate"
    BY DecimateCounts DEF MarkInv, decimate_block, decimate_sample
<1>2. /\ Here = sample /\ Here' = sample + 1 /\ sample \in Nat
      /\ WritesRow => Pending' = 0
      /\ ~WritesRow => Pending' = Pending + 1
    BY DecimateCounters DEF MarkInv
<1>3. Pending \in Nat
    BY PendingMoves DEF MarkInv, CountInv
<1>4. out_pointer \in Nat /\ out_pointer < output_sample_count
    BY Constants DEF MarkInv, CountInv, DecimationTypeOK, Rows
<1>5. dec_frame \in Nat \ {0} /\ dec_stored \in SUBSET (1 .. dec_frame - 1)
    BY DEF MarkInv, CountInv, Streams
<1>6. CASE ~WritesRow
  <2>1. /\ UNCHANGED <<contents, dec_frame, dec_stored, block_out, out_pointer>>
        /\ accumulated_events' = combine_events
    BY <1>6 DEF decimate_block, decimate_sample, output, dec_buffer
  <2>2. RowStart \in Int /\ RowStart <= sample /\ RowStart' = RowStart
    BY <1>2, <1>3, <1>6 DEF RowStart
  <2>3. accumulated_events = RowStart .. Here - 1
            => accumulated_events' = RowStart' .. Here' - 1
    BY <1>2, <2>1, <2>2 DEF combine_events
  <2>4. HasBefore' = HasBefore /\ Before' = Before
    BY <2>1 DEF HasBefore, Before, LastRow
  <2>5. Continues'
    BY <1>1, <2>1, <2>2, <2>3, <2>4
        DEF MarkInv, Continues, Unbroken, SeamlessTo, Whole, LastRow, Follows,
            EndsAt
  <2>6. \A f : Marked(f)' = Marked(f)
    BY <2>1 DEF Marked, SeamlessTo, Whole, LastRow, Follows
  <2>7. Functional'
    BY <2>1 DEF MarkInv, Functional
  <2> QED
    BY <1>1, <2>1, <2>5, <2>6, <2>7 DEF MarkInv
<1>7. CASE WritesRow
  <2> DEFINE w == Written
  <2>1. /\ w = [r \in Rows |-> w[r]]
        /\ w[out_pointer].events = combine_events
        /\ EndsAt(combine_events, sample + 1)
        /\ Unbroken =>
            /\ SeamlessTo(w, out_pointer + 1)
            /\ dec_frame > 1 =>
                Follows(w[0].events, LastRow(contents[dec_frame - 1]))
    BY <1>7, RowWritten
  <2>2. /\ accumulated_events' = {}
        /\ block_out' = IF Releases(FALSE) THEN Fresh ELSE w
        /\ out_pointer' = advance_index(out_pointer, output_sample_count)
        /\ advance_write_block(FALSE)
    BY <1>7 DEF decimate_block, decimate_sample
  <2>3. /\ RowStart' = sample + 1
        /\ accumulated_events' = RowStart' .. Here' - 1
    BY <1>2, <1>7, <2>2 DEF RowStart
  <2>a. Releases(FALSE) =>
            contents' = Append(contents, w) /\ Dec!Attempt(TRUE)
    BY <2>2 DEF advance_write_block
  <2> HIDE DEF w
  <2>4. CASE ~Releases(FALSE)
    <3>1. /\ UNCHANGED <<contents, dec_frame, dec_stored>>
          /\ block_out' = w /\ out_pointer' = out_pointer + 1
        BY <2>2, <2>4 DEF advance_write_block, dec_buffer, Releases, Cycles,
                          advance_index
    <3>2. Functional'
        BY <2>1, <3>1 DEF MarkInv, Functional, Rows
    <3>3. \A f : Marked(f)' = Marked(f)
        BY <3>1 DEF Marked, SeamlessTo, Whole, LastRow, Follows
    <3>4. EndsAt(Before, RowStart)'
      <4>1. Before' = combine_events
        BY <1>4, <2>1, <3>1 DEF Before
      <4> QED
        BY <2>1, <2>3, <4>1 DEF EndsAt
    <3>5. Continues'
      <4> SUFFICES ASSUME Unbroken PROVE Continues'
        BY <3>1 DEF Continues, Unbroken
      <4>1. SeamlessTo(block_out, out_pointer)'
        BY <2>1, <3>1 DEF SeamlessTo, Whole, Follows
      <4>2. dec_frame' > 1 =>
                Follows(block_out[0].events, LastRow(contents[dec_frame - 1]))'
        BY <2>1, <3>1 DEF Follows, LastRow
      <4> QED
        BY <1>1, <2>3, <3>4, <4>1, <4>2 DEF Continues
    <3> QED
        BY <1>1, <3>1, <3>2, <3>3, <3>5 DEF MarkInv
  <2>5. CASE Releases(FALSE)
    <3>1. /\ contents' = Append(contents, w) /\ dec_frame' = dec_frame + 1
          /\ dec_stored' = dec_stored \cup {dec_frame}
        BY <2>5, <2>a DEF Dec!Attempt
    <3>2. /\ block_out' = Fresh /\ out_pointer' = 0
          /\ out_pointer + 1 = output_sample_count
        BY <1>4, <2>2, <2>5, Constants DEF Releases, Cycles, advance_index
    <3>3. /\ contents' = [f \in 1 .. dec_frame' - 1 |-> contents'[f]]
          /\ \A f \in 1 .. dec_frame - 1 : contents'[f] = contents[f]
          /\ contents'[dec_frame] = w
          /\ \A f \in dec_stored : Marked(f)'
        BY <1>1, <3>1, MarksKept
    <3>4. Functional'
        BY <3>2, <3>3 DEF MarkInv, Functional, Fresh, Rows
    <3>5. EndsAt(Before, RowStart)'
      <4>1. Before' = LastRow(w)
        BY <1>5, <3>1, <3>2, <3>3 DEF Before, LastRow
      <4>2. LastRow(w) = combine_events
        BY <1>4, <2>1, <3>2, Constants DEF LastRow
      <4> QED
        BY <2>1, <2>3, <4>1, <4>2 DEF EndsAt
    <3>6. Continues'
      <4>1. SeamlessTo(block_out, out_pointer)'
        BY <3>2 DEF SeamlessTo
      <4> QED
        BY <1>1, <2>3, <3>2, <3>5, <4>1 DEF Continues
    <3>7. \A n \in {dec_frame} : Marked(n)'
      <4>1. dec_frame = 1 \/ dec_frame - 1 \in dec_stored' => Unbroken
        BY <1>5, <3>1 DEF Unbroken
      <4>2. Unbroken => SeamlessTo(contents'[dec_frame], output_sample_count)
        BY <2>1, <3>2, <3>3
      <4>3. dec_frame - 1 \in dec_stored' =>
                /\ Unbroken /\ dec_frame > 1
                /\ contents'[dec_frame - 1] = contents[dec_frame - 1]
        BY <1>5, <3>1, <3>3, <4>1
      <4>4. dec_frame = 1 \/ dec_frame - 1 \in dec_stored' =>
                SeamlessTo(contents'[dec_frame], output_sample_count)
        BY <4>1, <4>2
      <4>5. dec_frame - 1 \in dec_stored' =>
                Follows(contents'[dec_frame][0].events,
                        LastRow(contents'[dec_frame - 1]))
        BY <2>1, <3>3, <4>3
      <4> QED
        BY <4>4, <4>5 DEF Marked, SeamlessTo, LastRow
    <3>8. \A f \in dec_stored' : Marked(f)'
        BY <3>1, <3>3, <3>7
    <3> QED
        BY <1>1, <3>4, <3>6, <3>8 DEF MarkInv
  <2> QED
    BY <2>4, <2>5
<1> QED
    BY <1>6, <1>7

LEMMA MarkNext == MarkInv /\ [Next]_vars => MarkInv'
<1> SUFFICES ASSUME MarkInv, [Next]_vars PROVE MarkInv'
    OBVIOUS
<1>1. ASSUME Beside, Streams' PROVE MarkInv'
  <2>1. CountInv'
    BY <1>1, BesideCounts DEF MarkInv
  <2>2. UNCHANGED <<dpc, block_in, in, decimation_counter, output_counter,
                    accumulated_events, block_out, out_pointer, contents,
                    dec_frame, dec_stored, spoiled>>
    BY <1>1 DEF Beside, decimation, counters, output
  <2>3. Here' = Here /\ fa_cont'["decimation"] = fa_cont["decimation"]
    BY <1>1, <2>2 DEF Beside, Here, Sample
  <2> QED
    BY <2>1, <2>2, <2>3, SameRows
<1>2. CASE UNCHANGED vars
  <2>1. Beside /\ Streams'
    BY <1>2 DEF vars, fa_buffer, dec_buffer, Beside, MarkInv, CountInv, Streams
  <2> QED
    BY <1>1, <2>1
<1>3. CASE \/ sniffer_thread \/ Subscribes \/ ClientGets \/ ClientGetsNull
           \/ ClientHeader \/ ClientReleases \/ ClientCloses
    BY <1>1, <1>3, ClientBeside, SnifferBeside DEF MarkInv, CountInv
<1> QED
    BY <1>2, <1>3, GetsMarks, GapMarks, DecimateMarks, ReleaseMarks DEF Next

-----------------------------------------------------------------------------
(* The client, on either stream. *)

StreamStored == IF source = "fa" THEN fa_stored ELSE dec_stored
StreamLast == IF source = "fa" THEN fa_last["client"] ELSE dec_last["client"]
StreamCont == IF source = "fa" THEN fa_cont["client"] ELSE dec_cont["client"]

\* What was sent is unbroken, and the first block does not follow a gap.
Sent ==
    /\ \A i \in DOMAIN received : received[i] \in StreamStored
    /\ \A i \in DOMAIN received \ {1} : received[i] = received[i - 1] + 1
    /\ received # <<>> =>
        /\ header = received[1]
        /\ received[1] = 1 \/ received[1] - 1 \in StreamStored

\* The stream has told the client of no break, and goes on from what was sent.
InStep ==
    /\ StreamCont
    /\ received = <<>> => StreamLast \in StreamStored \cup {0}
    /\ received # <<>> => StreamLast = received[Len(received)]

ClientInv ==
    /\ spc \in {"idle", "get", "header", "copy", "closing"}
    /\ source \in {"fa", "decimated"}
    /\ received \in Seq(Nat \ {0})
    /\ dec_last \in [{"client"} -> Nat]
    /\ dec_cont \in [{"client"} -> BOOLEAN]
    /\ Sent
    /\ spc \in {"get", "header", "copy"} => InStep
    /\ spc \in {"idle", "header"} => received = <<>>
    /\ spc \in {"idle", "get"} /\ received = <<>> => header = 0
    /\ spc \in {"header", "copy"} /\ received = <<>> => header = sblock

LEMMA ClientInit == Init => ClientInv
<1> SUFFICES ASSUME Init PROVE ClientInv
    OBVIOUS
<1>1. /\ spc = "idle" /\ source = "fa" /\ header = 0 /\ received = <<>>
      /\ dec_last = [r \in {"client"} |-> 0]
      /\ dec_cont = [r \in {"client"} |-> FALSE]
    BY DEF Init, InitSubscription, Dec!Init
<1>2. received \in Seq(Nat \ {0}) /\ DOMAIN received = {}
    BY <1>1, EmptySeq
<1>3. Sent
    BY <1>1, <1>2 DEF Sent
<1> QED
    BY <1>1, <1>2, <1>3 DEF ClientInv

LEMMA ClientUndisturbed ==
    ASSUME ClientInv, UNCHANGED subscription,
           fa_last'["client"] = fa_last["client"],
           fa_cont'["client"] = fa_cont["client"],
           UNCHANGED <<dec_last, dec_cont>>,
           fa_stored \subseteq fa_stored', dec_stored \subseteq dec_stored'
    PROVE  ClientInv'
<1>1. UNCHANGED <<spc, source, sblock, header, received>>
    BY DEF subscription
<1>2. /\ StreamStored \subseteq StreamStored'
      /\ StreamLast' = StreamLast
      /\ StreamCont' = StreamCont
    BY <1>1 DEF StreamStored, StreamLast, StreamCont
<1>3. Sent'
    BY <1>1, <1>2 DEF ClientInv, Sent
<1>4. InStep => InStep'
    BY <1>1, <1>2 DEF InStep
<1> QED
    BY <1>1, <1>3, <1>4 DEF ClientInv

LEMMA ServersUndisturb ==
    ASSUME Streams, ClientInv,
           \/ sniffer_thread \/ DecimationGets \/ DecimationGetsNull
           \/ decimate_block \/ DecimationReleases
    PROVE  ClientInv'
<1>1. CASE sniffer_thread
  <2>1. PICK ok \in BOOLEAN : Fa!Attempt(ok)
    BY <1>1 DEF sniffer_thread
  <2>2. fa_stored \subseteq fa_stored' /\ UNCHANGED <<fa_last, fa_cont>>
    BY <2>1 DEF Fa!Attempt
  <2> QED
    BY <1>1, <2>2, ClientUndisturbed DEF sniffer_thread, dec_buffer
<1>2. CASE DecimationGets
    BY <1>2, ClientUndisturbed DEF DecimationGets, fa_buffer, dec_buffer
<1>3. CASE DecimationGetsNull
  <2>1. /\ UNCHANGED <<subscription, fa_stored, fa_last>>
        /\ fa_cont' = [fa_cont EXCEPT !["decimation"] = FALSE]
    BY <1>3 DEF DecimationGetsNull, Fa!Break
  <2>2. fa_cont'["client"] = fa_cont["client"]
    BY <2>1 DEF Streams
  <2>3. UNCHANGED <<dec_last, dec_cont, dec_stored>>
    BY <1>3 DEF DecimationGetsNull, advance_write_block, Dec!Attempt, dec_buffer
  <2> QED
    BY <2>1, <2>2, <2>3, ClientUndisturbed
<1>4. CASE decimate_block
  <2>1. UNCHANGED <<dec_last, dec_cont>> /\ dec_stored \subseteq dec_stored'
    BY <1>4 DEF decimate_block, advance_write_block, Dec!Attempt, dec_buffer
  <2> QED
    BY <1>4, <2>1, ClientUndisturbed DEF decimate_block, fa_buffer
<1>5. CASE DecimationReleases
  <2>1. /\ UNCHANGED <<subscription, fa_stored, dec_last, dec_cont, dec_stored>>
        /\ \/ fa_last' = [fa_last EXCEPT !["decimation"] = block_in]
           \/ UNCHANGED fa_last
        /\ \/ fa_cont' = [fa_cont EXCEPT !["decimation"] = TRUE]
           \/ fa_cont' = [fa_cont EXCEPT !["decimation"] = FALSE]
    BY <1>5 DEF DecimationReleases, Fa!Deliver, Fa!Break, dec_buffer
  <2>2. /\ fa_last'["client"] = fa_last["client"]
        /\ fa_cont'["client"] = fa_cont["client"]
    BY <2>1 DEF Streams
  <2> QED
    BY <2>1, <2>2, ClientUndisturbed
<1> QED
    BY <1>1, <1>2, <1>3, <1>4, <1>5

LEMMA SubscribesInStep ==
    ASSUME Streams, ClientInv, Subscribes
    PROVE  ClientInv'
<1>1. /\ spc = "idle" /\ spc' = "get"
      /\ UNCHANGED <<sblock, header, received>>
    BY DEF Subscribes, process_subscribe
<1>2. received = <<>> /\ header = 0 /\ DOMAIN received = {}
    BY <1>1, EmptySeq DEF ClientInv
<1>3. Sent'
    BY <1>1, <1>2 DEF Sent
<1>4. CASE source' = "fa" /\ Fa!Open("client") /\ UNCHANGED dec_buffer
  <2>1. PICK n \in fa_stored \cup {0} :
            fa_last' = [fa_last EXCEPT !["client"] = n]
    BY <1>4 DEF Fa!Open
  <2>2. fa_last'["client"] = n
    BY <2>1 DEF Streams
  <2>3. fa_cont'["client"] /\ UNCHANGED fa_stored
    BY <1>4 DEF Fa!Open, Streams
  <2>4. InStep'
    BY <1>1, <1>2, <1>4, <2>1, <2>2, <2>3
        DEF InStep, StreamCont, StreamLast, StreamStored
  <2> QED
    BY <1>1, <1>2, <1>3, <1>4, <2>4 DEF ClientInv, dec_buffer
<1>5. CASE source' = "decimated" /\ Dec!Open("client") /\ UNCHANGED fa_buffer
  <2>1. PICK n \in dec_stored \cup {0} :
            dec_last' = [dec_last EXCEPT !["client"] = n]
    BY <1>5 DEF Dec!Open
  <2>2. n \in Nat
    BY DEF Streams
  <2>3. /\ dec_last' \in [{"client"} -> Nat] /\ dec_last'["client"] = n
        /\ dec_cont' = [dec_cont EXCEPT !["client"] = TRUE]
        /\ UNCHANGED dec_stored
    BY <1>5, <2>1, <2>2 DEF ClientInv, Dec!Open
  <2>4. dec_cont' \in [{"client"} -> BOOLEAN] /\ dec_cont'["client"]
    BY <2>3 DEF ClientInv
  <2>5. InStep'
    BY <1>1, <1>2, <1>5, <2>1, <2>3, <2>4
        DEF InStep, StreamCont, StreamLast, StreamStored
  <2> QED
    BY <1>1, <1>2, <1>3, <1>5, <2>3, <2>4, <2>5 DEF ClientInv
<1> QED
    BY <1>4, <1>5 DEF Subscribes, process_subscribe

\* Steps that leave the streams alone.
LEMMA ClientLocal ==
    ASSUME ClientInv, ClientGets \/ ClientHeader
    PROVE  ClientInv'
<1>1. UNCHANGED <<source, received, fa_stored, fa_last, fa_cont, dec_stored,
                  dec_last, dec_cont>>
    BY DEF ClientGets, ClientHeader, GetBlock, send_header, fa_buffer, dec_buffer
<1>2. InStep' = InStep
    BY <1>1 DEF InStep, StreamCont, StreamLast, StreamStored
<1>3. header' = header => Sent'
    BY <1>1 DEF ClientInv, Sent, StreamStored
<1>4. CASE ClientHeader
    BY <1>1, <1>2, <1>3, <1>4 DEF ClientInv, ClientHeader, send_header
<1>5. CASE ClientGets
  <2>1. PICK f : GetBlock(f)
    BY <1>5 DEF ClientGets
  <2>2. CASE header = 0
    <3>1. received = <<>>
      <4>1. received # <<>> => received[1] \in Nat \ {0}
        BY ElementOfSeq, EmptySeq, LenProperties DEF ClientInv
      <4> QED
        BY <2>2, <4>1 DEF ClientInv, Sent
    <3>2. Sent'
        BY <1>1, <3>1, EmptySeq DEF Sent
    <3> QED
        BY <1>1, <1>2, <2>1, <2>2, <3>1, <3>2 DEF ClientInv, GetBlock
  <2>3. CASE header # 0
    <3>1. received # <<>> /\ header' = header /\ spc' = "copy"
        BY <2>1, <2>3 DEF ClientInv, GetBlock
    <3> QED
        BY <1>1, <1>2, <1>3, <2>1, <3>1 DEF ClientInv, GetBlock
  <2> QED
    BY <2>2, <2>3
<1> QED
    BY <1>4, <1>5

\* A subscription that ends: what was sent stays what it is.
LEMMA ClientEnds ==
    ASSUME ClientInv,
           spc' = "closing", UNCHANGED <<source, header, received>>,
           UNCHANGED <<fa_stored, dec_stored>>,
           dec_last' \in [{"client"} -> Nat],
           dec_cont' \in [{"client"} -> BOOLEAN]
    PROVE  ClientInv'
<1>1. Sent'
    BY DEF ClientInv, Sent, StreamStored
<1> QED
    BY <1>1 DEF ClientInv

LEMMA BreakTypes ==
    ASSUME ClientInv,
           (OnFa /\ Fa!Break("client")) \/ (OnDecimated /\ Dec!Break("client"))
    PROVE  /\ UNCHANGED <<fa_stored, dec_stored>>
           /\ dec_last' \in [{"client"} -> Nat]
           /\ dec_cont' \in [{"client"} -> BOOLEAN]
    BY DEF ClientInv, OnFa, OnDecimated, Fa!Break, Dec!Break, fa_buffer,
           dec_buffer

\* The block delivered is the next one, and is added to what was sent.
LEMMA DeliverInStep ==
    ASSUME Streams, ClientInv, SendCopy,
           \/ OnFa /\ Fa!Deliver("client", sblock)
           \/ OnDecimated /\ Dec!Deliver("client", sblock)
    PROVE  ClientInv'
<1>1. /\ spc = "copy" /\ UNCHANGED <<source, header>>
      /\ \/ spc' = "get" /\ received' = Append(received, sblock)
         \/ spc' = "closing" /\ UNCHANGED received
    BY DEF SendCopy
<1>2. InStep /\ (received = <<>> => header = sblock)
    BY <1>1 DEF ClientInv
<1>3. /\ UNCHANGED <<fa_stored, dec_stored>>
      /\ dec_last' \in [{"client"} -> Nat]
      /\ dec_cont' \in [{"client"} -> BOOLEAN]
      /\ sblock \in StreamStored /\ sblock = StreamLast + 1
      /\ StreamCont' /\ StreamLast' = sblock
      /\ sblock \in Nat \ {0} /\ StreamLast \in Nat
  <2>1. CASE OnFa /\ Fa!Deliver("client", sblock)
    <3>1. /\ source = "fa" /\ sblock \in fa_stored
          /\ UNCHANGED <<dec_last, dec_cont, dec_stored, fa_stored>>
          /\ fa_last' = [fa_last EXCEPT !["client"] = sblock]
          /\ fa_cont' = [fa_cont EXCEPT !["client"] = TRUE]
          /\ fa_cont["client"] => sblock = fa_last["client"] + 1
        BY <2>1 DEF OnFa, Fa!Deliver, Fa!Deliverable, dec_buffer
    <3>2. fa_last'["client"] = sblock /\ fa_cont'["client"]
        BY <3>1 DEF Streams
    <3> QED
        BY <1>1, <1>2, <3>1, <3>2
            DEF ClientInv, InStep, StreamCont, StreamLast, StreamStored, Streams
  <2>2. CASE OnDecimated /\ Dec!Deliver("client", sblock)
    <3>1. /\ source = "decimated" /\ sblock \in dec_stored
          /\ UNCHANGED <<dec_stored, fa_stored>>
          /\ dec_last' = [dec_last EXCEPT !["client"] = sblock]
          /\ dec_cont' = [dec_cont EXCEPT !["client"] = TRUE]
          /\ dec_cont["client"] => sblock = dec_last["client"] + 1
        BY <2>2 DEF OnDecimated, Dec!Deliver, Dec!Deliverable, fa_buffer
    <3>2. sblock \in Nat \ {0}
        BY <3>1 DEF Streams
    <3>3. /\ dec_last' \in [{"client"} -> Nat] /\ dec_last'["client"] = sblock
          /\ dec_cont' \in [{"client"} -> BOOLEAN] /\ dec_cont'["client"]
          /\ dec_last["client"] \in Nat
        BY <3>1, <3>2 DEF ClientInv
    <3> QED
        BY <1>1, <1>2, <3>1, <3>2, <3>3
            DEF ClientInv, InStep, StreamCont, StreamLast, StreamStored
  <2> QED
    BY <2>1, <2>2
<1>4. CASE spc' = "closing" /\ UNCHANGED received
    BY <1>1, <1>3, <1>4, ClientEnds
<1>5. CASE spc' = "get" /\ received' = Append(received, sblock)
  <2> DEFINE n == Len(received)
             sent == Append(received, sblock)
  <2>1. received \in Seq(Nat \ {0}) /\ n \in Nat /\ DOMAIN received = 1 .. n
    BY LenProperties DEF ClientInv
  <2>2. /\ sent \in Seq(Nat \ {0}) /\ Len(sent) = n + 1
        /\ \A i \in 1 .. n : sent[i] = received[i]
        /\ sent[n + 1] = sblock
    BY <1>3, <2>1, AppendProperties
  <2>3. DOMAIN sent = 1 .. n + 1 /\ sent # <<>>
    BY <2>1, <2>2, LenProperties, EmptySeq
  <2>4. received = <<>> <=> n = 0
    BY <2>1, EmptySeq
  <2> HIDE DEF n, sent
  <2>5. received' = sent
    BY <1>5 DEF sent
  <2>6. StreamStored' = StreamStored
    BY <1>1, <1>3 DEF StreamStored
  <2>7. received # <<>> => StreamLast = received[n]
    BY <1>2 DEF InStep, n
  <2>8. Sent'
    <3>1. ASSUME NEW i \in 1 .. n + 1 PROVE sent[i] \in StreamStored
      <4>1. CASE i = n + 1
        BY <1>3, <2>2, <4>1
      <4>2. CASE i \in 1 .. n
        BY <2>1, <2>2, <4>2 DEF ClientInv, Sent
      <4> QED
        BY <2>1, <4>1, <4>2
    <3>2. ASSUME NEW i \in 1 .. n + 1, i # 1 PROVE sent[i] = sent[i - 1] + 1
      <4>1. i - 1 \in 1 .. n
        BY <2>1, <3>2
      <4>2. CASE i = n + 1
        <5>1. i - 1 = n /\ n # 0
            BY <2>1, <4>1, <4>2
        <5>2. sent[i - 1] = StreamLast
            BY <2>2, <2>4, <2>7, <4>1, <5>1
        <5> QED
            BY <1>3, <2>2, <4>2, <5>2
      <4>3. CASE i # n + 1
        <5>1. i \in 1 .. n
            BY <2>1, <4>3
        <5> QED
            BY <2>1, <2>2, <3>2, <4>1, <5>1 DEF ClientInv, Sent
      <4> QED
        BY <4>2, <4>3
    <3>3. /\ header = sent[1]
          /\ sent[1] = 1 \/ sent[1] - 1 \in StreamStored
      <4>1. CASE received = <<>>
        <5>1. sent[1] = sblock
            BY <2>2, <2>4, <4>1
        <5>2. StreamLast = 0 \/ StreamLast \in StreamStored
            BY <1>2, <4>1 DEF InStep
        <5>3. sblock - 1 = StreamLast
            BY <1>3
        <5> QED
            BY <1>2, <1>3, <4>1, <5>1, <5>2, <5>3
      <4>2. CASE received # <<>>
        <5>1. 1 \in 1 .. n /\ sent[1] = received[1]
            BY <2>1, <2>2, <2>4, <4>2
        <5> QED
            BY <4>2, <5>1 DEF ClientInv, Sent
      <4> QED
        BY <4>1, <4>2
    <3> QED
        BY <1>1, <2>3, <2>5, <2>6, <3>1, <3>2, <3>3 DEF Sent
  <2>9. InStep'
    BY <1>3, <2>2, <2>3, <2>5 DEF InStep
  <2> QED
    BY <1>1, <1>3, <1>5, <2>2, <2>3, <2>5, <2>8, <2>9 DEF ClientInv
<1> QED
    BY <1>1, <1>4, <1>5

LEMMA ClientCloseKeeps ==
    ASSUME ClientInv, ClientCloses
    PROVE  ClientInv'
<1>1. /\ spc' = "idle" /\ source' = "fa" /\ header' = 0 /\ received' = <<>>
    BY DEF ClientCloses, close_reader
<1>2. /\ dec_last' \in [{"client"} -> Nat]
      /\ dec_cont' \in [{"client"} -> BOOLEAN]
  <2>1. CASE UNCHANGED dec_buffer
    BY <2>1 DEF ClientInv, dec_buffer
  <2>2. CASE Dec!Close("client")
    BY <2>2 DEF ClientInv, Dec!Close
  <2> QED
    BY <2>1, <2>2 DEF ClientCloses, OnFa
<1>3. received' \in Seq(Nat \ {0}) /\ DOMAIN received' = {}
    BY <1>1, EmptySeq
<1> QED
    BY <1>1, <1>2, <1>3 DEF ClientInv, Sent

LEMMA ClientNext == Streams /\ ClientInv /\ [Next]_vars => ClientInv'
<1> SUFFICES ASSUME Streams, ClientInv, [Next]_vars PROVE ClientInv'
    OBVIOUS
<1>1. CASE UNCHANGED vars
    BY <1>1, ClientUndisturbed DEF vars, fa_buffer, dec_buffer
<1>2. CASE ClientGetsNull
  <2>1. spc' = "closing" /\ UNCHANGED <<source, header, received>>
    BY <1>2 DEF ClientGetsNull, GetNull
  <2> QED
    BY <1>2, <2>1, BreakTypes, ClientEnds DEF ClientGetsNull
<1>3. CASE ClientReleases
  <2>1. CASE /\ Underrun
             /\ \/ OnFa /\ Fa!Break("client")
                \/ OnDecimated /\ Dec!Break("client")
    BY <2>1, BreakTypes, ClientEnds DEF Underrun
  <2> QED
    BY <1>3, <2>1, DeliverInStep DEF ClientReleases
<1> QED
    BY <1>1, <1>2, <1>3, ServersUndisturb, SubscribesInStep, ClientLocal,
       ClientCloseKeeps DEF Next

-----------------------------------------------------------------------------
\* The inductive invariant: where the block being filled follows a stored one,
\* its rows and the samples taken since continue that block.
THEOREM Invariance == Spec => []MarkInv
    BY MarkInit, MarkNext, PTL DEF Spec

\* Whatever the decimation factors, and however input blocks and gaps fall, a
\* row stands for as many samples as get_decimation_factor says.
THEOREM CountersAgree == Spec => []CountersMatchSamples
<1>1. MarkInv => CountersMatchSamples
    BY DEF MarkInv, CountInv
<1> QED
    BY <1>1, Invariance, PTL

LEMMA RowsOfStored ==
    ASSUME NEW f
    PROVE  /\ SeamlessTo(contents[f], output_sample_count) =>
                Seamless(RowsOf(f))
           /\ Head(RowsOf(f)) = contents[f][0].events
           /\ Last(RowsOf(f)) = LastRow(contents[f])
<1> DEFINE rows == RowsOf(f)
           n == output_sample_count
<1>1. n \in Nat /\ n > 0
    BY Constants
<1>2. /\ rows = [i \in 1 .. n |-> contents[f][i - 1].events]
      /\ DOMAIN rows = 1 .. n
    BY DEF RowsOf
<1>3. \A i \in 1 .. n : rows[i] = contents[f][i - 1].events
    BY <1>2
<1>4. /\ rows \in Seq({contents[f][i - 1].events : i \in 1 .. n})
      /\ Len(rows) = n
  <2> DEFINE blocks == {contents[f][i - 1].events : i \in 1 .. n}
  <2>1. rows \in [1 .. n -> blocks]
    BY <1>2
  <2>2. n \in Nat /\ DOMAIN rows = 1 .. n
    BY <1>1, <1>2
  <2> HIDE DEF rows, n, blocks
  <2>3. rows \in Seq(blocks)
    BY <2>1, <2>2, SeqDef
  <2>4. Len(rows) = n
    BY <2>2, <2>3, LenProperties
  <2> QED
    BY <2>3, <2>4 DEF blocks
<1> HIDE DEF rows
<1>5. Head(rows) = contents[f][0].events
  <2>1. Head(rows) = rows[1] /\ 1 \in 1 .. n /\ 1 - 1 = 0
    BY <1>1, <1>4, HeadTailProperties
  <2> QED
    BY <1>3, <2>1
<1>6. Last(rows) = LastRow(contents[f])
  <2>1. Last(rows) = rows[n] /\ n \in 1 .. n
    BY <1>1, <1>4 DEF Last
  <2> QED
    BY <1>3, <2>1 DEF LastRow
<1>7. ASSUME SeamlessTo(contents[f], n) PROVE Seamless(rows)
  <2>1. ASSUME NEW i \in 1 .. n PROVE Whole(rows[i])
    <3>1. i - 1 \in 0 .. n - 1
        BY <1>1
    <3> QED
        BY <1>3, <1>7, <3>1 DEF SeamlessTo
  <2>2. ASSUME NEW i \in 1 .. n, i # 1 PROVE Follows(rows[i], rows[i - 1])
    <3>1. i - 1 \in 1 .. n - 1 /\ i - 1 \in 1 .. n
        BY <1>1, <2>2
    <3> QED
        BY <1>3, <1>7, <3>1 DEF SeamlessTo
  <2> QED
    BY <1>2, <2>1, <2>2 DEF Seamless
<1> QED
    BY <1>5, <1>6, <1>7 DEF rows

\* Whichever stream a client subscribes to, and whenever, it is sent consecutive
\* blocks from the one its header was made from; decimated ones are seamless.
THEOREM ClientIsSentAll == Spec => []ClientStreamIsSeamless
<1>1. MarkInv /\ ClientInv => ClientStreamIsSeamless
  <2> SUFFICES ASSUME MarkInv, ClientInv PROVE ClientStreamIsSeamless
    OBVIOUS
  <2>1. received # <<>> => header = received[1]
    BY DEF ClientInv, Sent
  <2>2. \A i \in DOMAIN received \ {1} : received[i] = received[i - 1] + 1
    BY DEF ClientInv, Sent
  <2>3. ASSUME source = "decimated", ~spoiled, NEW i \in DOMAIN received
        PROVE  /\ Seamless(RowsOf(received[i]))
               /\ i # 1 => Follows(Head(RowsOf(received[i])),
                                   Last(RowsOf(received[i - 1])))
    <3>1. /\ \A j \in DOMAIN received : received[j] \in dec_stored
          /\ received[1] = 1 \/ received[1] - 1 \in dec_stored
      <4>1. received # <<>>
        BY <2>3, EmptySeq
      <4> QED
        BY <2>3, <4>1 DEF ClientInv, Sent, StreamStored
    <3>2. DOMAIN received = 1 .. Len(received) /\ Len(received) \in Nat
        BY LenProperties DEF ClientInv
    <3>3. Marked(received[i])
        BY <2>3, <3>1 DEF MarkInv
    <3>4. CASE i = 1
        BY <3>1, <3>3, <3>4, RowsOfStored DEF Marked
    <3>5. CASE i # 1
      <4>1. i - 1 \in DOMAIN received
        BY <3>2, <3>5
      <4>2. /\ received[i - 1] \in dec_stored
            /\ received[i] = received[i - 1] + 1
        BY <2>2, <3>1, <3>5, <4>1
      <4>3. received[i] - 1 = received[i - 1]
        <5>1. \A f \in dec_stored : f \in Nat
            BY DEF MarkInv, CountInv, Streams
        <5> QED
            BY <4>2, <5>1
      <4>4. /\ SeamlessTo(contents[received[i]], output_sample_count)
            /\ Follows(contents[received[i]][0].events,
                       LastRow(contents[received[i - 1]]))
        BY <3>3, <4>2, <4>3 DEF Marked
      <4> QED
        BY <4>4, RowsOfStored
    <3> QED
        BY <3>4, <3>5
  <2> QED
    BY <2>1, <2>2, <2>3 DEF ClientStreamIsSeamless
<1>2. MarkInv => Streams
    BY DEF MarkInv, CountInv
<1> QED
    BY <1>1, <1>2, Invariance, ClientInit, ClientNext, PTL DEF Spec

-----------------------------------------------------------------------------
(* Numbers and recursion. *)

\* Every set of numbers has a least one.
LEMMA LeastNumber ==
    ASSUME NEW S, S \subseteq Nat, S # {}
    PROVE  \E n \in S : \A m \in S : n <= m
<1> DEFINE less == OpToRel(<, Nat)
<1>1. IsWellFoundedOn(less, Nat)
    BY NatLessThanWellFounded
<1>2. \A x \in Nat, y \in Nat : y < x => <<y, x>> \in less
    BY DEF OpToRel
<1> HIDE DEF less
<1>3. PICK x \in S : \A y \in S : ~(<<y, x>> \in less)
    BY <1>1, WFMin
<1>4. ASSUME NEW y \in S PROVE x <= y
  <2>1. x \in Nat /\ y \in Nat
    OBVIOUS
  <2>2. ~(y < x)
    BY <1>2, <1>3, <2>1, Zenon
  <2> QED
    BY <2>1, <2>2
<1> QED
    BY <1>4

\* A set of numbers with 0, and with n + 1 if it has n, has them all.
LEMMA Induction ==
    ASSUME NEW S, 0 \in S, \A n \in Nat : n \in S => n + 1 \in S
    PROVE  \A n \in Nat : n \in S
<1> SUFFICES ASSUME NEW n \in Nat, n \notin S PROVE FALSE
    OBVIOUS
<1> DEFINE T == {m \in Nat : m \notin S}
<1>1. PICK m \in T : \A k \in T : m <= k
    BY LeastNumber
<1>2. m # 0 /\ m - 1 \in Nat /\ m = (m - 1) + 1 /\ m \notin S
    BY <1>1
<1>3. m - 1 \in S
    BY <1>1, <1>2
<1> QED
    BY <1>2, <1>3

\* The function with a start and a step.
Unfolds(f, S, b, G) ==
    f \in [Nat -> S] /\ f[0] = b /\ \A n \in Nat : f[n + 1] = G[n][f[n]]

\* A start and a step give a function on the numbers.
LEMMA Recursion ==
    ASSUME NEW S, NEW b \in S, NEW G \in [Nat -> [S -> S]]
    PROVE  \E f : Unfolds(f, S, b, G)
<1> DEFINE Part(n) == {f \in [0 .. n -> S] :
                f[0] = b /\ \A k \in 0 .. n - 1 : f[k + 1] = G[k][f[k]]}
           Has == {n \in Nat : Part(n) # {}}
<1>1. 0 \in Has
  <2>1. [k \in 0 .. 0 |-> b] \in Part(0)
    OBVIOUS
  <2> QED
    BY <2>1
<1>2. ASSUME NEW n \in Nat, n \in Has PROVE n + 1 \in Has
  <2>1. PICK f \in Part(n) : TRUE
    BY <1>2
  <2> DEFINE g == [k \in 0 .. n + 1 |-> IF k = n + 1 THEN G[n][f[n]] ELSE f[k]]
  <2>2. f \in [0 .. n -> S] /\ f[0] = b
        /\ \A k \in 0 .. n - 1 : f[k + 1] = G[k][f[k]]
    BY <2>1
  <2>3. G[n][f[n]] \in S
    BY <2>2
  <2>4. g \in [0 .. n + 1 -> S] /\ g[0] = b
    BY <2>2, <2>3
  <2>5. ASSUME NEW k \in 0 .. n PROVE g[k + 1] = G[k][g[k]]
    <3>1. CASE k = n
      <4>1. g[n + 1] = G[n][f[n]] /\ g[n] = f[n]
        OBVIOUS
      <4> HIDE DEF g
      <4> QED
        BY <3>1, <4>1
    <3>2. CASE k # n
      <4>1. k \in 0 .. n - 1 /\ k + 1 # n + 1 /\ k # n + 1
        BY <3>2
      <4> QED
        BY <4>1, <2>2
    <3> QED
      BY <3>1, <3>2
  <2>6. (n + 1) - 1 = n
    OBVIOUS
  <2> HIDE DEF g
  <2>7. g \in Part(n + 1)
    BY <2>4, <2>5, <2>6
  <2> QED
    BY <2>7
<1>3. \A n \in Nat : Part(n) # {}
  <2> HIDE DEF Part
  <2>1. \A n \in Nat : n \in Has
    BY <1>1, <1>2, Induction
  <2> QED
    BY <2>1
<1> DEFINE part(n) == CHOOSE f \in Part(n) : TRUE
<1>4. ASSUME NEW n \in Nat PROVE part(n) \in Part(n)
    BY <1>3
<1> HIDE DEF part
<1>5. \A n \in Nat : part(n)[n] \in S
    BY <1>4
<1>6. ASSUME NEW m \in Nat, NEW n \in Nat, m <= n
      PROVE  part(n)[m] = part(m)[m]
  <2> DEFINE Same == {k \in Nat : k <= m => part(n)[k] = part(m)[k]}
  <2>1. part(m) \in Part(m) /\ part(n) \in Part(n)
    BY <1>4
  <2>2. 0 \in Same
    BY <2>1
  <2>3. ASSUME NEW k \in Nat, k \in Same PROVE k + 1 \in Same
    <3> SUFFICES ASSUME k + 1 <= m PROVE part(n)[k + 1] = part(m)[k + 1]
      OBVIOUS
    <3>1. k \in 0 .. m - 1 /\ k \in 0 .. n - 1 /\ k <= m
      BY <1>6
    <3>2. part(n)[k + 1] = G[k][part(n)[k]]
          /\ part(m)[k + 1] = G[k][part(m)[k]]
      BY <2>1, <3>1
    <3> QED
      BY <2>3, <3>1, <3>2
  <2> HIDE DEF Same
  <2>4. \A k \in Nat : k \in Same
    BY <2>2, <2>3, Induction
  <2> QED
    BY <2>4 DEF Same
<1> DEFINE f == [n \in Nat |-> part(n)[n]]
<1>7. f \in [Nat -> S]
    BY <1>5
<1>8. f[0] = b
    BY <1>4
<1>9. ASSUME NEW n \in Nat PROVE f[n + 1] = G[n][f[n]]
  <2>1. part(n + 1) \in Part(n + 1) /\ n \in 0 .. (n + 1) - 1
    BY <1>4
  <2>2. part(n + 1)[n + 1] = G[n][part(n + 1)[n]]
    BY <2>1
  <2>3. part(n + 1)[n] = part(n)[n]
    BY <1>6
  <2> QED
    BY <2>2, <2>3
<1> HIDE DEF f
<1>10. Unfolds(f, S, b, G)
    BY <1>7, <1>8, <1>9 DEF Unfolds
<1> QED
    BY <1>10


\* The first so many of them in one.
Concatenates(F, seqs, T) ==
    /\ F \in [Nat -> Seq(T)]
    /\ F[0] = <<>>
    /\ \A i \in Nat : i < Len(seqs) => F[i + 1] = F[i] \o seqs[i + 1]
    /\ FlattenSeq(seqs) = F[Len(seqs)]

\* FlattenSeq is the last of them.
LEMMA FlattenSteps ==
    ASSUME NEW T, NEW seqs \in Seq(Seq(T))
    PROVE  \E F : Concatenates(F, seqs, T)
<1> DEFINE n == Len(seqs)
           G == [i \in Nat |-> [s \in Seq(T) |->
                    IF i < n THEN s \o seqs[i + 1] ELSE s]]
<1>1. n \in Nat /\ \A i \in 1 .. n : seqs[i] \in Seq(T)
    OBVIOUS
<1> HIDE DEF n
<1>2. G \in [Nat -> [Seq(T) -> Seq(T)]]
  <2>1. ASSUME NEW i \in Nat, i < n, NEW s \in Seq(T)
        PROVE  s \o seqs[i + 1] \in Seq(T)
    <3>1. i + 1 \in 1 .. n
      BY <1>1, <2>1
    <3> QED
      BY <1>1, <3>1, ConcatProperties
  <2> QED
    BY <2>1
<1>3. <<>> \in Seq(T)
    OBVIOUS
<1> HIDE DEF G
<1>4. \E f : Unfolds(f, Seq(T), <<>>, G)
    BY <1>2, <1>3, Recursion
<1>5. PICK F \in [Nat -> Seq(T)] :
        F[0] = <<>> /\ \A i \in Nat : F[i + 1] = G[i][F[i]]
    BY <1>4 DEF Unfolds
<1>6. ASSUME NEW i \in Nat, i < n PROVE F[i + 1] = F[i] \o seqs[i + 1]
  <2>1. F[i] \in Seq(T)
    BY <1>5
  <2> QED
    BY <1>5, <1>6, <2>1 DEF G
<1>7. FlattenSeq(seqs) = F[n]
  <2>1. CASE n = 0
    <3>1. seqs = <<>>
      BY <2>1 DEF n
    <3>2. FlattenSeq(seqs) = seqs
      BY <2>1 DEF FlattenSeq, n
    <3> QED
      BY <3>1, <3>2, <2>1, <1>5
  <2>2. CASE n # 0
    <3> DEFINE E(f) == [i \in 1 .. n |->
                IF i = 1 THEN seqs[i] ELSE f[i - 1] \o seqs[i]]
               g == [i \in 1 .. n |-> F[i]]
               flatten == CHOOSE f : f = E(f)
    <3>1. ASSUME NEW i \in 1 .. n PROVE g[i] = E(g)[i]
      <4>1. CASE i = 1
        <5>0. \A k \in Nat : k < n => F[k + 1] = F[k] \o seqs[k + 1]
          BY <1>6
        <5>1. 0 < n /\ F[0 + 1] = F[0] \o seqs[0 + 1]
          <6>1. 0 < n /\ 0 \in Nat
            BY <1>1, <2>2
          <6> QED
            BY <5>0, <6>1, Zenon
        <5>2. F[1] = <<>> \o seqs[1] /\ seqs[1] \in Seq(T)
          <6>1. 0 + 1 = 1 /\ 1 \in 1 .. n
            BY <5>1, <1>1
          <6> QED
            BY <5>1, <6>1, <1>1, <1>5
        <5>3. F[1] = seqs[1]
          BY <5>2, ConcatEmptySeq
        <5> QED
          BY <4>1, <5>3
      <4>2. CASE i # 1
        <5>1. i - 1 \in Nat /\ i - 1 < n /\ (i - 1) + 1 = i /\ i - 1 \in 1 .. n
          BY <1>1, <4>2
        <5>2. F[i] = F[i - 1] \o seqs[i]
          BY <5>1, <1>6
        <5> QED
          BY <4>2, <5>1, <5>2
      <4> QED
        BY <4>1, <4>2
    <3>2. g = E(g)
      <4> QED
        BY <3>1
    <3>3. flatten = E(flatten)
      <4> HIDE DEF E, g
      <4> QED
        BY <3>2
    <3>4. FlattenSeq(seqs) = flatten[n]
      BY <2>2 DEF FlattenSeq, n
    <3> HIDE DEF flatten
    <3> DEFINE Same == {i \in Nat : i + 1 <= n => flatten[i + 1] = F[i + 1]}
    <3>5. 1 \in 1 .. n
      BY <1>1, <2>2
    <3>6. g[1] = E(g)[1] /\ g[1] = F[1]
      BY <3>1, <3>5
    <3>7. 0 \in Same
      BY <3>3, <3>5, <3>6
    <3>8. ASSUME NEW i \in Nat, i \in Same PROVE i + 1 \in Same
      <4> SUFFICES ASSUME (i + 1) + 1 <= n
                   PROVE  flatten[(i + 1) + 1] = F[(i + 1) + 1]
        OBVIOUS
      <4>1. (i + 1) + 1 \in 1 .. n /\ (i + 1) + 1 # 1 /\ ((i + 1) + 1) - 1 = i + 1
            /\ i + 1 < n /\ i + 1 <= n /\ i + 1 \in Nat
        BY <1>1
      <4>2. flatten[(i + 1) + 1] = flatten[i + 1] \o seqs[(i + 1) + 1]
        BY <3>3, <4>1
      <4>3. flatten[i + 1] = F[i + 1]
        BY <3>8, <4>1
      <4>4. F[(i + 1) + 1] = F[i + 1] \o seqs[(i + 1) + 1]
        BY <4>1, <1>6
      <4> QED
        BY <4>2, <4>3, <4>4
    <3> HIDE DEF Same
    <3>9. \A i \in Nat : i \in Same
      BY <3>7, <3>8, Induction
    <3>10. n - 1 \in Nat /\ (n - 1) + 1 = n
      BY <1>1, <2>2
    <3>11. flatten[n] = F[n]
      <4>1. n - 1 \in Same /\ (n - 1) + 1 <= n
        BY <1>1, <3>9, <3>10
      <4> QED
        BY <3>10, <4>1 DEF Same
    <3> QED
      BY <3>4, <3>11
  <2> QED
    BY <2>1, <2>2
<1> QED
    BY <1>5, <1>6, <1>7 DEF Concatenates, n

-----------------------------------------------------------------------------
(* Sums. *)

\* s has the sums of the first elements of f.
Running(s, f, n) ==
    /\ s \in [0 .. n -> Int] /\ s[0] = 0
    /\ \A i \in 0 .. n - 1 : s[i + 1] = s[i] + f[i + 1]

\* SumOver is the last of the running sums.
LEMMA SumRuns ==
    ASSUME NEW n \in Nat, NEW f, \A i \in 1 .. n : f[i] \in Int
    PROVE  \E s : Running(s, f, n) /\ SumOver(f, n) = s[n]
<1> DEFINE Has == {k \in Nat : k <= n => \E s : Running(s, f, k)}
<1>1. 0 \in Has
  <2>1. Running([i \in 0 .. 0 |-> 0], f, 0)
    BY DEF Running
  <2> QED
    BY <2>1
<1>2. ASSUME NEW k \in Nat, k \in Has PROVE k + 1 \in Has
  <2> SUFFICES ASSUME k + 1 <= n PROVE \E s : Running(s, f, k + 1)
    OBVIOUS
  <2>1. PICK s : Running(s, f, k)
    BY <1>2
  <2> DEFINE t == [i \in 0 .. k + 1 |-> IF i = k + 1 THEN s[k] + f[k + 1] ELSE s[i]]
  <2>2. /\ s \in [0 .. k -> Int] /\ s[0] = 0
        /\ \A i \in 0 .. k - 1 : s[i + 1] = s[i] + f[i + 1]
        /\ f[k + 1] \in Int
    BY <2>1 DEF Running
  <2>3. t \in [0 .. k + 1 -> Int] /\ t[0] = 0
    BY <2>2
  <2>4. ASSUME NEW i \in 0 .. k PROVE t[i + 1] = t[i] + f[i + 1]
    <3>1. CASE i = k
      <4>1. t[k + 1] = s[k] + f[k + 1] /\ t[k] = s[k]
        OBVIOUS
      <4> HIDE DEF t
      <4> QED
        BY <3>1, <4>1
    <3>2. CASE i # k
      <4>1. i \in 0 .. k - 1 /\ i + 1 # k + 1 /\ i # k + 1
        BY <3>2
      <4> QED
        BY <4>1, <2>2
    <3> QED
      BY <3>1, <3>2
  <2>5. (k + 1) - 1 = k
    OBVIOUS
  <2> HIDE DEF t
  <2>6. Running(t, f, k + 1)
    BY <2>3, <2>4, <2>5 DEF Running
  <2> QED
    BY <2>6
<1>3. PICK s : Running(s, f, n)
  <2> HIDE DEF Has
  <2>1. \A i \in Nat : i \in Has
    BY <1>1, <1>2, Induction
  <2> QED
    <3>1. n \in Has /\ n <= n
      BY <2>1
    <3> QED
      BY <3>1 DEF Has
<1> DEFINE E(g) == [i \in 0 .. n |-> IF i = 0 THEN 0 ELSE g[i - 1] + f[i]]
           sum == CHOOSE g : g = E(g)
<1>4. /\ s \in [0 .. n -> Int] /\ s[0] = 0
      /\ \A i \in 0 .. n - 1 : s[i + 1] = s[i] + f[i + 1]
    BY <1>3 DEF Running
<1>5. s = E(s)
  <2>1. ASSUME NEW i \in 0 .. n PROVE s[i] = E(s)[i]
    <3>1. CASE i = 0
      BY <1>4, <3>1
    <3>2. CASE i # 0
      <4>1. i - 1 \in 0 .. n - 1 /\ (i - 1) + 1 = i
        BY <3>2
      <4> QED
        BY <1>4, <3>2, <4>1
    <3> QED
      BY <3>1, <3>2
  <2> QED
    BY <1>4, <2>1
<1>6. sum = E(sum)
  <2> HIDE DEF E
  <2> QED
    BY <1>5
<1>7. SumOver(f, n) = sum[n]
    BY DEF SumOver
<1> HIDE DEF sum
<1> DEFINE Same == {i \in Nat : i <= n => sum[i] = s[i]}
<1>8. 0 \in Same
    BY <1>4, <1>6
<1>9. ASSUME NEW i \in Nat, i \in Same PROVE i + 1 \in Same
  <2> SUFFICES ASSUME i + 1 <= n PROVE sum[i + 1] = s[i + 1]
    OBVIOUS
  <2>1. i + 1 \in 0 .. n /\ i + 1 # 0 /\ (i + 1) - 1 = i /\ i \in 0 .. n - 1
    OBVIOUS
  <2>2. sum[i + 1] = sum[i] + f[i + 1]
    BY <1>6, <2>1
  <2>3. sum[i] = s[i]
    BY <1>9, <2>1
  <2> QED
    BY <1>4, <2>1, <2>2, <2>3
<1>10. sum[n] = s[n]
  <2> HIDE DEF Same
  <2>1. \A i \in Nat : i \in Same
    BY <1>8, <1>9, Induction
  <2> QED
    <3>1. n \in Same /\ n <= n
      BY <2>1
    <3> QED
      BY <3>1 DEF Same
<1> QED
    BY <1>3, <1>7, <1>10

\* The sum of no elements, and of one more.
LEMMA SumSteps ==
    ASSUME NEW f, NEW n \in Nat, \A i \in 1 .. n + 1 : f[i] \in Int
    PROVE  /\ SumOver(f, 0) = 0
           /\ SumOver(f, n) \in Int
           /\ SumOver(f, n + 1) = SumOver(f, n) + f[n + 1]
<1>1. SumOver(f, 0) = 0
  <2>1. \A i \in 1 .. 0 : f[i] \in Int
    OBVIOUS
  <2>2. PICK s : Running(s, f, 0) /\ SumOver(f, 0) = s[0]
    BY <2>1, SumRuns
  <2> QED
    BY <2>2 DEF Running
<1>2. PICK s : Running(s, f, n) /\ SumOver(f, n) = s[n]
  <2>1. \A i \in 1 .. n : f[i] \in Int
    OBVIOUS
  <2> QED
    BY <2>1, SumRuns
<1>3. PICK t : Running(t, f, n + 1) /\ SumOver(f, n + 1) = t[n + 1]
  <2>1. n + 1 \in Nat
    OBVIOUS
  <2> QED
    BY <2>1, SumRuns
<1>4. /\ s \in [0 .. n -> Int] /\ s[0] = 0
      /\ \A i \in 0 .. n - 1 : s[i + 1] = s[i] + f[i + 1]
    BY <1>2 DEF Running
<1>5. /\ t \in [0 .. n + 1 -> Int] /\ t[0] = 0
      /\ \A i \in 0 .. n : t[i + 1] = t[i] + f[i + 1]
  <2>1. (n + 1) - 1 = n
    OBVIOUS
  <2> QED
    BY <1>3, <2>1 DEF Running
<1> DEFINE Same == {i \in Nat : i <= n => t[i] = s[i]}
<1>6. 0 \in Same
    BY <1>4, <1>5
<1>7. ASSUME NEW i \in Nat, i \in Same PROVE i + 1 \in Same
  <2> SUFFICES ASSUME i + 1 <= n PROVE t[i + 1] = s[i + 1]
    OBVIOUS
  <2>1. i \in 0 .. n - 1 /\ i \in 0 .. n /\ t[i] = s[i]
    BY <1>7
  <2> QED
    BY <1>4, <1>5, <2>1
<1> HIDE DEF Same
<1>8. \A i \in Nat : i \in Same
    BY <1>6, <1>7, Induction
<1>9. t[n] = s[n]
    BY <1>8 DEF Same
<1>10. n \in 0 .. n /\ s[n] \in Int
    BY <1>4
<1> QED
    BY <1>1, <1>2, <1>3, <1>5, <1>9, <1>10

\* Two sums of the same elements.
LEMMA SumEqual ==
    ASSUME NEW n \in Nat, NEW f, NEW g,
           \A i \in 1 .. n : f[i] \in Int /\ g[i] = f[i]
    PROVE  SumOver(f, n) \in Int /\ SumOver(g, n) = SumOver(f, n)
<1> DEFINE Same == {k \in Nat : k <= n =>
                SumOver(f, k) \in Int /\ SumOver(g, k) = SumOver(f, k)}
<1>1. 0 \in Same
  <2>1. \A h : SumOver(h, 0) = 0
    <3> TAKE h
    <3>1. \A i \in 1 .. 0 : h[i] \in Int
      OBVIOUS
    <3> QED
      BY <3>1, SumRuns DEF Running
  <2> QED
    BY <2>1
<1>2. ASSUME NEW k \in Nat, k \in Same PROVE k + 1 \in Same
  <2> SUFFICES ASSUME k + 1 <= n
               PROVE  SumOver(f, k + 1) \in Int
                        /\ SumOver(g, k + 1) = SumOver(f, k + 1)
    OBVIOUS
  <2>1. \A i \in 1 .. k + 1 : f[i] \in Int /\ g[i] \in Int
    OBVIOUS
  <2>2. SumOver(f, k + 1) = SumOver(f, k) + f[k + 1]
        /\ SumOver(g, k + 1) = SumOver(g, k) + g[k + 1]
    BY <2>1, SumSteps
  <2>3. SumOver(f, k) \in Int /\ SumOver(g, k) = SumOver(f, k)
        /\ f[k + 1] \in Int /\ g[k + 1] = f[k + 1]
    BY <1>2
  <2> QED
    BY <2>2, <2>3
<1> HIDE DEF Same
<1>3. \A k \in Nat : k \in Same
    BY <1>1, <1>2, Induction
<1> QED
    BY <1>3 DEF Same

\* Nothing to sum.
LEMMA SumNone == \A f : SumOver(f, 0) = 0
<1> TAKE f
<1>1. \A i \in 1 .. 0 : f[i] \in Int
    OBVIOUS
<1> QED
    BY <1>1, SumRuns DEF Running

\* The sum of numbers is a number.
LEMMA SumType ==
    ASSUME NEW n \in Nat, NEW f, \A i \in 1 .. n : f[i] \in Int
    PROVE  SumOver(f, n) \in Int
    BY SumEqual

\* Sums add up, ...
LEMMA SumPlus ==
    ASSUME NEW n \in Nat, NEW f, NEW g, NEW h,
           \A i \in 1 .. n : f[i] \in Int /\ g[i] \in Int /\ h[i] = f[i] + g[i]
    PROVE  SumOver(h, n) = SumOver(f, n) + SumOver(g, n)
<1> DEFINE Good == {k \in Nat : k <= n => SumOver(h, k) = SumOver(f, k) + SumOver(g, k)}
<1>1. 0 \in Good
    BY SumNone
<1>2. ASSUME NEW k \in Nat, k \in Good PROVE k + 1 \in Good
  <2> SUFFICES ASSUME k + 1 <= n
               PROVE  SumOver(h, k + 1) = SumOver(f, k + 1) + SumOver(g, k + 1)
    OBVIOUS
  <2>1. \A i \in 1 .. k + 1 : f[i] \in Int /\ g[i] \in Int /\ h[i] \in Int
    OBVIOUS
  <2>2. /\ SumOver(f, k + 1) = SumOver(f, k) + f[k + 1]
        /\ SumOver(g, k + 1) = SumOver(g, k) + g[k + 1]
        /\ SumOver(h, k + 1) = SumOver(h, k) + h[k + 1]
        /\ SumOver(f, k) \in Int /\ SumOver(g, k) \in Int
    BY <2>1, SumSteps
  <2>3. h[k + 1] = f[k + 1] + g[k + 1] /\ f[k + 1] \in Int /\ g[k + 1] \in Int
    OBVIOUS
  <2>4. SumOver(h, k) = SumOver(f, k) + SumOver(g, k)
    BY <1>2
  <2> QED
    BY <2>2, <2>3, <2>4
<1> HIDE DEF Good
<1>3. \A k \in Nat : k \in Good
    BY <1>1, <1>2, Induction
<1> QED
    BY <1>3 DEF Good

\* ... differ by that of the differences, ...
LEMMA SumMinus ==
    ASSUME NEW n \in Nat, NEW f, NEW g, NEW h,
           \A i \in 1 .. n : f[i] \in Int /\ g[i] \in Int /\ h[i] = f[i] - g[i]
    PROVE  SumOver(h, n) = SumOver(f, n) - SumOver(g, n)
<1> DEFINE Good == {k \in Nat : k <= n => SumOver(h, k) = SumOver(f, k) - SumOver(g, k)}
<1>1. 0 \in Good
    BY SumNone
<1>2. ASSUME NEW k \in Nat, k \in Good PROVE k + 1 \in Good
  <2> SUFFICES ASSUME k + 1 <= n
               PROVE  SumOver(h, k + 1) = SumOver(f, k + 1) - SumOver(g, k + 1)
    OBVIOUS
  <2>1. \A i \in 1 .. k + 1 : f[i] \in Int /\ g[i] \in Int /\ h[i] \in Int
    OBVIOUS
  <2>2. /\ SumOver(f, k + 1) = SumOver(f, k) + f[k + 1]
        /\ SumOver(g, k + 1) = SumOver(g, k) + g[k + 1]
        /\ SumOver(h, k + 1) = SumOver(h, k) + h[k + 1]
        /\ SumOver(f, k) \in Int /\ SumOver(g, k) \in Int
    BY <2>1, SumSteps
  <2>3. h[k + 1] = f[k + 1] - g[k + 1] /\ f[k + 1] \in Int /\ g[k + 1] \in Int
    OBVIOUS
  <2>4. SumOver(h, k) = SumOver(f, k) - SumOver(g, k)
    BY <1>2
  <2> QED
    BY <2>2, <2>3, <2>4
<1> HIDE DEF Good
<1>3. \A k \in Nat : k \in Good
    BY <1>1, <1>2, Induction
<1> QED
    BY <1>3 DEF Good

\* ... and have a factor that all elements have.
LEMMA SumScaled ==
    ASSUME NEW n \in Nat, NEW f, NEW c \in Int, NEW h,
           \A i \in 1 .. n : f[i] \in Int /\ h[i] = c * f[i]
    PROVE  SumOver(h, n) = c * SumOver(f, n)
<1> DEFINE Good == {k \in Nat : k <= n => SumOver(h, k) = c * SumOver(f, k)}
<1>1. 0 \in Good
    BY SumNone
<1>2. ASSUME NEW k \in Nat, k \in Good PROVE k + 1 \in Good
  <2> SUFFICES ASSUME k + 1 <= n
               PROVE  SumOver(h, k + 1) = c * SumOver(f, k + 1)
    OBVIOUS
  <2>1. \A i \in 1 .. k + 1 : f[i] \in Int /\ h[i] \in Int
    <3>1. \A x \in Int : c * x \in Int
      OBVIOUS
    <3>2. \A i \in 1 .. k + 1 : f[i] \in Int /\ h[i] = c * f[i]
      OBVIOUS
    <3> QED
      BY <3>1, <3>2
  <2>2. /\ SumOver(f, k + 1) = SumOver(f, k) + f[k + 1]
        /\ SumOver(h, k + 1) = SumOver(h, k) + h[k + 1]
        /\ SumOver(f, k) \in Int
    BY <2>1, SumSteps
  <2>3. h[k + 1] = c * f[k + 1] /\ f[k + 1] \in Int
    OBVIOUS
  <2>4. SumOver(h, k) = c * SumOver(f, k)
    BY <1>2
  <2>5. \A x \in Int, y \in Int : c * (x + y) = c * x + c * y
    OBVIOUS
  <2>6. c * SumOver(f, k + 1) = c * SumOver(f, k) + c * f[k + 1]
    BY <2>2, <2>3, <2>5
  <2> QED
    BY <2>2, <2>3, <2>4, <2>6
<1> HIDE DEF Good
<1>3. \A k \in Nat : k \in Good
    BY <1>1, <1>2, Induction
<1> QED
    BY <1>3 DEF Good

\* The first elements and those after them.
LEMMA SumSplits ==
    ASSUME NEW m \in Nat, NEW n \in Nat, NEW f, NEW g,
           \A i \in 1 .. m + n : f[i] \in Int,
           \A i \in 1 .. n : g[i] = f[m + i]
    PROVE  SumOver(f, m + n) = SumOver(f, m) + SumOver(g, n)
<1> DEFINE Good == {k \in Nat : k <= n =>
                SumOver(f, m + k) = SumOver(f, m) + SumOver(g, k)}
<1>1. 0 \in Good
  <2>1. SumOver(f, m) \in Int
    BY SumType
  <2>2. m + 0 = m
    OBVIOUS
  <2> QED
    BY <2>1, <2>2, SumNone
<1>2. ASSUME NEW k \in Nat, k \in Good PROVE k + 1 \in Good
  <2> SUFFICES ASSUME k + 1 <= n
               PROVE  SumOver(f, m + (k + 1)) = SumOver(f, m) + SumOver(g, k + 1)
    OBVIOUS
  <2>1. m + k \in Nat /\ m + (k + 1) = (m + k) + 1
    OBVIOUS
  <2>2. \A i \in 1 .. (m + k) + 1 : f[i] \in Int
    OBVIOUS
  <2>3. ASSUME NEW i \in 1 .. k + 1 PROVE g[i] \in Int
    <3>1. i \in 1 .. n /\ m + i \in 1 .. m + n
      OBVIOUS
    <3> QED
      BY <3>1
  <2>4. SumOver(f, (m + k) + 1) = SumOver(f, m + k) + f[(m + k) + 1]
    BY <2>1, <2>2, SumSteps
  <2>5. SumOver(g, k + 1) = SumOver(g, k) + g[k + 1] /\ SumOver(g, k) \in Int
    BY <2>3, SumSteps
  <2>6. g[k + 1] = f[(m + k) + 1] /\ g[k + 1] \in Int
    <3>1. k + 1 \in 1 .. n /\ k + 1 \in 1 .. k + 1 /\ m + (k + 1) = (m + k) + 1
      OBVIOUS
    <3> QED
      BY <3>1, <2>3
  <2>7. SumOver(f, m + k) = SumOver(f, m) + SumOver(g, k)
    BY <1>2
  <2>8. SumOver(f, m) \in Int
    BY SumType
  <2> QED
    BY <2>1, <2>4, <2>5, <2>6, <2>7, <2>8
<1> HIDE DEF Good
<1>3. \A k \in Nat : k \in Good
    BY <1>1, <1>2, Induction
<1> QED
    BY <1>3 DEF Good

\* Zeros.
LEMMA SumZeros ==
    ASSUME NEW n \in Nat, NEW f, \A i \in 1 .. n : f[i] = 0
    PROVE  SumOver(f, n) = 0
<1> DEFINE Good == {k \in Nat : k <= n => SumOver(f, k) = 0}
<1>1. 0 \in Good
    BY SumNone
<1>2. ASSUME NEW k \in Nat, k \in Good PROVE k + 1 \in Good
  <2> SUFFICES ASSUME k + 1 <= n PROVE SumOver(f, k + 1) = 0
    OBVIOUS
  <2>1. \A i \in 1 .. k + 1 : f[i] \in Int
    OBVIOUS
  <2>2. SumOver(f, k + 1) = SumOver(f, k) + f[k + 1]
    BY <2>1, SumSteps
  <2> QED
    BY <1>2, <2>2
<1> HIDE DEF Good
<1>3. \A k \in Nat : k \in Good
    BY <1>1, <1>2, Induction
<1> QED
    BY <1>3 DEF Good

\* r sums the rows and c the columns of F.
SumsOf(F, G, r, c, m, n) ==
    /\ \A i \in 1 .. m, j \in 1 .. n : F[i][j] \in Int /\ G[j][i] = F[i][j]
    /\ \A i \in 1 .. m : r[i] = SumOver(F[i], n)
    /\ \A j \in 1 .. n : c[j] = SumOver(G[j], m)

\* The other way round: rows first or columns first.
LEMMA SumsExchange ==
    ASSUME NEW m \in Nat, NEW n \in Nat, NEW F, NEW G, NEW r, NEW c,
           SumsOf(F, G, r, c, m, n)
    PROVE  SumOver(r, m) = SumOver(c, n)
<1> USE DEF SumsOf
<1> DEFINE col(k) == [j \in 1 .. n |-> SumOver([i \in 1 .. m |-> F[i][j]], k)]
           Good == {k \in Nat : k <= m => SumOver(r, k) = SumOver(col(k), n)}
<1>1. ASSUME NEW k \in Nat, k <= m, NEW j \in 1 .. n
      PROVE  col(k)[j] \in Int
  <2> DEFINE f == [i \in 1 .. m |-> F[i][j]]
  <2>1. \A i \in 1 .. k : f[i] \in Int
    BY <1>1
  <2> HIDE DEF f
  <2>2. SumOver(f, k) \in Int
    BY <2>1, SumType
  <2> QED
    BY <2>2 DEF f
<1>2. 0 \in Good
  <2>1. \A j \in 1 .. n : col(0)[j] = 0
    BY SumNone
  <2> HIDE DEF col
  <2>2. SumOver(col(0), n) = 0
    BY <2>1, SumZeros
  <2> QED
    BY <2>2, SumNone
<1>3. ASSUME NEW k \in Nat, k \in Good PROVE k + 1 \in Good
  <2> SUFFICES ASSUME k + 1 <= m
               PROVE  SumOver(r, k + 1) = SumOver(col(k + 1), n)
    OBVIOUS
  <2>1. \A i \in 1 .. k + 1 : r[i] \in Int
    <3> TAKE i \in 1 .. k + 1
    <3>1. i \in 1 .. m
      OBVIOUS
    <3>2. \A j \in 1 .. n : F[i][j] \in Int
      BY <3>1
    <3>3. SumOver(F[i], n) \in Int
      BY <3>2, SumType
    <3> QED
      BY <3>1, <3>3
  <2>2. SumOver(r, k + 1) = SumOver(r, k) + r[k + 1]
    BY <2>1, SumSteps
  <2>3. ASSUME NEW j \in 1 .. n
        PROVE  /\ col(k)[j] \in Int /\ F[k + 1][j] \in Int
               /\ col(k + 1)[j] = col(k)[j] + F[k + 1][j]
    <3> DEFINE f == [i \in 1 .. m |-> F[i][j]]
    <3>1. k + 1 \in 1 .. m /\ F[k + 1][j] \in Int
      OBVIOUS
    <3>2. \A i \in 1 .. k + 1 : f[i] \in Int
      OBVIOUS
    <3>3. f[k + 1] = F[k + 1][j]
      BY <3>1
    <3>4. col(k + 1)[j] = SumOver(f, k + 1) /\ col(k)[j] = SumOver(f, k)
      OBVIOUS
    <3> HIDE DEF f, col
    <3>5. SumOver(f, k + 1) = SumOver(f, k) + f[k + 1] /\ SumOver(f, k) \in Int
      BY <3>2, SumSteps
    <3> QED
      BY <3>1, <3>3, <3>4, <3>5
  <2> DEFINE a == col(k)
             b == col(k + 1)
             e == F[k + 1]
  <2>4. \A j \in 1 .. n : a[j] \in Int /\ e[j] \in Int /\ b[j] = a[j] + e[j]
    BY <2>3
  <2>5. SumOver(r, k) = SumOver(a, n)
    BY <1>3
  <2>6. k + 1 \in 1 .. m /\ r[k + 1] = SumOver(e, n)
    OBVIOUS
  <2> HIDE DEF a, b, e
  <2>7. SumOver(b, n) = SumOver(a, n) + SumOver(e, n)
    BY <2>4, SumPlus
  <2> QED
    BY <2>2, <2>5, <2>6, <2>7 DEF b
<1> HIDE DEF Good, col
<1>4. \A k \in Nat : k \in Good
    BY <1>2, <1>3, Induction
<1>5. SumOver(r, m) = SumOver(col(m), n)
    BY <1>4 DEF Good
<1>6. \A j \in 1 .. n : col(m)[j] = c[j]
  <2> TAKE j \in 1 .. n
  <2> DEFINE f == [i \in 1 .. m |-> F[i][j]]
  <2>1. \A i \in 1 .. m : f[i] \in Int /\ G[j][i] = f[i]
    OBVIOUS
  <2>2. col(m)[j] = SumOver(f, m)
    BY DEF col
  <2> HIDE DEF f
  <2>3. SumOver(G[j], m) = SumOver(f, m)
    BY <2>1, SumEqual
  <2> QED
    BY <2>2, <2>3
<1>7. \A j \in 1 .. n : col(m)[j] \in Int
    BY <1>1
<1>8. SumOver(c, n) = SumOver(col(m), n)
    BY <1>6, <1>7, SumEqual
<1> QED
    BY <1>5, <1>8

\* f has the n elements of g after m zeros, and then l zeros.
Window(f, g, m, n, l) ==
    /\ \A i \in 1 .. m : f[i] = 0
    /\ \A i \in 1 .. n : f[m + i] \in Int /\ g[i] = f[m + i]
    /\ \A i \in 1 .. l : f[m + n + i] = 0

\* Only those of g count.
LEMMA SumOfWindow ==
    ASSUME NEW m \in Nat, NEW n \in Nat, NEW l \in Nat, NEW f, NEW g,
           NEW t, t = m + n + l, Window(f, g, m, n, l)
    PROVE  SumOver(f, t) = SumOver(g, n)
<1> USE DEF Window
<1> DEFINE rest == [i \in 1 .. l |-> 0]
<1>1. ASSUME NEW i \in 1 .. m + n PROVE f[i] \in Int
  <2>1. CASE i <= m
    BY <2>1
  <2>2. CASE ~(i <= m)
    <3>1. i - m \in 1 .. n /\ m + (i - m) = i
      BY <2>2
    <3> QED
      BY <3>1
  <2> QED
    BY <2>1, <2>2
<1>2. ASSUME NEW i \in 1 .. (m + n) + l PROVE f[i] \in Int
  <2>1. CASE i <= m + n
    BY <1>1, <2>1
  <2>2. CASE ~(i <= m + n)
    <3>1. i - (m + n) \in 1 .. l /\ m + n + (i - (m + n)) = i
      BY <2>2
    <3>2. f[i] = 0
      BY <3>1
    <3> QED
      BY <3>2
  <2> QED
    BY <2>1, <2>2
<1>3. \A i \in 1 .. l : rest[i] = f[(m + n) + i]
    OBVIOUS
<1>4. SumOver(rest, l) = 0
  <2>1. \A i \in 1 .. l : rest[i] = 0
    OBVIOUS
  <2> HIDE DEF rest
  <2> QED
    BY <2>1, SumZeros
<1> HIDE DEF rest
<1>5. SumOver(f, (m + n) + l) = SumOver(f, m + n) + SumOver(rest, l)
  <2>1. m + n \in Nat
    OBVIOUS
  <2> QED
    BY <1>2, <1>3, <2>1, SumSplits
<1>6. SumOver(f, m + n) = SumOver(f, m) + SumOver(g, n)
  <2>1. \A i \in 1 .. n : g[i] = f[m + i]
    OBVIOUS
  <2> QED
    BY <1>1, <2>1, SumSplits
<1>7. SumOver(f, m) = 0
    BY SumZeros
<1>8. SumOver(g, n) \in Int
  <2>1. \A i \in 1 .. n : g[i] \in Int
    OBVIOUS
  <2> QED
    BY <2>1, SumType
<1>9. t = (m + n) + l
    OBVIOUS
<1> QED
    BY <1>4, <1>5, <1>6, <1>7, <1>8, <1>9

\* From the last to the first.
LEMMA SumReversed ==
    ASSUME NEW n \in Nat, NEW f, NEW g,
           \A i \in 1 .. n : f[i] \in Int /\ g[i] = f[n + 1 - i]
    PROVE  SumOver(g, n) = SumOver(f, n)
<1> DEFINE back(k) == [i \in 1 .. k |-> f[k + 1 - i]]
           Good == {k \in Nat : k <= n => SumOver(back(k), k) = SumOver(f, k)}
<1>1. 0 \in Good
    BY SumNone
<1>2. ASSUME NEW k \in Nat, k \in Good PROVE k + 1 \in Good
  <2> SUFFICES ASSUME k + 1 <= n
               PROVE  SumOver(back(k + 1), k + 1) = SumOver(f, k + 1)
    OBVIOUS
  <2> DEFINE b == back(k + 1)
             a == back(k)
  <2>1. \A i \in 1 .. k + 1 : f[i] \in Int
    OBVIOUS
  <2>2. \A i \in 1 .. 1 + k : b[i] \in Int
    <3> TAKE i \in 1 .. 1 + k
    <3>1. (k + 1) + 1 - i \in 1 .. k + 1 /\ i \in 1 .. k + 1
      OBVIOUS
    <3> QED
      BY <2>1, <3>1
  <2>3. \A i \in 1 .. k : a[i] = b[1 + i]
    <3> TAKE i \in 1 .. k
    <3>1. 1 + i \in 1 .. k + 1 /\ (k + 1) + 1 - (1 + i) = k + 1 - i
      OBVIOUS
    <3> QED
      BY <3>1
  <2>4. b[1] = f[k + 1]
    <3>1. 1 \in 1 .. k + 1 /\ (k + 1) + 1 - 1 = k + 1
      OBVIOUS
    <3> QED
      BY <3>1
  <2>5. SumOver(a, k) = SumOver(f, k)
    BY <1>2
  <2> HIDE DEF a, b
  <2>6. SumOver(b, 1 + k) = SumOver(b, 1) + SumOver(a, k)
    <3>1. 1 \in Nat
      OBVIOUS
    <3> QED
      BY <2>2, <2>3, <3>1, SumSplits
  <2>7. SumOver(b, 1) = b[1] /\ b[1] \in Int
    <3>1. \A i \in 1 .. 0 + 1 : b[i] \in Int
      BY <2>2
    <3>2. SumOver(b, 0 + 1) = SumOver(b, 0) + b[0 + 1]
      BY <3>1, SumSteps
    <3>3. 0 + 1 = 1 /\ SumOver(b, 0) = 0 /\ b[1] \in Int
      BY <2>2, SumNone
    <3> QED
      BY <3>2, <3>3
  <2>8. SumOver(f, k + 1) = SumOver(f, k) + f[k + 1] /\ SumOver(f, k) \in Int
    BY <2>1, SumSteps
  <2>9. 1 + k = k + 1
    OBVIOUS
  <2> QED
    BY <2>4, <2>5, <2>6, <2>7, <2>8, <2>9 DEF b
<1> HIDE DEF Good, back
<1>3. \A k \in Nat : k \in Good
    BY <1>1, <1>2, Induction
<1>4. SumOver(back(n), n) = SumOver(f, n)
    BY <1>3 DEF Good
<1>5. \A i \in 1 .. n : back(n)[i] \in Int /\ g[i] = back(n)[i]
  <2> TAKE i \in 1 .. n
  <2>1. n + 1 - i \in 1 .. n
    OBVIOUS
  <2> QED
    BY <2>1 DEF back
<1>6. SumOver(g, n) = SumOver(back(n), n)
    BY <1>5, SumEqual
<1> QED
    BY <1>4, <1>6

-----------------------------------------------------------------------------
(* Convolutions. *)

\* A signal has a value at every time; those of a filter are 0 before time 1.
Signals == [Int -> Int]
Causal == {f \in Signals : \A n \in Int : n <= 0 => f[n] = 0}

Responses == {p \in Seq(Int) : Len(p) > 0}

\* What the filter with response p makes of f at time n.
Conv(p, f, n) == SumOver([k \in 1 .. Len(p) |-> p[k] * f[n + 1 - k]], Len(p))

\* The summands of a convolution.
LEMMA ConvTerms ==
    ASSUME NEW p \in Responses, NEW f \in Signals, NEW n \in Int
    PROVE  /\ Len(p) \in Nat
           /\ \A k \in 1 .. Len(p) :
                p[k] \in Int /\ f[n + 1 - k] \in Int /\ p[k] * f[n + 1 - k] \in Int
           /\ Conv(p, f, n) \in Int
<1>1. p \in Seq(Int) /\ Len(p) \in Nat
    BY DEF Responses
<1>2. ASSUME NEW k \in 1 .. Len(p)
      PROVE  p[k] \in Int /\ f[n + 1 - k] \in Int /\ p[k] * f[n + 1 - k] \in Int
  <2>1. p[k] \in Int /\ n + 1 - k \in Int
    BY <1>1
  <2>2. f[n + 1 - k] \in Int
    BY <2>1 DEF Signals
  <2> QED
    BY <2>1, <2>2
<1> DEFINE h == [k \in 1 .. Len(p) |-> p[k] * f[n + 1 - k]]
<1>3. \A k \in 1 .. Len(p) : h[k] \in Int
    BY <1>2
<1> HIDE DEF h
<1>4. SumOver(h, Len(p)) \in Int
    BY <1>1, <1>3, SumType
<1> QED
    BY <1>1, <1>2, <1>4 DEF Conv, h

\* A coefficient is a number.
LEMMA AtType ==
    ASSUME NEW q \in Seq(Int), NEW k \in Int
    PROVE  at(q, k) \in Int
    BY DEF at

\* The product of two responses is one.
LEMMA TimesType ==
    ASSUME NEW p \in Responses, NEW q \in Responses
    PROVE  /\ times(p, q) \in Responses
           /\ Len(times(p, q)) = Len(p) + Len(q) - 1
           /\ \A k \in 1 .. Len(p) + Len(q) - 1 :
                times(p, q)[k] =
                    SumOver([i \in 1 .. Len(p) |-> p[i] * at(q, k - i)], Len(p))
<1> DEFINE n == Len(p) + Len(q) - 1
           e(k) == SumOver([i \in 1 .. Len(p) |-> p[i] * at(q, k - i)], Len(p))
<1>1. p \in Seq(Int) /\ q \in Seq(Int) /\ Len(p) \in Nat /\ Len(q) \in Nat
      /\ Len(p) > 0 /\ Len(q) > 0
    BY DEF Responses
<1>2. ASSUME NEW k \in 1 .. n PROVE e(k) \in Int
  <2> DEFINE h == [i \in 1 .. Len(p) |-> p[i] * at(q, k - i)]
  <2>1. ASSUME NEW i \in 1 .. Len(p) PROVE h[i] \in Int
    <3>1. at(q, k - i) \in Int
      <4>1. k - i \in Int
        OBVIOUS
      <4> QED
        BY <1>1, <4>1, AtType
    <3>2. p[i] \in Int
      BY <1>1
    <3>3. p[i] * at(q, k - i) \in Int
      BY <3>1, <3>2
    <3> QED
      BY <3>3
  <2> HIDE DEF h
  <2>2. SumOver(h, Len(p)) \in Int
    BY <1>1, <2>1, SumType
  <2> QED
    BY <2>2 DEF h
<1>3. times(p, q) = [k \in 1 .. n |-> e(k)]
    BY DEF times
<1> HIDE DEF e
<1>4. n \in Nat /\ n > 0
    BY <1>1
<1> HIDE DEF n
<1>5. times(p, q) \in Seq(Int) /\ Len(times(p, q)) = n
    BY <1>2, <1>3, <1>4
<1>6. \A k \in 1 .. n : times(p, q)[k] = e(k)
    BY <1>3
<1> QED
    BY <1>4, <1>5, <1>6 DEF n, e, Responses

\* The filter with the product of two responses is one after the other.
LEMMA ConvTimes ==
    ASSUME NEW p \in Responses, NEW q \in Responses, NEW f \in Signals,
           NEW g \in Signals, \A m \in Int : g[m] = Conv(q, f, m), NEW n \in Int
    PROVE  Conv(times(p, q), f, n) = Conv(p, g, n)
<1> DEFINE a == Len(p)
           b == Len(q)
           c == Len(times(p, q))
           F == [i \in 1 .. a |-> [k \in 1 .. c |->
                    p[i] * (at(q, k - i) * f[n + 1 - k])]]
           row == [i \in 1 .. a |-> p[i] * g[n + 1 - i]]
           G == [k \in 1 .. c |-> [i \in 1 .. a |-> F[i][k]]]
           col == [k \in 1 .. c |-> times(p, q)[k] * f[n + 1 - k]]
<1>1. /\ a \in Nat /\ b \in Nat /\ c \in Nat /\ a > 0 /\ b > 0 /\ c = a + b - 1
      /\ p \in Seq(Int) /\ q \in Seq(Int) /\ times(p, q) \in Responses
    BY TimesType DEF Responses
<1>2. \A k \in Int : at(q, k) \in Int
    BY <1>1, AtType
<1>3. \A k \in Int : f[n + 1 - k] \in Int /\ g[n + 1 - k] \in Int
    BY DEF Signals
<1>4. \A i \in 1 .. a : p[i] \in Int
    BY <1>1
<1> HIDE DEF a, b, c
<1>5. ASSUME NEW i \in 1 .. a, NEW k \in 1 .. c
      PROVE  /\ at(q, k - i) \in Int /\ at(q, k - i) * f[n + 1 - k] \in Int
             /\ F[i][k] \in Int
             /\ F[i][k] = p[i] * (at(q, k - i) * f[n + 1 - k])
             /\ F[i][k] = (p[i] * at(q, k - i)) * f[n + 1 - k]
             /\ p[i] * at(q, k - i) \in Int
  <2>1. at(q, k - i) \in Int /\ f[n + 1 - k] \in Int /\ p[i] \in Int
    <3>1. k - i \in Int /\ k \in Int
      OBVIOUS
    <3> QED
      BY <1>2, <1>3, <1>4, <3>1
  <2>2. F[i][k] = p[i] * (at(q, k - i) * f[n + 1 - k])
    OBVIOUS
  <2>3. \A x \in Int, y \in Int, z \in Int :
            x * (y * z) = (x * y) * z /\ x * y \in Int /\ y * z \in Int
            /\ x * (y * z) \in Int
    OBVIOUS
  <2> HIDE DEF F
  <2> QED
    BY <2>1, <2>2, <2>3
<1>6. \A i \in 1 .. a : row[i] = SumOver(F[i], c)
  <2> TAKE i \in 1 .. a
  <2> DEFINE h == [k \in 1 .. c |-> at(q, k - i) * f[n + 1 - k]]
             w == [j \in 1 .. b |-> q[j] * f[(n + 1 - i) + 1 - j]]
             m == i - 1
             l == a - i
  <2>1. m \in Nat /\ l \in Nat /\ m + b + l = c
    BY <1>1
  <2>2. \A k \in 1 .. m : h[k] = 0
    <3> TAKE k \in 1 .. m
    <3>1. k \in 1 .. c /\ k - i \notin 0 .. b - 1 /\ f[n + 1 - k] \in Int
      BY <1>1, <1>3
    <3>2. at(q, k - i) = 0
      BY <3>1 DEF at, b
    <3> QED
      BY <3>1, <3>2
  <2>3. \A k \in 1 .. l : h[m + b + k] = 0
    <3> TAKE k \in 1 .. l
    <3> DEFINE kk == m + b + k
    <3>1. kk \in 1 .. c /\ kk - i \notin 0 .. b - 1
      BY <1>1, <2>1
    <3> HIDE DEF kk
    <3>2. f[n + 1 - kk] \in Int
      BY <1>3, <3>1
    <3>3. at(q, kk - i) = 0
      BY <3>1 DEF at, b
    <3>4. h[kk] = 0
      BY <3>1, <3>2, <3>3
    <3> QED
      BY <3>4 DEF kk
  <2>4. \A j \in 1 .. b : h[m + j] \in Int /\ w[j] = h[m + j]
    <3> TAKE j \in 1 .. b
    <3> DEFINE k == m + j
    <3>1. /\ k \in 1 .. c /\ k - i = j - 1 /\ j - 1 \in 0 .. b - 1
          /\ (j - 1) + 1 = j /\ n + 1 - k = (n + 1 - i) + 1 - j
      BY <1>1
    <3> HIDE DEF k
    <3>2. at(q, k - i) = q[j]
      BY <3>1 DEF at, b
    <3>4. h[k] = at(q, k - i) * f[n + 1 - k]
      BY <3>1
    <3>5. h[k] = q[j] * f[(n + 1 - i) + 1 - j]
      BY <3>1, <3>2, <3>4
    <3>6. h[k] \in Int
      BY <1>5, <3>1, <3>4
    <3> QED
      BY <3>5, <3>6 DEF k
  <2> HIDE DEF m, l, h, w, F, G, row, col
  <2>5. SumOver(h, c) = SumOver(w, b)
    <3>1. c = m + b + l /\ b \in Nat
      BY <1>1, <2>1
    <3>2. Window(h, w, m, b, l)
      BY <2>2, <2>3, <2>4 DEF Window
    <3> QED
      BY <2>1, <3>1, <3>2, SumOfWindow
  <2>6. SumOver(w, b) = g[n + 1 - i]
    <3>1. n + 1 - i \in Int
      OBVIOUS
    <3> QED
      BY <3>1 DEF Conv, w, b
  <2>7. SumOver(F[i], c) = p[i] * SumOver(h, c)
    <3>1. \A k \in 1 .. c : h[k] \in Int /\ F[i][k] = p[i] * h[k]
      BY <1>5 DEF h
    <3>2. p[i] \in Int
      BY <1>4
    <3> QED
      BY <1>1, <3>1, <3>2, SumScaled
  <2> QED
    BY <2>5, <2>6, <2>7 DEF row
<1>7. \A k \in 1 .. c : col[k] = SumOver(G[k], a)
  <2> TAKE k \in 1 .. c
  <2> DEFINE u == [i \in 1 .. a |-> p[i] * at(q, k - i)]
             v == [i \in 1 .. a |-> F[i][k]]
             x == f[n + 1 - k]
  <2>1. x \in Int
    BY <1>3
  <2>2. \A i \in 1 .. a : u[i] \in Int /\ v[i] = x * u[i]
    <3> TAKE i \in 1 .. a
    <3>1. u[i] = p[i] * at(q, k - i) /\ v[i] = F[i][k]
      OBVIOUS
    <3>2. F[i][k] = (p[i] * at(q, k - i)) * x /\ p[i] * at(q, k - i) \in Int
      BY <1>5
    <3> HIDE DEF u, v, x, F
    <3>3. \A y \in Int : y * x = x * y
      BY <2>1
    <3> QED
      BY <3>1, <3>2, <3>3
  <2>3. times(p, q)[k] = SumOver(u, a)
    BY <1>1, TimesType DEF a, b, c
  <2>4. col[k] = times(p, q)[k] * x
    OBVIOUS
  <2>7. G[k] = v
    OBVIOUS
  <2> HIDE DEF u, v, x, F, col, G
  <2>5. SumOver(v, a) = x * SumOver(u, a) /\ SumOver(u, a) \in Int
    BY <1>1, <2>1, <2>2, SumScaled, SumType
  <2>6. SumOver(u, a) * x = x * SumOver(u, a)
    BY <2>1, <2>5
  <2> QED
    BY <2>3, <2>4, <2>5, <2>6, <2>7
<1>8. \A i \in 1 .. a, k \in 1 .. c : F[i][k] \in Int /\ G[k][i] = F[i][k]
  <2> HIDE DEF F
  <2> QED
    BY <1>5
<1> HIDE DEF F, G, row, col
<1>9. SumOver(row, a) = SumOver(col, c)
  <2>1. a \in Nat /\ c \in Nat
    BY <1>1
  <2>2. SumsOf(F, G, row, col, a, c)
    BY <1>6, <1>7, <1>8 DEF SumsOf
  <2> QED
    BY <2>1, <2>2, SumsExchange
<1> QED
    BY <1>9 DEF Conv, row, col, a, c

\* A filter of what is left after subtracting what was d samples before.
LEMMA ConvComb ==
    ASSUME NEW p \in Responses, NEW f \in Signals, NEW h \in Signals,
           NEW d \in Int, \A m \in Int : h[m] = f[m] - f[m - d], NEW n \in Int
    PROVE  Conv(p, h, n) = Conv(p, f, n) - Conv(p, f, n - d)
<1> DEFINE u == [k \in 1 .. Len(p) |-> p[k] * f[n + 1 - k]]
           v == [k \in 1 .. Len(p) |-> p[k] * f[(n - d) + 1 - k]]
           w == [k \in 1 .. Len(p) |-> p[k] * h[n + 1 - k]]
<1>1. n - d \in Int
    OBVIOUS
<1>2. Len(p) \in Nat
    BY ConvTerms
<1>3. ASSUME NEW k \in 1 .. Len(p)
      PROVE  u[k] \in Int /\ v[k] \in Int /\ w[k] = u[k] - v[k]
  <2>1. /\ p[k] \in Int /\ f[n + 1 - k] \in Int /\ f[(n - d) + 1 - k] \in Int
        /\ p[k] * f[n + 1 - k] \in Int /\ p[k] * f[(n - d) + 1 - k] \in Int
    BY <1>1, ConvTerms
  <2>2. h[n + 1 - k] = f[n + 1 - k] - f[(n - d) + 1 - k]
    <3>1. n + 1 - k \in Int /\ (n + 1 - k) - d = (n - d) + 1 - k
      OBVIOUS
    <3> QED
      BY <3>1
  <2>3. \A x \in Int, y \in Int, z \in Int : x * (y - z) = x * y - x * z
    OBVIOUS
  <2>4. u[k] = p[k] * f[n + 1 - k] /\ v[k] = p[k] * f[(n - d) + 1 - k]
        /\ w[k] = p[k] * h[n + 1 - k]
    OBVIOUS
  <2> DEFINE x == p[k]
             y == f[n + 1 - k]
             z == f[(n - d) + 1 - k]
  <2>5. x * (y - z) = x * y - x * z
    BY <2>1, <2>3
  <2>6. u[k] = x * y /\ v[k] = x * z /\ w[k] = x * (y - z) /\ x * y \in Int
        /\ x * z \in Int
    BY <2>1, <2>2, <2>4
  <2> HIDE DEF u, v, w, x, y, z
  <2> QED
    BY <2>5, <2>6
<1> HIDE DEF u, v, w
<1>4. SumOver(w, Len(p)) = SumOver(u, Len(p)) - SumOver(v, Len(p))
    BY <1>2, <1>3, SumMinus
<1> QED
    BY <1>4 DEF Conv, u, v, w

\* s is the sum of f up to every time.
Integral(s, f) == s \in Signals /\ \A n \in Int : s[n] = s[n - 1] + f[n]

\* The response of a comb after an integrator.
LEMMA BoxcarType ==
    ASSUME NEW d \in Nat, d > 0
    PROVE  /\ Boxcar(d) \in Responses
           /\ Len(Boxcar(d)) = d * decimation_factor
           /\ d * decimation_factor \in Nat /\ d * decimation_factor > 0
           /\ Boxcar(d) = [i \in 1 .. d * decimation_factor |-> 1]
<1> DEFINE l == d * decimation_factor
<1>1. l \in Nat /\ l > 0
  <2>1. decimation_factor \in Nat /\ decimation_factor > 1
    BY FilterAssumption
  <2> QED
    BY <2>1
<1>2. Boxcar(d) = [i \in 1 .. l |-> 1]
    BY DEF Boxcar
<1> HIDE DEF l
<1>3. Boxcar(d) \in Seq(Int) /\ Len(Boxcar(d)) = l
    BY <1>1, <1>2
<1> QED
    BY <1>1, <1>2, <1>3 DEF Responses, l

\* The sum of the last samples is a difference of sums of all.
LEMMA ConvBoxcar ==
    ASSUME NEW d \in Nat, d > 0, NEW f \in Signals, NEW s, Integral(s, f),
           NEW n \in Int
    PROVE  Conv(Boxcar(d), f, n) = s[n] - s[n - d * decimation_factor]
<1> DEFINE l == d * decimation_factor
<1>1. /\ l \in Nat /\ l > 0 /\ Len(Boxcar(d)) = l
      /\ Boxcar(d) = [i \in 1 .. l |-> 1]
    BY BoxcarType
<1>2. s \in Signals /\ \A m \in Int : s[m] = s[m - 1] + f[m]
    BY DEF Integral
<1> HIDE DEF l
<1> DEFINE u == [k \in 1 .. Len(Boxcar(d)) |-> Boxcar(d)[k] * f[n + 1 - k]]
<1>5. ASSUME NEW k \in 1 .. l PROVE u[k] = f[n + 1 - k] /\ u[k] \in Int
  <2>1. Boxcar(d)[k] = 1
    BY <1>1
  <2>2. n + 1 - k \in Int
    OBVIOUS
  <2>3. f[n + 1 - k] \in Int
    BY <2>2 DEF Signals
  <2> QED
    BY <1>1, <2>1, <2>3
<1> HIDE DEF u
<1> DEFINE Good == {k \in Nat : k <= l => SumOver(u, k) = s[n] - s[n - k]}
<1>6. 0 \in Good
  <2>1. s[n] \in Int /\ n - 0 = n
    BY <1>2 DEF Signals
  <2> QED
    BY <2>1, SumNone
<1>7. ASSUME NEW k \in Nat, k \in Good PROVE k + 1 \in Good
  <2> SUFFICES ASSUME k + 1 <= l PROVE SumOver(u, k + 1) = s[n] - s[n - (k + 1)]
    OBVIOUS
  <2>1. \A i \in 1 .. k + 1 : u[i] \in Int
    BY <1>1, <1>5
  <2>2. SumOver(u, k + 1) = SumOver(u, k) + u[k + 1]
    BY <2>1, SumSteps
  <2>3. u[k + 1] = f[n - k]
    <3>1. k + 1 \in 1 .. l /\ n + 1 - (k + 1) = n - k
      OBVIOUS
    <3> QED
      BY <1>5, <3>1
  <2>4. n - k \in Int /\ (n - k) - 1 = n - (k + 1) /\ n - (k + 1) \in Int
    OBVIOUS
  <2>5. s[n - k] = s[n - (k + 1)] + f[n - k]
    BY <1>2, <2>4
  <2>6. s[n] \in Int /\ s[n - k] \in Int /\ s[n - (k + 1)] \in Int /\ f[n - k] \in Int
    BY <1>2, <2>4 DEF Signals
  <2>7. SumOver(u, k) = s[n] - s[n - k]
    BY <1>1, <1>7
  <2> QED
    BY <2>2, <2>3, <2>5, <2>6, <2>7
<1> HIDE DEF Good
<1>8. \A k \in Nat : k \in Good
    BY <1>6, <1>7, Induction
<1>9. SumOver(u, l) = s[n] - s[n - l]
    BY <1>1, <1>8 DEF Good
<1> QED
    BY <1>1, <1>9 DEF Conv, u, l

-----------------------------------------------------------------------------
(* The stages of the filter. *)

\* Each has a delay.
LEMMA StagesType ==
    /\ cic_order \in Nat /\ cic_order > 0
    /\ \A k \in 1 .. cic_order :
        Delay(k) \in DOMAIN comb_orders /\ Delay(k) \in Nat /\ Delay(k) > 0
<1> DEFINE T == (DOMAIN comb_orders) \X Nat
           seq(order) == [n \in 1 .. comb_orders[order] |-> <<order, n>>]
           seqs == [order \in DOMAIN comb_orders |-> seq(order)]
<1>1. comb_orders \in Seq(Nat)
    BY FilterAssumption
<1>2. ASSUME NEW order \in DOMAIN comb_orders PROVE seq(order) \in Seq(T)
  <2>1. comb_orders[order] \in Nat
    BY <1>1
  <2>2. \A n \in 1 .. comb_orders[order] : <<order, n>> \in T
    BY <2>1
  <2> HIDE DEF T
  <2> QED
    BY <2>1, <2>2
<1> HIDE DEF T, seq
<1>3. seqs \in Seq(Seq(T))
  <2>1. Len(comb_orders) \in Nat /\ DOMAIN comb_orders = 1 .. Len(comb_orders)
    BY <1>1
  <2> QED
    BY <1>2, <2>1
<1>4. Stages = FlattenSeq(seqs)
    BY DEF Stages, seq
<1> HIDE DEF seqs
<1>5. Stages \in Seq(T)
  <2>1. PICK f : Concatenates(f, seqs, T)
    BY <1>3, FlattenSteps
  <2>2. f \in [Nat -> Seq(T)] /\ FlattenSeq(seqs) = f[Len(seqs)]
    BY <2>1 DEF Concatenates
  <2>3. Len(seqs) \in Nat
    BY <1>3
  <2> QED
    BY <1>4, <2>2, <2>3
<1>6. cic_order \in Nat
    BY <1>5 DEF cic_order
<1>7. ASSUME NEW k \in 1 .. cic_order
      PROVE  Delay(k) \in DOMAIN comb_orders /\ Delay(k) \in Nat /\ Delay(k) > 0
  <2>1. Stages[k] \in T
    BY <1>5, <1>7 DEF cic_order
  <2>2. Delay(k) \in DOMAIN comb_orders
    BY <2>1 DEF Delay, T
  <2> QED
    BY <1>1, <2>2
<1> QED
    BY <1>6, <1>7, FilterAssumption

\* The response of a filter with one stage more.
LEMMA CascadeSteps ==
    ASSUME NEW p \in Responses
    PROVE  /\ Cascaded(p)[0] = p
           /\ \A k \in 0 .. cic_order : Cascaded(p)[k] \in Responses
           /\ \A k \in 1 .. cic_order :
                Cascaded(p)[k] = times(Cascaded(p)[k - 1], Boxcar(Delay(k)))
<1> DEFINE E(r) == [k \in 0 .. cic_order |->
                IF k = 0 THEN p ELSE times(r[k - 1], Boxcar(Delay(k)))]
           c == CHOOSE r : r = E(r)
<1>1. cic_order \in Nat
    BY StagesType
<1>2. ASSUME NEW k \in 1 .. cic_order, NEW r \in Responses
      PROVE  times(r, Boxcar(Delay(k))) \in Responses
    BY StagesType, BoxcarType, TimesType
<1>3. \E r : r = E(r)
  <2> DEFINE G == [k \in Nat |-> [r \in Responses |->
                    IF k + 1 <= cic_order THEN times(r, Boxcar(Delay(k + 1)))
                    ELSE r]]
  <2>1. G \in [Nat -> [Responses -> Responses]]
    <3>1. ASSUME NEW k \in Nat, k + 1 <= cic_order, NEW r \in Responses
          PROVE  times(r, Boxcar(Delay(k + 1))) \in Responses
      <4>1. k + 1 \in 1 .. cic_order
        BY <1>1, <3>1
      <4> QED
        BY <1>2, <4>1
    <3> QED
      BY <3>1
  <2> HIDE DEF G
  <2>2. PICK f : Unfolds(f, Responses, p, G)
    BY <2>1, Recursion
  <2>3. /\ f \in [Nat -> Responses] /\ f[0] = p
        /\ \A k \in Nat : f[k + 1] = G[k][f[k]]
    BY <2>2 DEF Unfolds
  <2> DEFINE r == [k \in 0 .. cic_order |-> f[k]]
  <2>4. ASSUME NEW k \in 0 .. cic_order PROVE r[k] = E(r)[k]
    <3>1. CASE k = 0
      BY <1>1, <2>3, <3>1
    <3>2. CASE k # 0
      <4>1. /\ k - 1 \in Nat /\ (k - 1) + 1 = k /\ k - 1 \in 0 .. cic_order
            /\ k <= cic_order
        BY <1>1, <3>2
      <4>2. f[k] = G[k - 1][f[k - 1]] /\ f[k - 1] \in Responses
        BY <2>3, <4>1
      <4>3. G[k - 1][f[k - 1]] = times(f[k - 1], Boxcar(Delay(k)))
        BY <4>1, <4>2 DEF G
      <4> QED
        BY <3>2, <4>1, <4>2, <4>3
    <3> QED
      BY <3>1, <3>2
  <2>5. r = E(r)
    BY <2>4
  <2> QED
    BY <2>5
<1>4. c = E(c)
  <2> HIDE DEF E
  <2> QED
    BY <1>3
<1>5. Cascaded(p) = c
    BY DEF Cascaded
<1> HIDE DEF c
<1>6. c[0] = p
    BY <1>1, <1>4
<1>7. ASSUME NEW k \in 1 .. cic_order PROVE c[k] = times(c[k - 1], Boxcar(Delay(k)))
  <2>1. k \in 0 .. cic_order /\ k # 0
    BY <1>1
  <2> QED
    BY <1>4, <2>1
<1> HIDE DEF E
<1> DEFINE Good == {k \in Nat : k <= cic_order => c[k] \in Responses}
<1>8. 0 \in Good
    BY <1>6
<1>9. ASSUME NEW k \in Nat, k \in Good PROVE k + 1 \in Good
  <2> SUFFICES ASSUME k + 1 <= cic_order PROVE c[k + 1] \in Responses
    OBVIOUS
  <2>1. k + 1 \in 1 .. cic_order /\ (k + 1) - 1 = k /\ k <= cic_order
    BY <1>1
  <2>2. c[k + 1] = times(c[k], Boxcar(Delay(k + 1)))
    BY <1>7, <2>1
  <2> QED
    BY <1>2, <1>9, <2>1, <2>2
<1> HIDE DEF Good
<1>10. \A k \in Nat : k \in Good
    BY <1>8, <1>9, Induction
<1>11. ASSUME NEW k \in 0 .. cic_order PROVE c[k] \in Responses
  <2>1. k \in Nat /\ k <= cic_order
    BY <1>1
  <2> QED
    BY <1>10, <2>1 DEF Good
<1> QED
    BY <1>5, <1>6, <1>7, <1>11

\* The samples x, what is in each integrator, and what comes out of each comb,
\* all at the rate of the samples, in exact numbers.
Passes(x, s, z) ==
    /\ s \in [0 .. cic_order -> Causal] /\ s[0] = x
    /\ \A k \in 1 .. cic_order : Integral(s[k], s[k - 1])
    /\ z \in [0 .. cic_order -> Causal] /\ z[0] = s[cic_order]
    /\ \A k \in 1 .. cic_order, n \in Int :
        z[k][n] = z[k - 1][n] - z[k - 1][n - Delay(k) * decimation_factor]

\* Each comb undoes an integrator but for the last samples.
LEMMA CascadeConv ==
    ASSUME NEW x, NEW s, NEW z, Passes(x, s, z), NEW p \in Responses
    PROVE  \A k \in 0 .. cic_order, n \in Int :
            Conv(p, z[k], n) = Conv(Cascaded(p)[k], s[cic_order - k], n)
<1> DEFINE K == cic_order
           r(k) == Cascaded(p)[k]
           Good == {k \in Nat : k <= K => \A n \in Int :
                        Conv(p, z[k], n) = Conv(r(k), s[K - k], n)}
<1>1. /\ K \in Nat
      /\ \A k \in 0 .. K : s[k] \in Signals /\ z[k] \in Signals
  <2>1. K \in Nat
    BY StagesType
  <2>2. \A k \in 0 .. K : s[k] \in Causal /\ z[k] \in Causal
    BY DEF Passes
  <2> QED
    BY <2>1, <2>2 DEF Causal
<1>2. 0 \in Good
  <2>1. K - 0 = K /\ r(0) = p /\ z[0] = s[K]
    BY <1>1, CascadeSteps DEF Passes
  <2> QED
    BY <2>1
<1>3. ASSUME NEW k \in Nat, k \in Good PROVE k + 1 \in Good
  <2> SUFFICES ASSUME k + 1 <= K, NEW n \in Int
               PROVE  Conv(p, z[k + 1], n) = Conv(r(k + 1), s[K - (k + 1)], n)
    OBVIOUS
  <2> DEFINE d == Delay(k + 1)
             dd == d * decimation_factor
             f == s[K - (k + 1)]
             S == s[K - k]
             g == [m \in Int |-> Conv(Boxcar(d), f, m)]
  <2>1. /\ k \in 0 .. K /\ k + 1 \in 0 .. K /\ k + 1 \in 1 .. K
        /\ (k + 1) - 1 = k /\ K - k \in 0 .. K /\ K - (k + 1) \in 0 .. K
        /\ K - k \in 1 .. K /\ (K - k) - 1 = K - (k + 1)
    BY <1>1
  <2>2. d \in Nat /\ d > 0 /\ dd \in Int /\ Boxcar(d) \in Responses
    BY <2>1, StagesType, BoxcarType
  <2>3. /\ f \in Signals /\ S \in Signals /\ z[k] \in Signals
        /\ z[k + 1] \in Signals /\ r(k) \in Responses
    BY <1>1, <2>1, CascadeSteps
  <2>4. Integral(S, f)
    BY <2>1 DEF Passes
  <2>5. \A m \in Int : z[k + 1][m] = z[k][m] - z[k][m - dd]
    BY <2>1 DEF Passes
  <2>6. r(k + 1) = times(r(k), Boxcar(d))
    BY <2>1, CascadeSteps
  <2>7. \A m \in Int : Conv(p, z[k], m) = Conv(r(k), S, m)
    BY <1>3, <2>1
  <2> HIDE DEF K, r, Good, d, f, S
  <2>8. \A m \in Int : g[m] = Conv(Boxcar(d), f, m) /\ g[m] = S[m] - S[m - dd]
    BY <2>2, <2>3, <2>4, ConvBoxcar
  <2>9. g \in Signals
    <3>1. \A m \in Int : Conv(Boxcar(d), f, m) \in Int
      BY <2>2, <2>3, ConvTerms
    <3> QED
      BY <3>1 DEF Signals
  <2> HIDE DEF g, dd
  <2>10. Conv(p, z[k + 1], n) = Conv(p, z[k], n) - Conv(p, z[k], n - dd)
    <3> DEFINE a == z[k]
               b == z[k + 1]
    <3>1. /\ a \in Signals /\ b \in Signals /\ dd \in Int
          /\ \A m \in Int : b[m] = a[m] - a[m - dd]
      BY <2>2, <2>3, <2>5
    <3> HIDE DEF a, b
    <3>2. Conv(p, b, n) = Conv(p, a, n) - Conv(p, a, n - dd)
      BY <3>1, ConvComb
    <3> QED
      BY <3>2 DEF a, b
  <2>11. Conv(r(k), g, n) = Conv(r(k), S, n) - Conv(r(k), S, n - dd)
    BY <2>2, <2>3, <2>8, <2>9, ConvComb
  <2>12. Conv(times(r(k), Boxcar(d)), f, n) = Conv(r(k), g, n)
    BY <2>2, <2>3, <2>8, <2>9, ConvTimes
  <2>13. n - dd \in Int
    BY <2>2
  <2> QED
    BY <2>6, <2>7, <2>10, <2>11, <2>12, <2>13 DEF f
<1> HIDE DEF Good
<1>4. \A k \in Nat : k \in Good
    BY <1>2, <1>3, Induction
<1> QED
    BY <1>1, <1>4 DEF Good

-----------------------------------------------------------------------------
(* The output of the combs fits. *)

\* ProductOver is the last of the running products.
LEMMA ProductRuns ==
    ASSUME NEW n \in Nat, NEW f, \A i \in 1 .. n : f[i] \in Int
    PROVE  \E p : /\ p \in [0 .. n -> Int] /\ p[0] = 1 /\ ProductOver(f, n) = p[n]
                  /\ \A i \in 1 .. n : p[i] = p[i - 1] * f[i]
<1> DEFINE E(p) == [i \in 0 .. n |-> IF i = 0 THEN 1 ELSE p[i - 1] * f[i]]
           c == CHOOSE p : p = E(p)
<1>1. \E p : p = E(p)
  <2> DEFINE G == [i \in Nat |-> [v \in Int |->
                    IF i + 1 <= n THEN v * f[i + 1] ELSE v]]
  <2>1. G \in [Nat -> [Int -> Int]]
    <3>1. ASSUME NEW i \in Nat, i + 1 <= n, NEW v \in Int
          PROVE  v * f[i + 1] \in Int
      <4>1. f[i + 1] \in Int
        BY <3>1
      <4> QED
        BY <4>1
    <3> QED
      BY <3>1
  <2> HIDE DEF G
  <2>2. PICK g : Unfolds(g, Int, 1, G)
    <3>1. \A b \in Int : \E g : Unfolds(g, Int, b, G)
      BY <2>1, Recursion
    <3> QED
      BY <3>1
  <2>3. /\ g \in [Nat -> Int] /\ g[0] = 1
        /\ \A i \in Nat : g[i + 1] = G[i][g[i]]
    BY <2>2 DEF Unfolds
  <2> DEFINE p == [i \in 0 .. n |-> g[i]]
  <2>4. ASSUME NEW i \in 0 .. n PROVE p[i] = E(p)[i]
    <3>1. CASE i = 0
      BY <2>3, <3>1
    <3>2. CASE i # 0
      <4>1. i - 1 \in Nat /\ (i - 1) + 1 = i /\ i - 1 \in 0 .. n /\ i <= n
        BY <3>2
      <4>2. g[i] = G[i - 1][g[i - 1]] /\ g[i - 1] \in Int
        BY <2>3, <4>1
      <4>3. G[i - 1][g[i - 1]] = g[i - 1] * f[i]
        BY <4>1, <4>2 DEF G
      <4> QED
        BY <3>2, <4>1, <4>2, <4>3
    <3> QED
      BY <3>1, <3>2
  <2>5. p = E(p)
    BY <2>4
  <2> QED
    BY <2>5
<1>2. c = E(c)
  <2> HIDE DEF E
  <2> QED
    BY <1>1
<1>3. ProductOver(f, n) = c[n]
    BY DEF ProductOver
<1> HIDE DEF c
<1>4. c[0] = 1
    BY <1>2
<1>5. ASSUME NEW i \in 1 .. n PROVE c[i] = c[i - 1] * f[i]
  <2>1. i \in 0 .. n /\ i # 0
    OBVIOUS
  <2> QED
    BY <1>2, <2>1
<1> DEFINE Good == {k \in Nat : k <= n => c[k] \in Int}
<1>6. 0 \in Good
    BY <1>4
<1>7. ASSUME NEW k \in Nat, k \in Good PROVE k + 1 \in Good
  <2> SUFFICES ASSUME k + 1 <= n PROVE c[k + 1] \in Int
    OBVIOUS
  <2>1. k + 1 \in 1 .. n /\ (k + 1) - 1 = k /\ k <= n
    OBVIOUS
  <2>2. c[k + 1] = c[k] * f[k + 1] /\ f[k + 1] \in Int /\ c[k] \in Int
    BY <1>5, <1>7, <2>1
  <2> QED
    BY <2>2
<1> HIDE DEF Good
<1>8. \A k \in Nat : k \in Good
    BY <1>6, <1>7, Induction
<1>9. \A k \in 0 .. n : c[k] \in Int
    BY <1>8 DEF Good
<1>10. c = [i \in 0 .. n |-> c[i]]
    BY <1>2
<1>11. c \in [0 .. n -> Int]
  <2> HIDE DEF E
  <2> QED
    BY <1>9, <1>10
<1> QED
    BY <1>3, <1>4, <1>5, <1>11

\* What the filter makes of a signal that is always 1 is the sum of its
\* response.
Ones == [n \in Int |-> 1]

LEMMA ConvOnes ==
    ASSUME NEW p \in Responses, NEW n \in Int, NEW c \in Int, NEW f \in Signals,
           \A m \in Int : f[m] = c
    PROVE  SumOver(p, Len(p)) \in Int /\ Conv(p, f, n) = c * SumOver(p, Len(p))
<1> DEFINE u == [k \in 1 .. Len(p) |-> p[k] * f[n + 1 - k]]
<1>1. Len(p) \in Nat /\ \A k \in 1 .. Len(p) : p[k] \in Int
    BY ConvTerms
<1>2. \A k \in 1 .. Len(p) : p[k] \in Int /\ u[k] = c * p[k]
  <2> TAKE k \in 1 .. Len(p)
  <2>1. n + 1 - k \in Int /\ p[k] \in Int
    BY <1>1
  <2>2. f[n + 1 - k] = c
    BY <2>1
  <2>3. p[k] * c = c * p[k]
    BY <2>1
  <2> QED
    BY <2>1, <2>2, <2>3
<1> HIDE DEF u
<1>3. SumOver(u, Len(p)) = c * SumOver(p, Len(p))
    BY <1>1, <1>2, SumScaled
<1> QED
    BY <1>1, <1>3, SumType DEF Conv, u

\* No coefficient is below 0.
Positive(p) == \A k \in 1 .. Len(p) : p[k] >= 0

LEMMA SumPositive ==
    ASSUME NEW n \in Nat, NEW f, \A i \in 1 .. n : f[i] \in Int /\ f[i] >= 0
    PROVE  SumOver(f, n) \in Int /\ SumOver(f, n) >= 0
<1> DEFINE Good == {k \in Nat : k <= n => SumOver(f, k) >= 0}
<1>1. 0 \in Good
    BY SumNone
<1>2. ASSUME NEW k \in Nat, k \in Good PROVE k + 1 \in Good
  <2> SUFFICES ASSUME k + 1 <= n PROVE SumOver(f, k + 1) >= 0
    OBVIOUS
  <2>1. \A i \in 1 .. k + 1 : f[i] \in Int
    OBVIOUS
  <2>2. SumOver(f, k + 1) = SumOver(f, k) + f[k + 1] /\ SumOver(f, k) \in Int
        /\ f[k + 1] \in Int /\ f[k + 1] >= 0
    BY <2>1, SumSteps
  <2>3. SumOver(f, k) >= 0
    BY <1>2
  <2> QED
    BY <2>2, <2>3
<1> HIDE DEF Good
<1>3. \A k \in Nat : k \in Good
    BY <1>1, <1>2, Induction
<1> QED
    BY <1>3, SumType DEF Good

\* One stage more multiplies the sum.
LEMMA TimesBoxcar ==
    ASSUME NEW p \in Responses, Positive(p), NEW d \in Nat, d > 0
    PROVE  LET q == times(p, Boxcar(d)) IN
           /\ Positive(q)
           /\ SumOver(q, Len(q)) = SumOver(p, Len(p)) * (decimation_factor * d)
<1> DEFINE b == Boxcar(d)
           q == times(p, b)
           D == d * decimation_factor
<1>1. b \in Responses /\ D \in Nat /\ Len(b) = D /\ b = [i \in 1 .. D |-> 1]
    BY BoxcarType
<1>2. q \in Responses
    BY <1>1, TimesType
<1>3. Positive(q)
  <2> SUFFICES ASSUME NEW k \in 1 .. Len(q) PROVE q[k] >= 0
    BY DEF Positive
  <2> DEFINE h == [i \in 1 .. Len(p) |-> p[i] * at(b, k - i)]
  <2>1. Len(p) \in Nat /\ k \in Int
    BY <1>2 DEF Responses
  <2>2. ASSUME NEW i \in 1 .. Len(p) PROVE h[i] \in Int /\ h[i] >= 0
    <3>1. p[i] \in Int /\ p[i] >= 0
      BY DEF Positive, Responses
    <3>2. at(b, k - i) = 0 \/ at(b, k - i) = 1
      <4> HIDE DEF b, D, q
      <4>1. CASE k - i \in 0 .. Len(b) - 1
        <5>1. (k - i) + 1 \in 1 .. D
          BY <1>1, <2>1, <4>1
        <5>2. at(b, k - i) = b[(k - i) + 1]
          BY <4>1 DEF at
        <5> QED
          BY <1>1, <5>1, <5>2
      <4>2. CASE k - i \notin 0 .. Len(b) - 1
        BY <4>2 DEF at
      <4> QED
        BY <4>1, <4>2
    <3>3. h[i] = p[i] * at(b, k - i)
      OBVIOUS
    <3> HIDE DEF h
    <3> QED
      BY <3>1, <3>2, <3>3
  <2>3. q[k] = SumOver(h, Len(p))
    BY <1>1, TimesType
  <2> HIDE DEF h
  <2> QED
    BY <2>1, <2>2, <2>3, SumPositive
<1>4. SumOver(q, Len(q)) = D * SumOver(p, Len(p)) /\ SumOver(p, Len(p)) \in Int
  <2> DEFINE f == [n \in Int |-> D]
             up == [n \in Int |-> n]
  <2> HIDE DEF b, D
  <2>1. Ones \in Signals /\ f \in Signals /\ up \in Signals
    BY <1>1 DEF Ones, Signals
  <2>2. \A n \in Int : Ones[n] = 1 /\ f[n] = D /\ up[n] = n
    BY DEF Ones
  <2>3. Integral(up, Ones)
    BY <2>1, <2>2 DEF Integral
  <2> HIDE DEF f, up, q
  <2>0. PICK now \in Int : TRUE
    OBVIOUS
  <2>4. \A n \in Int : f[n] = Conv(b, Ones, n)
    <3> TAKE n \in Int
    <3>1. Conv(b, Ones, n) = up[n] - up[n - D]
      BY <2>1, <2>3, ConvBoxcar DEF b, D
    <3>2. n - D \in Int /\ n - (n - D) = D
      BY <1>1
    <3> QED
      BY <2>2, <3>1, <3>2
  <2>5. Conv(q, Ones, now) = Conv(p, f, now)
    BY <1>1, <2>1, <2>4, ConvTimes DEF q
  <2>6. Conv(p, f, now) = D * SumOver(p, Len(p)) /\ SumOver(p, Len(p)) \in Int
    <3>1. D \in Int /\ \A m \in Int : f[m] = D
      BY <1>1, <2>2
    <3>2. \A c \in Int : (\A m \in Int : f[m] = c) =>
            SumOver(p, Len(p)) \in Int /\ Conv(p, f, now) = c * SumOver(p, Len(p))
      BY <2>1, ConvOnes
    <3> HIDE DEF D
    <3> QED
      BY <3>1, <3>2
  <2>7. Conv(q, Ones, now) = 1 * SumOver(q, Len(q)) /\ SumOver(q, Len(q)) \in Int
    BY <1>2, <2>1, <2>2, ConvOnes
  <2> QED
    BY <2>5, <2>6, <2>7
<1>5. D * SumOver(p, Len(p)) = SumOver(p, Len(p)) * (decimation_factor * d)
  <2>1. decimation_factor \in Nat
    BY FilterAssumption
  <2> QED
    BY <1>4, <2>1
<1> HIDE DEF D, q, b
<1> QED
    BY <1>3, <1>4, <1>5 DEF q, b

\* All stages together multiply by CicGain.
Unit == <<1>>

LEMMA UnitCascade ==
    /\ Unit \in Responses
    /\ Cascaded(Unit)[cic_order] \in Responses
    /\ Positive(Cascaded(Unit)[cic_order])
    /\ SumOver(Cascaded(Unit)[cic_order], Len(Cascaded(Unit)[cic_order])) = CicGain
    /\ CicGain \in Int /\ CicGain > 0
<1> DEFINE K == cic_order
           f == [k \in 1 .. K |-> decimation_factor * Delay(k)]
           r(k) == Cascaded(Unit)[k]
<1>1. K \in Nat
    BY StagesType
<1>2. ASSUME NEW k \in 1 .. K PROVE f[k] \in Int /\ f[k] > 0
                                   /\ f[k] = decimation_factor * Delay(k)
  <2>1. decimation_factor \in Nat /\ decimation_factor > 1
        /\ Delay(k) \in Nat /\ Delay(k) > 0
    BY FilterAssumption, StagesType
  <2>2. decimation_factor * Delay(k) \in Int /\ decimation_factor * Delay(k) > 0
    BY <2>1
  <2> QED
    BY <2>2
<1>3. CicGain = ProductOver(f, K)
    BY DEF CicGain
<1> HIDE DEF f, K
<1>4. PICK p : /\ p \in [0 .. K -> Int] /\ p[0] = 1 /\ ProductOver(f, K) = p[K]
               /\ \A i \in 1 .. K : p[i] = p[i - 1] * f[i]
  <2>1. \A i \in 1 .. K : f[i] \in Int
    BY <1>2
  <2> QED
    BY <1>1, <2>1, ProductRuns
<1>5. Unit \in Responses /\ Len(Unit) = 1 /\ Unit[1] = 1
    BY DEF Unit, Responses
<1>6. \A k \in 0 .. K : r(k) \in Responses
    BY <1>5, CascadeSteps DEF K
<1> DEFINE Good == {k \in Nat : k <= K =>
                /\ Positive(r(k)) /\ SumOver(r(k), Len(r(k))) = p[k]
                /\ p[k] > 0}
<1>7. 0 \in Good
  <2>1. r(0) = Unit
    BY <1>5, CascadeSteps
  <2>2. SumOver(Unit, 1) = 1
    <3>1. \A i \in 1 .. 0 + 1 : Unit[i] \in Int
      BY <1>5
    <3>2. SumOver(Unit, 0 + 1) = SumOver(Unit, 0) + Unit[0 + 1]
      BY <3>1, SumSteps
    <3> QED
      BY <1>5, <3>2, SumNone
  <2>3. Positive(Unit)
    BY <1>5 DEF Positive
  <2> HIDE DEF r
  <2>4. Positive(r(0))
    BY <2>1, <2>3
  <2>5. SumOver(r(0), Len(r(0))) = 1
    BY <1>5, <2>1, <2>2
  <2> QED
    BY <1>4, <2>4, <2>5
<1>8. ASSUME NEW k \in Nat, k \in Good PROVE k + 1 \in Good
  <2> SUFFICES ASSUME k + 1 <= K
               PROVE  /\ Positive(r(k + 1))
                      /\ SumOver(r(k + 1), Len(r(k + 1))) = p[k + 1]
                      /\ p[k + 1] > 0
    OBVIOUS
  <2>1. k + 1 \in 1 .. K /\ (k + 1) - 1 = k /\ k <= K /\ k \in 0 .. K
    BY <1>1
  <2>2. r(k + 1) = times(r(k), Boxcar(Delay(k + 1)))
    BY <1>5, <2>1, CascadeSteps DEF K
  <2>3. Delay(k + 1) \in Nat /\ Delay(k + 1) > 0
    BY <2>1, StagesType DEF K
  <2>4. /\ Positive(r(k)) /\ SumOver(r(k), Len(r(k))) = p[k] /\ p[k] > 0
        /\ r(k) \in Responses
    BY <1>6, <1>8, <2>1
  <2>5. p[k + 1] = p[k] * f[k + 1] /\ f[k + 1] = decimation_factor * Delay(k + 1)
        /\ f[k + 1] \in Int /\ f[k + 1] > 0 /\ p[k] \in Int
    BY <1>2, <1>4, <2>1
  <2> HIDE DEF r
  <2>6. /\ Positive(r(k + 1))
        /\ SumOver(r(k + 1), Len(r(k + 1)))
            = SumOver(r(k), Len(r(k))) * (decimation_factor * Delay(k + 1))
    BY <2>2, <2>3, <2>4, TimesBoxcar
  <2>7. \A x \in Int, y \in Int : x > 0 /\ y > 0 => x * y > 0
    OBVIOUS
  <2> QED
    BY <2>4, <2>5, <2>6, <2>7
<1> HIDE DEF Good
<1>9. \A k \in Nat : k \in Good
    BY <1>7, <1>8, Induction
<1>10. Positive(r(K)) /\ SumOver(r(K), Len(r(K))) = p[K] /\ p[K] > 0
    BY <1>1, <1>9 DEF Good
<1>11. r(K) \in Responses /\ p[K] \in Int
    BY <1>1, <1>4, <1>6
<1> QED
    BY <1>3, <1>4, <1>5, <1>10, <1>11 DEF K

-----------------------------------------------------------------------------
(* Numbers that wrap. *)

\* What a remainder is.
LEMMA Remainder ==
    ASSUME NEW a \in Int, NEW m \in Nat, m > 0
    PROVE  /\ a % m \in Int /\ 0 <= a % m /\ a % m < m
           /\ a \div m \in Int /\ a = m * (a \div m) + (a % m)
<1>1. a % m \in Int /\ 0 <= a % m /\ a % m < m
    OBVIOUS
<1>2. a \div m \in Int
    OBVIOUS
<1>3. a = m * (a \div m) + (a % m)
    OBVIOUS
<1> QED
    BY <1>1, <1>2, <1>3

\* There is only one.
LEMMA RemainderIs ==
    ASSUME NEW a \in Int, NEW m \in Nat, m > 0, NEW q \in Int, NEW r \in Int,
           0 <= r, r < m, a = m * q + r
    PROVE  a % m = r
<1> DEFINE p == a \div m
           s == a % m
<1>1. s \in Int /\ 0 <= s /\ s < m /\ p \in Int /\ a = m * p + s
    BY Remainder
<1> HIDE DEF p, s
<1>2. \A d \in Int : d >= 1 => m * d >= m
  <2>1. \A x \in Int, y \in Int : x >= 0 /\ y >= 0 => x * y >= 0
    OBVIOUS
  <2> TAKE d \in Int
  <2> SUFFICES ASSUME d >= 1 PROVE m * d >= m
    OBVIOUS
  <2>2. m * (d - 1) >= 0
    BY <2>1
  <2>3. m * (d - 1) = m * d - m /\ m * d \in Int
    OBVIOUS
  <2> QED
    BY <2>2, <2>3
<1>3. m * (p - q) = m * p - m * q /\ m * (q - p) = m * q - m * p
      /\ m * p \in Int /\ m * q \in Int
    BY <1>1
<1>4. ~(p - q >= 1)
  <2> SUFFICES ASSUME p - q >= 1 PROVE FALSE
    OBVIOUS
  <2>1. m * (p - q) >= m
    BY <1>1, <1>2
  <2> QED
    BY <1>1, <1>3, <2>1
<1>5. ~(q - p >= 1)
  <2> SUFFICES ASSUME q - p >= 1 PROVE FALSE
    OBVIOUS
  <2>1. m * (q - p) >= m
    BY <1>1, <1>2
  <2> QED
    BY <1>1, <1>3, <2>1
<1>6. p = q
    BY <1>1, <1>4, <1>5
<1>7. m * p = m * q
    BY <1>6
<1> QED
    BY <1>1, <1>3, <1>7 DEF s

\* Multiples of m make no difference.
LEMMA RemainderShift ==
    ASSUME NEW a \in Int, NEW b \in Int, NEW m \in Nat, m > 0, NEW k \in Int,
           b = a + m * k
    PROVE  b % m = a % m
<1> DEFINE p == a \div m
           s == a % m
<1>1. s \in Int /\ 0 <= s /\ s < m /\ p \in Int /\ a = m * p + s
    BY Remainder
<1> HIDE DEF p, s
<1>2. m * (p + k) = m * p + m * k /\ m * p \in Int /\ m * k \in Int
    BY <1>1
<1>3. b = m * (p + k) + s /\ p + k \in Int
    BY <1>1, <1>2
<1>4. b % m = s
    BY <1>1, <1>3, RemainderIs
<1> QED
    BY <1>4 DEF s

\* a, wrapped, is a but for a multiple of the range.
LEMMA WrapIs ==
    ASSUME NEW a \in Int
    PROVE  /\ wrap(a) \in -Limit .. Limit - 1
           /\ a \in -Limit .. Limit - 1 => wrap(a) = a
           /\ \E k \in Int : wrap(a) = a + (2 * Limit) * k
<1> DEFINE m == 2 * Limit
           b == a + Limit
           p == b \div m
           s == b % m
<1>1. Limit \in Nat /\ Limit > 0 /\ m \in Nat /\ m > 0 /\ b \in Int
  <2>1. Limit \in Nat \ {0}
    BY FilterAssumption
  <2> QED
    BY <2>1
<1>2. wrap(a) = s - Limit
    BY DEF wrap
<1> HIDE DEF m
<1>3. s \in Int /\ 0 <= s /\ s < m /\ p \in Int /\ b = m * p + s
    BY <1>1, Remainder
<1>4. a \in -Limit .. Limit - 1 => s = b
  <2> SUFFICES ASSUME a \in -Limit .. Limit - 1 PROVE s = b
    OBVIOUS
  <2>1. 0 <= b /\ b < m
    BY <1>1 DEF m
  <2>2. 0 \in Int /\ m * 0 = 0
    BY <1>1
  <2>3. \A z \in Int : z = 0 => b = m * z + b
    BY <1>1, <2>2
  <2>4. \A z \in Int : b = m * z + b => b % m = b
    BY <1>1, <2>1, RemainderIs
  <2> QED
    BY <2>2, <2>3, <2>4
<1>5. m * (-p) = -(m * p) /\ m * p \in Int /\ -p \in Int
    BY <1>1, <1>3
<1> HIDE DEF s, p
<1>6. wrap(a) = a + m * (-p)
    BY <1>1, <1>2, <1>3, <1>5
<1>7. wrap(a) \in -Limit .. Limit - 1
    BY <1>1, <1>2, <1>3 DEF m
<1>8. a \in -Limit .. Limit - 1 => wrap(a) = a
    BY <1>1, <1>2, <1>4
<1> QED
    BY <1>5, <1>6, <1>7, <1>8 DEF m

\* Numbers that differ by a multiple of the range are the same, wrapped.
LEMMA WrapSame ==
    ASSUME NEW a \in Int, NEW b \in Int, NEW k \in Int, b = a + (2 * Limit) * k
    PROVE  wrap(b) = wrap(a)
<1> DEFINE m == 2 * Limit
<1>1. Limit \in Nat /\ m \in Nat /\ m > 0
  <2>1. Limit \in Nat \ {0}
    BY FilterAssumption
  <2> QED
    BY <2>1
<1>2. wrap(a) = ((a + Limit) % m) - Limit /\ wrap(b) = ((b + Limit) % m) - Limit
    BY DEF wrap
<1>3. m * k \in Int /\ b = a + m * k
    BY <1>1
<1> HIDE DEF m
<1>4. b + Limit = (a + Limit) + m * k /\ a + Limit \in Int /\ b + Limit \in Int
    BY <1>1, <1>3
<1> DEFINE c == a + Limit
           e == b + Limit
<1>a. e = c + m * k /\ c \in Int /\ e \in Int
    BY <1>4
<1> HIDE DEF c, e
<1>5. e % m = c % m
    BY <1>1, <1>a, RemainderShift
<1> QED
    BY <1>2, <1>5 DEF c, e

\* Sums and differences can be wrapped at any time.
LEMMA WrapSums ==
    ASSUME NEW a \in Int, NEW b \in Int
    PROVE  /\ wrap(wrap(a) + b) = wrap(a + b)
           /\ wrap(wrap(a) + wrap(b)) = wrap(a + b)
           /\ wrap(wrap(a) - wrap(b)) = wrap(a - b)
<1> DEFINE m == 2 * Limit
<1>1. m \in Nat
    BY FilterAssumption
<1>2. PICK j \in Int : wrap(a) = a + m * j
    BY WrapIs
<1>3. PICK k \in Int : wrap(b) = b + m * k
    BY WrapIs
<1> HIDE DEF m
<1>4. /\ m * (j + k) = m * j + m * k /\ m * (j - k) = m * j - m * k
      /\ m * j \in Int /\ m * k \in Int
    BY <1>1
<1>5. /\ wrap(a) + b \in Int /\ wrap(a) + b = (a + b) + m * j
      /\ wrap(a) + wrap(b) \in Int /\ wrap(a) + wrap(b) = (a + b) + m * (j + k)
      /\ wrap(a) - wrap(b) \in Int /\ wrap(a) - wrap(b) = (a - b) + m * (j - k)
      /\ a + b \in Int /\ a - b \in Int /\ j + k \in Int /\ j - k \in Int
    BY <1>2, <1>3, <1>4
<1>6. \A x \in Int, y \in Int, i \in Int : y = x + m * i => wrap(y) = wrap(x)
    BY WrapSame DEF m
<1> QED
    BY <1>5, <1>6

\* What is added to a number may be replaced by what wraps to the same.
LEMMA WrapAdds ==
    ASSUME NEW a \in Int, NEW b \in Int, NEW c \in Int, wrap(b) = wrap(c)
    PROVE  /\ wrap(wrap(a) + b) = wrap(a + c)
           /\ wrap(b - wrap(a)) = wrap(c - a)
<1>0. wrap(a) \in Int /\ wrap(b) \in Int /\ wrap(c) \in Int
    BY WrapIs, FilterAssumption
<1>1. wrap(wrap(a) + b) = wrap(a + b) /\ wrap(wrap(a) + wrap(b)) = wrap(a + b)
    BY WrapSums
<1>2. wrap(wrap(a) + wrap(c)) = wrap(a + c)
    BY WrapSums
<1>3. wrap(wrap(b) - wrap(wrap(a))) = wrap(b - wrap(a))
    BY <1>0, WrapSums
<1>4. wrap(wrap(a)) = wrap(a)
    BY <1>0, WrapIs
<1>5. wrap(wrap(c) - wrap(a)) = wrap(c - a)
    BY WrapSums
<1> QED
    BY <1>1, <1>2, <1>3, <1>4, <1>5

\* A response without negative coefficients, whose sum is G, and whose input
\* fits even when multiplied by G, has an output that fits.
LEMMA ConvBounded ==
    ASSUME NEW p \in Responses, Positive(p), NEW G \in Int, G > 0,
           SumOver(p, Len(p)) = G, NEW f \in Signals, NEW H \in Nat,
           \A m \in Int : G * f[m] \in -H .. H - 1, NEW n \in Int
    PROVE  Conv(p, f, n) \in -H .. H - 1
<1> DEFINE l == Len(p)
           u == [k \in 1 .. l |-> p[k] * f[n + 1 - k]]
           S(k) == SumOver(p, k)
           U(k) == SumOver(u, k)
<1>1. l \in Nat /\ Conv(p, f, n) = U(l) /\ S(l) = G
    BY ConvTerms DEF Conv
<1>2. ASSUME NEW k \in 1 .. l
      PROVE  /\ p[k] \in Int /\ p[k] >= 0 /\ u[k] \in Int
             /\ (-H) * p[k] <= G * u[k] /\ G * u[k] <= (H - 1) * p[k]
  <2> DEFINE x == f[n + 1 - k]
             c == p[k]
             e == G * x
  <2>1. c \in Int /\ c >= 0 /\ x \in Int /\ c * x \in Int /\ u[k] = c * x
    BY ConvTerms DEF Positive
  <2>2. e \in Int /\ -H <= e /\ e <= H - 1
    <3>1. n + 1 - k \in Int
      OBVIOUS
    <3>2. e \in -H .. H - 1
      BY <3>1
    <3> HIDE DEF e
    <3> QED
      BY <3>2
  <2> HIDE DEF x, c, u
  <2>3. G * (c * x) = c * e
    <3>1. \A y \in Int, w \in Int : G * (y * w) = y * (G * w)
      OBVIOUS
    <3> QED
      BY <2>1, <3>1
  <2> HIDE DEF e
  <2>4. \A a \in Int, b \in Int : a <= b => a * c <= b * c /\ b * c = c * b
    <3> TAKE a \in Int, b \in Int
    <3>1. a <= b => (b - a) * c >= 0
      BY <2>1
    <3>2. (b - a) * c = b * c - a * c /\ b * c = c * b /\ a * c \in Int
          /\ b * c \in Int
      BY <2>1
    <3> QED
      BY <3>1, <3>2
  <2>5. (-H) * c <= e * c /\ e * c <= (H - 1) * c /\ e * c = c * e
    <3>1. -H \in Int /\ H - 1 \in Int
      OBVIOUS
    <3> QED
      BY <2>2, <2>4, <3>1
  <2> QED
    BY <2>1, <2>3, <2>5 DEF c
<1> HIDE DEF u
<1> DEFINE Good == {k \in Nat : k <= l =>
                (-H) * S(k) <= G * U(k) /\ G * U(k) <= (H - 1) * S(k)}
<1>3. 0 \in Good
  <2>1. S(0) = 0 /\ U(0) = 0
    BY SumNone
  <2>2. \A z : z = 0 => (-H) * z <= G * z /\ G * z <= (H - 1) * z
    OBVIOUS
  <2> HIDE DEF S, U
  <2> QED
    BY <2>1, <2>2
<1>4. ASSUME NEW k \in Nat, k \in Good PROVE k + 1 \in Good
  <2> SUFFICES ASSUME k + 1 <= l
               PROVE  /\ (-H) * S(k + 1) <= G * U(k + 1)
                      /\ G * U(k + 1) <= (H - 1) * S(k + 1)
    OBVIOUS
  <2>0. k + 1 \in 1 .. l /\ k <= l
    BY <1>1
  <2>1. \A i \in 1 .. k + 1 : p[i] \in Int /\ u[i] \in Int
    <3>1. \A i \in 1 .. k + 1 : i \in 1 .. l
      BY <1>1
    <3> QED
      BY <1>2, <3>1
  <2>2. S(k) \in Int /\ S(k + 1) = S(k) + p[k + 1]
    BY <2>1, SumSteps
  <2>3. U(k) \in Int /\ U(k + 1) = U(k) + u[k + 1]
    BY <2>1, SumSteps
  <2>4. /\ p[k + 1] \in Int /\ u[k + 1] \in Int
        /\ (-H) * p[k + 1] <= G * u[k + 1] /\ G * u[k + 1] <= (H - 1) * p[k + 1]
    BY <1>2, <2>0
  <2>5. (-H) * S(k) <= G * U(k) /\ G * U(k) <= (H - 1) * S(k)
    BY <1>4, <2>0
  <2> HIDE DEF S, U
  <2>6. \A a \in Int, g \in Int, x \in Int, y \in Int, v \in Int, w \in Int :
            a * x <= g * v /\ a * y <= g * w => a * (x + y) <= g * (v + w)
    <3> TAKE a \in Int, g \in Int, x \in Int, y \in Int, v \in Int, w \in Int
    <3>1. /\ a * (x + y) = a * x + a * y /\ g * (v + w) = g * v + g * w
          /\ a * x \in Int /\ a * y \in Int /\ g * v \in Int /\ g * w \in Int
      OBVIOUS
    <3> QED
      BY <3>1
  <2>7. -H \in Int /\ H - 1 \in Int
    OBVIOUS
  <2>8. (-H) * (S(k) + p[k + 1]) <= G * (U(k) + u[k + 1])
    BY <2>2, <2>3, <2>4, <2>5, <2>6, <2>7
  <2>9. G * (U(k) + u[k + 1]) <= (H - 1) * (S(k) + p[k + 1])
    BY <2>2, <2>3, <2>4, <2>5, <2>6, <2>7
  <2> QED
    BY <2>2, <2>3, <2>8, <2>9
<1> HIDE DEF Good
<1>5. \A k \in Nat : k \in Good
    BY <1>3, <1>4, Induction
<1>6. (-H) * G <= G * U(l) /\ G * U(l) <= (H - 1) * G
  <2>1. (-H) * S(l) <= G * U(l) /\ G * U(l) <= (H - 1) * S(l)
    <3>1. l \in Good /\ l <= l
      BY <1>1, <1>5
    <3> HIDE DEF l, S, U
    <3> QED
      BY <3>1 DEF Good
  <2>2. S(l) = G
    BY <1>1
  <2> HIDE DEF S, U
  <2> QED
    BY <2>1, <2>2
<1>7. U(l) \in Int
    BY <1>1, <1>2, SumType
<1> DEFINE v == U(l)
<1> HIDE DEF S, U
<1>8. \A a \in Int, b \in Int : a < b => a * G < b * G /\ G * b = b * G
                                         /\ a * G = G * a
  <2> TAKE a \in Int, b \in Int
  <2>1. a < b => (b - a) * G > 0
    OBVIOUS
  <2>2. (b - a) * G = b * G - a * G /\ b * G = G * b /\ a * G = G * a
        /\ a * G \in Int /\ b * G \in Int
    OBVIOUS
  <2> QED
    BY <2>1, <2>2
<1>9. v \in Int /\ -H \in Int /\ H - 1 \in Int
    BY <1>7
<1>10. (-H) * G \in Int /\ G * v \in Int /\ (H - 1) * G \in Int /\ v * G \in Int
    BY <1>9
<1>11. ~(v < -H)
  <2> SUFFICES ASSUME v < -H PROVE FALSE
    OBVIOUS
  <2>1. v * G < (-H) * G /\ v * G = G * v
    BY <1>8, <1>9
  <2> QED
    BY <1>6, <1>10, <2>1
<1>12. ~(H - 1 < v)
  <2> SUFFICES ASSUME H - 1 < v PROVE FALSE
    OBVIOUS
  <2>1. (H - 1) * G < v * G /\ G * v = v * G
    BY <1>8, <1>9
  <2> QED
    BY <1>6, <1>10, <2>1
<1>13. v \in -H .. H - 1
    BY <1>9, <1>11, <1>12
<1> QED
    BY <1>1, <1>13

\* The values that samples have, and 0 before the first.
Inputs == {x \in Causal : \A n \in Int : x[n] = 0 \/ \E i \in DOMAIN Values :
                                                        x[n] = Values[i]}

\* However far the accumulators have overflowed, what comes out of the last comb
\* fits.
LEMMA CombsFit ==
    ASSUME NEW x \in Inputs, NEW s, NEW z, Passes(x, s, z), NEW n \in Int
    PROVE  z[cic_order][n] \in -Limit .. Limit - 1
<1> DEFINE K == cic_order
           c == Cascaded(Unit)[K]
<1>1. K \in Nat /\ K \in 0 .. K /\ K - K = 0
    BY StagesType
<1>2. /\ Unit \in Responses /\ c \in Responses /\ Positive(c)
      /\ SumOver(c, Len(c)) = CicGain /\ CicGain \in Int /\ CicGain > 0
    BY UnitCascade
<1>3. Conv(Unit, z[K], n) = Conv(c, s[0], n) /\ s[0] = x
  <2>1. \A k \in 0 .. K :
            Conv(Unit, z[k], n) = Conv(Cascaded(Unit)[k], s[K - k], n)
    BY <1>2, CascadeConv
  <2>2. Conv(Unit, z[K], n) = Conv(Cascaded(Unit)[K], s[K - K], n)
    BY <1>1, <2>1
  <2> QED
    BY <1>1, <2>2 DEF Passes
<1>4. x \in Signals /\ z[K] \in Signals
    BY <1>1 DEF Inputs, Passes, Causal
<1>5. Conv(Unit, z[K], n) = z[K][n]
  <2> DEFINE u == [k \in 1 .. 1 |-> Unit[k] * z[K][n + 1 - k]]
  <2>1. z[K][n] \in Int /\ n + 1 - 1 = n
    BY <1>4 DEF Signals
  <2>2. Len(Unit) = 1 /\ Unit[1] = 1
    BY DEF Unit
  <2>3. u[1] = z[K][n]
    BY <2>1, <2>2
  <2> HIDE DEF K
  <2>4. Conv(Unit, z[K], n) = SumOver(u, 1)
    BY <2>2 DEF Conv
  <2> HIDE DEF u
  <2>5. \A i \in 1 .. 0 + 1 : u[i] \in Int
    BY <2>1, <2>3
  <2>6. SumOver(u, 0 + 1) = SumOver(u, 0) + u[0 + 1]
    BY <2>5, SumSteps
  <2> QED
    BY <2>1, <2>3, <2>4, <2>6, SumNone
<1>6. Limit \in Nat /\ Limit > 0
  <2>1. Limit \in Nat \ {0}
    BY FilterAssumption
  <2> QED
    BY <2>1
<1>7. \A m \in Int : CicGain * x[m] \in -Limit .. Limit - 1
  <2> TAKE m \in Int
  <2>1. CASE x[m] = 0
    <3>1. CicGain * 0 = 0
      BY <1>2
    <3> QED
      BY <1>6, <2>1, <3>1
  <2>2. CASE x[m] # 0
    <3>1. PICK i \in DOMAIN Values : x[m] = Values[i]
      BY <2>2 DEF Inputs
    <3>2. CicGain * Values[i] \in -Limit .. Limit - 1
      BY FilterAssumption
    <3> QED
      BY <3>1, <3>2
  <2> QED
    BY <2>1, <2>2
<1> HIDE DEF c
<1>8. Conv(c, x, n) \in -Limit .. Limit - 1
    BY <1>2, <1>4, <1>6, <1>7, ConvBounded
<1> QED
    BY <1>3, <1>5, <1>8

-----------------------------------------------------------------------------
(* The compensation filter, at the rate of the samples. *)

\* What the assumptions say of it.
LEMMA TapsType ==
    /\ Taps \in Nat /\ Taps > 0 /\ compensation_filter \in Seq(Int)
    /\ \A j \in 1 .. Taps : compensation_filter[j] \in Int
    /\ decimation_factor \in Nat /\ decimation_factor > 1
<1>1. compensation_filter \in Seq(Int) /\ compensation_filter # <<>>
    BY FilterAssumption
<1> QED
    BY <1>1, FilterAssumption DEF Taps

\* Every decimation_factor-th coefficient is one of the filter, from its end on;
\* those between are 0.
LEMMA UpsampledIs ==
    /\ Upsampled \in Responses
    /\ Len(Upsampled) = 1 + (Taps - 1) * decimation_factor
    /\ \A i \in 0 .. Taps - 1 :
        Upsampled[1 + decimation_factor * i] = compensation_filter[Taps - i]
    /\ \A i \in 0 .. Taps - 2, j \in 1 .. decimation_factor - 1 :
        Upsampled[1 + decimation_factor * i + j] = 0
<1> DEFINE R == decimation_factor
           l == 1 + (Taps - 1) * R
           e(k) == IF (k - 1) % R = 0
                   THEN compensation_filter[Taps - ((k - 1) \div R)] ELSE 0
<1>1. Taps \in Nat /\ Taps > 0 /\ R \in Nat /\ R > 1
    BY TapsType
<1>2. Upsampled = [k \in 1 .. l |-> e(k)]
    BY DEF Upsampled
<1> HIDE DEF R
<1>3. (Taps - 1) * R \in Nat /\ l \in Nat /\ l > 0 /\ R * (Taps - 1) = (Taps - 1) * R
    BY <1>1
<1>4. ASSUME NEW i \in Int, NEW j \in Int, 0 <= j, j < R
      PROVE  (R * i + j) % R = j /\ (R * i + j) \div R = i
  <2> DEFINE a == R * i + j
             q == a \div R
  <2>1. a \in Int
    BY <1>1
  <2>2. a % R = j
    <3> HIDE DEF a
    <3>1. a = R * i + j
      BY DEF a
    <3> QED
      BY <1>1, <1>4, <2>1, <3>1, RemainderIs
  <2>3. a = R * q + (a % R) /\ q \in Int
    BY <1>1, <2>1, Remainder
  <2>4. R * i \in Int /\ a = R * i + j
    BY <1>1
  <2> HIDE DEF a, q
  <2>5. R * q = R * i
    <3> DEFINE x == R * q
               y == R * i
    <3>1. x \in Int /\ y \in Int
      BY <1>1, <2>3
    <3>2. a = x + j /\ a = y + j
      BY <2>2, <2>3, <2>4
    <3> HIDE DEF x, y
    <3>3. x = y
      BY <3>1, <3>2
    <3> QED
      BY <3>3 DEF x, y
  <2>6. q = i
    <3>1. R * (q - i) = R * q - R * i
      BY <1>1, <2>3
    <3>2. \A d \in Int : d # 0 => R * d # 0
      BY <1>1
    <3>3. q - i \in Int
      BY <2>3
    <3>4. R * (q - i) = 0
      BY <2>4, <2>5, <3>1
    <3> QED
      BY <2>3, <3>2, <3>3, <3>4
  <2> QED
    BY <2>2, <2>6 DEF q, a
<1>5. ASSUME NEW k \in 1 .. l PROVE e(k) \in Int
  <2>1. CASE (k - 1) % R = 0
    <3> DEFINE q == (k - 1) \div R
    <3>1. k - 1 \in Int /\ 0 <= k - 1 /\ k - 1 <= R * (Taps - 1)
      BY <1>3
    <3>2. q \in Int /\ k - 1 = R * q
      <4>1. k - 1 = R * q + ((k - 1) % R) /\ q \in Int
        BY <1>1, <3>1, Remainder
      <4>2. R * q \in Int
        BY <1>1, <4>1
      <4> QED
        BY <2>1, <4>1, <4>2
    <3> HIDE DEF q
    <3>3. q >= 0
      <4>1. \A d \in Int : d < 0 => R * d < 0
        BY <1>1
      <4> QED
        BY <3>1, <3>2, <4>1
    <3>4. q <= Taps - 1
      <4>1. \A d \in Int : d > 0 => R * d > 0
        BY <1>1
      <4>2. R * (q - (Taps - 1)) = R * q - R * (Taps - 1) /\ q - (Taps - 1) \in Int
            /\ R * q \in Int /\ R * (Taps - 1) \in Int
        BY <1>1, <3>2
      <4> QED
        BY <1>1, <3>1, <3>2, <4>1, <4>2
    <3>5. Taps - q \in 1 .. Taps
      BY <1>1, <3>2, <3>3, <3>4
    <3>6. compensation_filter[Taps - q] \in Int
      BY <3>5, TapsType
    <3> QED
      BY <2>1, <3>6 DEF q
  <2>2. CASE (k - 1) % R # 0
    BY <2>2
  <2> QED
    BY <2>1, <2>2
<1>6. Upsampled \in Responses /\ Len(Upsampled) = l
  <2> HIDE DEF e, l
  <2> QED
    BY <1>2, <1>3, <1>5 DEF Responses
<1>7. ASSUME NEW i \in 0 .. Taps - 1
      PROVE  /\ 1 + R * i \in 1 .. l /\ R * i \in Nat
             /\ R * i <= R * (Taps - 1)
  <2>1. \A d \in Int : d >= 0 => R * d >= 0
    BY <1>1
  <2>2. /\ R * ((Taps - 1) - i) = R * (Taps - 1) - R * i
        /\ R * i \in Int /\ R * (Taps - 1) \in Int
        /\ (Taps - 1) - i \in Int /\ (Taps - 1) - i >= 0 /\ i \in Int /\ i >= 0
    BY <1>1
  <2>3. R * ((Taps - 1) - i) >= 0 /\ R * i >= 0
    BY <2>1, <2>2
  <2> QED
    BY <1>1, <1>3, <2>2, <2>3
<1>8. ASSUME NEW i \in 0 .. Taps - 1
      PROVE  Upsampled[1 + R * i] = compensation_filter[Taps - i]
  <2> DEFINE k == 1 + R * i
  <2>1. k \in 1 .. l
    BY <1>7
  <2>2. (R * i + 0) % R = 0 /\ (R * i + 0) \div R = i
    <3>1. \A j \in Int : 0 <= j /\ j < R =>
            (R * i + j) % R = j /\ (R * i + j) \div R = i
      BY <1>1, <1>4
    <3> QED
      BY <1>1, <3>1
  <2>3. k - 1 = R * i + 0
    BY <1>7
  <2> HIDE DEF k, l
  <2>4. e(k) = compensation_filter[Taps - i]
    BY <2>2, <2>3
  <2> HIDE DEF e
  <2> QED
    BY <1>2, <2>1, <2>4 DEF k
<1>9. ASSUME NEW i \in 0 .. Taps - 2, NEW j \in 1 .. R - 1
      PROVE  Upsampled[1 + R * i + j] = 0
  <2> DEFINE k == 1 + R * i + j
  <2>1. k \in 1 .. l
    <3>1. R * (i + 1) = R * i + R /\ R * i \in Nat
      BY <1>1, <1>7
    <3>2. i + 1 \in 0 .. Taps - 1
      BY <1>1
    <3>3. R * (i + 1) <= R * (Taps - 1)
      BY <1>7, <3>2
    <3> QED
      BY <1>1, <1>3, <3>1, <3>3
  <2>2. (R * i + j) % R = j
    <3>1. 0 <= j /\ j < R /\ j \in Int /\ i \in Int
      BY <1>1
    <3> QED
      BY <1>4, <3>1
  <2>3. k - 1 = R * i + j
    <3>1. R * i \in Int
      BY <1>1
    <3> QED
      BY <3>1
  <2> HIDE DEF k, l
  <2>4. e(k) = 0
    BY <2>2, <2>3
  <2> HIDE DEF e
  <2> QED
    BY <1>2, <2>1, <2>4 DEF k
<1> QED
    BY <1>6, <1>8, <1>9 DEF R

\* A filter on every decimation_factor-th value.
LEMMA ConvUpsampled ==
    ASSUME NEW f \in Signals, NEW n \in Int
    PROVE  Conv(Upsampled, f, n) =
            SumOver([j \in 1 .. Taps |->
                compensation_filter[j] * f[n - decimation_factor * (Taps - j)]],
                Taps)
<1> DEFINE R == decimation_factor
           l == Len(Upsampled)
           u == [k \in 1 .. l |-> Upsampled[k] * f[n + 1 - k]]
           w == [j \in 1 .. Taps |-> compensation_filter[j] * f[n - R * (Taps - j)]]
           v == [i \in 1 .. Taps |-> w[Taps + 1 - i]]
<1>1. Taps \in Nat /\ Taps > 0 /\ R \in Nat /\ R > 1
    BY TapsType
<1>2. l \in Nat /\ l = 1 + (Taps - 1) * R /\ Upsampled \in Responses
    BY UpsampledIs DEF Responses
<1>3. Conv(Upsampled, f, n) = SumOver(u, l)
    BY DEF Conv
<1>4. \A k \in 1 .. l : u[k] \in Int
    BY <1>2, ConvTerms
<1>5. ASSUME NEW j \in 1 .. Taps PROVE w[j] \in Int
  <2>1. n - R * (Taps - j) \in Int
    BY <1>1
  <2>2. f[n - R * (Taps - j)] \in Int /\ compensation_filter[j] \in Int
    BY <2>1, TapsType DEF Signals
  <2> QED
    BY <2>2
<1>6. ASSUME NEW i \in 0 .. Taps - 1
      PROVE  /\ i + 1 \in 1 .. Taps /\ v[i + 1] \in Int
             /\ 1 + R * i \in 1 .. l /\ u[1 + R * i] = v[i + 1]
  <2>1. i + 1 \in 1 .. Taps /\ Taps - i \in 1 .. Taps
        /\ Taps + 1 - (i + 1) = Taps - i /\ Taps - (Taps - i) = i
    BY <1>1
  <2>2. v[i + 1] = w[Taps - i]
    BY <2>1
  <2>3. w[Taps - i] = compensation_filter[Taps - i] * f[n - R * i]
    BY <2>1
  <2>4. /\ R * i \in Int /\ R * i >= 0 /\ R * i <= (Taps - 1) * R
        /\ (Taps - 1) * R \in Int
    <3>1. \A d \in Int : d >= 0 => R * d >= 0
      BY <1>1
    <3>2. /\ R * ((Taps - 1) - i) = (Taps - 1) * R - R * i
          /\ R * i \in Int /\ (Taps - 1) * R \in Int
          /\ (Taps - 1) - i \in Int /\ (Taps - 1) - i >= 0 /\ i \in Int /\ i >= 0
      BY <1>1
    <3>3. R * ((Taps - 1) - i) >= 0 /\ R * i >= 0
      BY <3>1, <3>2
    <3> QED
      BY <3>2, <3>3
  <2> DEFINE k == 1 + R * i
  <2>5. k \in 1 .. l /\ n + 1 - k = n - R * i
    BY <1>2, <2>4
  <2>6. Upsampled[k] = compensation_filter[Taps - i]
    BY UpsampledIs
  <2> HIDE DEF k, l, w, v
  <2>7. u[k] = Upsampled[k] * f[n + 1 - k]
    BY <2>5
  <2> HIDE DEF u
  <2>8. u[k] = v[i + 1]
    BY <2>2, <2>3, <2>5, <2>6, <2>7
  <2>9. v[i + 1] \in Int
    BY <1>5, <2>1, <2>2
  <2> QED
    BY <2>1, <2>5, <2>8, <2>9 DEF k
<1>7. ASSUME NEW i \in 0 .. Taps - 2, NEW j \in 1 .. R - 1
      PROVE  u[1 + R * i + j] = 0
  <2> DEFINE k == 1 + R * i + j
  <2>1. Upsampled[k] = 0
    BY UpsampledIs
  <2>2. k \in 1 .. l
    <3>1. i \in 0 .. Taps - 1 /\ i + 1 \in 0 .. Taps - 1
      BY <1>1
    <3>2. 1 + R * i \in 1 .. l /\ 1 + R * (i + 1) \in 1 .. l
      BY <1>6, <3>1
    <3>3. R * (i + 1) = R * i + R /\ R * i \in Int
      BY <1>1
    <3> HIDE DEF l
    <3> QED
      BY <1>1, <1>2, <3>2, <3>3
  <2> HIDE DEF k, l
  <2>3. u[k] = Upsampled[k] * f[n + 1 - k] /\ n + 1 - k \in Int
    BY <2>2
  <2>4. f[n + 1 - k] \in Int
    BY <2>3 DEF Signals
  <2> HIDE DEF u
  <2>5. u[k] = 0
    BY <2>1, <2>3, <2>4
  <2> QED
    BY <2>5 DEF k
<1> HIDE DEF u, v, w, l, R
<1> DEFINE Good == {i \in Nat : i <= Taps - 1 =>
                        SumOver(u, 1 + R * i) = SumOver(v, i + 1)}
<1>8. 0 \in Good
  <2>1. 0 \in 0 .. Taps - 1
    BY <1>1
  <2>2. R * 0 = 0
    BY <1>1
  <2>3. u[0 + 1] = v[0 + 1] /\ v[0 + 1] \in Int
    <3>1. \A i \in 0 .. Taps - 1 : u[1 + R * i] = v[i + 1] /\ v[i + 1] \in Int
      BY <1>6
    <3> QED
      BY <2>1, <2>2, <3>1
  <2>4. (\A i \in 1 .. 0 + 1 : u[i] \in Int) /\ \A i \in 1 .. 0 + 1 : v[i] \in Int
    BY <2>3
  <2>5. SumOver(u, 0 + 1) = SumOver(u, 0) + u[0 + 1]
        /\ SumOver(v, 0 + 1) = SumOver(v, 0) + v[0 + 1]
    BY <2>4, SumSteps
  <2>6. SumOver(u, 0 + 1) = SumOver(v, 0 + 1)
    BY <2>3, <2>5, SumNone
  <2>7. 1 + R * 0 = 0 + 1
    BY <2>2
  <2> QED
    BY <2>6, <2>7
<1>9. ASSUME NEW i \in Nat, i \in Good PROVE i + 1 \in Good
  <2> SUFFICES ASSUME i + 1 <= Taps - 1
               PROVE  SumOver(u, 1 + R * (i + 1)) = SumOver(v, (i + 1) + 1)
    OBVIOUS
  <2>1. i \in 0 .. Taps - 2 /\ i + 1 \in 0 .. Taps - 1 /\ i \in 0 .. Taps - 1
    BY <1>1
  <2> DEFINE m == 1 + R * i
             g == [j \in 1 .. R |-> u[m + j]]
  <2>2. /\ m \in Nat /\ m + R = 1 + R * (i + 1) /\ m + R \in 1 .. l
        /\ u[m + R] = v[(i + 1) + 1] /\ v[(i + 1) + 1] \in Int
    <3>1. /\ 1 + R * i \in 1 .. l /\ 1 + R * (i + 1) \in 1 .. l
          /\ u[1 + R * (i + 1)] = v[(i + 1) + 1] /\ v[(i + 1) + 1] \in Int
      BY <1>6, <2>1
    <3>2. R * (i + 1) = R * i + R /\ R * i \in Int
      BY <1>1
    <3>3. 1 + R * (i + 1) = m + R
      BY <1>1, <3>2
    <3> QED
      BY <1>2, <3>1, <3>3
  <2>3. \A j \in 1 .. R - 1 : u[m + j] = 0
    BY <1>7, <2>1
  <2> HIDE DEF m
  <2>4. \A j \in 1 .. m + R : u[j] \in Int
    BY <1>1, <1>2, <1>4, <2>2
  <2>5. SumOver(u, m + R) = SumOver(u, m) + SumOver(g, R)
    <3>1. \A j \in 1 .. R : g[j] = u[m + j]
      OBVIOUS
    <3> HIDE DEF g
    <3> QED
      BY <1>1, <2>2, <2>4, <3>1, SumSplits
  <2>6. SumOver(g, R) = v[(i + 1) + 1]
    <3> DEFINE t == R - 1
    <3>1. t \in Nat /\ t + 1 = R /\ R \in 1 .. R
      BY <1>1
    <3>2. \A j \in 1 .. t : g[j] = 0
      BY <1>1, <2>3
    <3>3. g[R] = v[(i + 1) + 1]
      BY <2>2, <3>1
    <3> HIDE DEF t, g
    <3>4. \A j \in 1 .. t + 1 : g[j] \in Int
      <4> TAKE j \in 1 .. t + 1
      <4>1. j \in 1 .. t \/ j = R
        BY <3>1
      <4> QED
        BY <2>2, <3>2, <3>3, <4>1
    <3>5. SumOver(g, t + 1) = SumOver(g, t) + g[t + 1]
      BY <3>1, <3>4, SumSteps
    <3>6. SumOver(g, t) = 0
      BY <3>1, <3>2, SumZeros
    <3> QED
      BY <2>2, <3>1, <3>3, <3>5, <3>6
  <2>7. \A j \in 1 .. (i + 1) + 1 : v[j] \in Int
    <3> TAKE j \in 1 .. (i + 1) + 1
    <3>1. j - 1 \in 0 .. Taps - 1 /\ (j - 1) + 1 = j
      BY <1>1
    <3> QED
      BY <1>6, <3>1
  <2>8. SumOver(v, (i + 1) + 1) = SumOver(v, i + 1) + v[(i + 1) + 1]
    BY <2>7, SumSteps
  <2>9. SumOver(u, m) = SumOver(v, i + 1)
    BY <1>9, <2>1 DEF m
  <2> QED
    BY <2>2, <2>5, <2>6, <2>8, <2>9
<1> HIDE DEF Good
<1>10. \A i \in Nat : i \in Good
    BY <1>8, <1>9, Induction
<1>11. SumOver(u, l) = SumOver(v, Taps)
  <2> DEFINE t == Taps - 1
  <2>1. t \in Nat /\ t <= Taps - 1 /\ t + 1 = Taps
    BY <1>1
  <2>2. 1 + R * t = l
    BY <1>1, <1>2
  <2> HIDE DEF t
  <2>3. SumOver(u, 1 + R * t) = SumOver(v, t + 1)
    BY <1>10, <2>1 DEF Good
  <2> QED
    BY <2>1, <2>2, <2>3
<1>12. SumOver(v, Taps) = SumOver(w, Taps)
  <2>1. \A j \in 1 .. Taps : w[j] \in Int /\ v[j] = w[Taps + 1 - j]
    BY <1>5 DEF v
  <2> QED
    BY <1>1, <2>1, SumReversed
<1> QED
    BY <1>3, <1>11, <1>12 DEF w, R

\* filter_length is the length of the response, half of which group_delay is.
LEMMA ResponseLength ==
    /\ Response \in Responses /\ Len(Response) = filter_length
    /\ group_delay = Len(Response) \div 2
<1> DEFINE K == cic_order
           r(k) == Cascaded(Upsampled)[k]
           g == [k \in 1 .. K |-> Delay(k) * decimation_factor - 1]
           a == 1 + (Taps - 1) * decimation_factor
<1>1. K \in Nat
    BY StagesType
<1>2. ASSUME NEW k \in 1 .. K
      PROVE  /\ Delay(k) \in Nat /\ Delay(k) > 0 /\ Boxcar(Delay(k)) \in Responses
             /\ g[k] \in Int /\ Len(Boxcar(Delay(k))) = g[k] + 1
  <2>1. Delay(k) \in Nat /\ Delay(k) > 0
    BY StagesType
  <2>2. /\ Boxcar(Delay(k)) \in Responses
        /\ Len(Boxcar(Delay(k))) = Delay(k) * decimation_factor
        /\ Delay(k) * decimation_factor \in Nat
    BY <2>1, BoxcarType
  <2>3. g[k] = Delay(k) * decimation_factor - 1
    OBVIOUS
  <2> HIDE DEF g
  <2> QED
    BY <2>1, <2>2, <2>3
<1>3. Upsampled \in Responses /\ Len(Upsampled) = a /\ a \in Int
  <2>1. (Taps - 1) * decimation_factor \in Int
    BY TapsType
  <2> QED
    BY <2>1, UpsampledIs
<1>4. filter_length = a + SumOver(g, K)
    BY DEF filter_length
<1> HIDE DEF g, a
<1>5. /\ r(0) = Upsampled
      /\ \A k \in 0 .. K : r(k) \in Responses
      /\ \A k \in 1 .. K : r(k) = times(r(k - 1), Boxcar(Delay(k)))
    BY <1>3, CascadeSteps
<1> HIDE DEF r
<1> DEFINE Good == {k \in Nat : k <= K => Len(r(k)) = a + SumOver(g, k)}
<1>6. 0 \in Good
  <2>1. SumOver(g, 0) = 0
    BY SumNone
  <2> QED
    BY <1>3, <1>5, <2>1
<1>7. ASSUME NEW k \in Nat, k \in Good PROVE k + 1 \in Good
  <2> SUFFICES ASSUME k + 1 <= K PROVE Len(r(k + 1)) = a + SumOver(g, k + 1)
    OBVIOUS
  <2>1. k + 1 \in 1 .. K /\ (k + 1) - 1 = k /\ k \in 0 .. K /\ k <= K
    BY <1>1
  <2>2. r(k + 1) = times(r(k), Boxcar(Delay(k + 1))) /\ r(k) \in Responses
    BY <1>5, <2>1
  <2>3. Len(r(k + 1)) = Len(r(k)) + Len(Boxcar(Delay(k + 1))) - 1
    BY <1>2, <2>1, <2>2, TimesType
  <2>4. Len(Boxcar(Delay(k + 1))) = g[k + 1] + 1 /\ g[k + 1] \in Int
    BY <1>2, <2>1
  <2>5. \A i \in 1 .. k + 1 : g[i] \in Int
    <3>1. \A i \in 1 .. k + 1 : i \in 1 .. K
      BY <1>1
    <3> QED
      BY <1>2, <3>1
  <2>6. SumOver(g, k + 1) = SumOver(g, k) + g[k + 1] /\ SumOver(g, k) \in Int
    BY <2>5, SumSteps
  <2>7. Len(r(k)) = a + SumOver(g, k)
    BY <1>7, <2>1
  <2> QED
    BY <1>3, <2>3, <2>4, <2>6, <2>7
<1> HIDE DEF Good
<1>8. \A k \in Nat : k \in Good
    BY <1>6, <1>7, Induction
<1>9. Len(r(K)) = a + SumOver(g, K)
    BY <1>1, <1>8 DEF Good
<1>10. Response = r(K) /\ r(K) \in Responses
    BY <1>1, <1>5 DEF Response, r
<1> QED
    BY <1>4, <1>9, <1>10 DEF group_delay

-----------------------------------------------------------------------------
(* Every input passes. *)

\* What has come from the first sample on has a sum.
LEMMA IntegralExists ==
    ASSUME NEW x \in Causal
    PROVE  \E s \in Causal : Integral(s, x)
<1> DEFINE G == [i \in Nat |-> [v \in Int |-> v + x[i + 1]]]
<1>1. x \in Signals /\ \A n \in Int : x[n] \in Int /\ (n <= 0 => x[n] = 0)
    BY DEF Causal, Signals
<1>2. G \in [Nat -> [Int -> Int]]
  <2>1. ASSUME NEW i \in Nat, NEW v \in Int PROVE v + x[i + 1] \in Int
    <3>1. x[i + 1] \in Int
      BY <1>1
    <3> QED
      BY <3>1
  <2> QED
    BY <2>1
<1>3. PICK g : Unfolds(g, Int, 0, G)
  <2> HIDE DEF G
  <2>1. \A b \in Int : \E g : Unfolds(g, Int, b, G)
    BY <1>2, Recursion
  <2> QED
    BY <2>1
<1>4. /\ g \in [Nat -> Int] /\ g[0] = 0
      /\ \A i \in Nat : g[i + 1] = G[i][g[i]]
    BY <1>3 DEF Unfolds
<1>5. ASSUME NEW i \in Nat PROVE g[i] \in Int /\ g[i + 1] = g[i] + x[i + 1]
  <2>1. g[i] \in Int /\ g[i + 1] = G[i][g[i]]
    BY <1>4
  <2> QED
    BY <2>1
<1> HIDE DEF G
<1> DEFINE s == [n \in Int |-> IF n <= 0 THEN 0 ELSE g[n]]
<1>6. ASSUME NEW n \in Int PROVE s[n] \in Int /\ (n <= 0 => s[n] = 0)
  <2>1. ~(n <= 0) => n \in Nat
    OBVIOUS
  <2> QED
    BY <1>5, <2>1
<1>7. s \in Causal
  <2>1. s = [n \in Int |-> s[n]]
    OBVIOUS
  <2> HIDE DEF s
  <2> QED
    BY <1>6, <2>1 DEF Causal, Signals
<1>8. ASSUME NEW n \in Int PROVE s[n] = s[n - 1] + x[n]
  <2>1. CASE n <= 0
    <3>1. n - 1 \in Int /\ n - 1 <= 0
      BY <2>1
    <3>2. s[n] = 0 /\ s[n - 1] = 0
      BY <1>6, <2>1, <3>1
    <3>3. x[n] = 0
      BY <1>1, <2>1
    <3> QED
      BY <3>2, <3>3
  <2>2. CASE n = 1
    <3>1. s[1] = g[1] /\ s[0] = 0 /\ g[0] = 0 /\ x[1] \in Int
      BY <1>1, <1>4
    <3>2. g[0 + 1] = g[0] + x[0 + 1]
      BY <1>5
    <3>3. 0 + 1 = 1 /\ 1 - 1 = 0
      OBVIOUS
    <3> HIDE DEF s
    <3> QED
      BY <2>2, <3>1, <3>2, <3>3
  <2>3. CASE n > 1
    <3>1. n - 1 \in Nat /\ (n - 1) + 1 = n /\ ~(n <= 0) /\ ~(n - 1 <= 0)
          /\ n - 1 \in Int
      BY <2>3
    <3>2. s[n] = g[n] /\ s[n - 1] = g[n - 1]
      BY <3>1
    <3>3. g[(n - 1) + 1] = g[n - 1] + x[(n - 1) + 1]
      BY <1>5, <3>1
    <3> QED
      BY <3>1, <3>2, <3>3
  <2> QED
    BY <2>1, <2>2, <2>3
<1> HIDE DEF s
<1>9. Integral(s, x)
    BY <1>7, <1>8 DEF Integral, Causal
<1> QED
    BY <1>7, <1>9

\* Every causal input has its way through all stages.
LEMMA PassesExist ==
    ASSUME NEW x \in Causal
    PROVE  \E s, z : Passes(x, s, z)
<1> DEFINE K == cic_order
           I == [k \in Nat |-> [f \in Causal |->
                    CHOOSE t \in Causal : Integral(t, f)]]
           dd(k) == Delay(k) * decimation_factor
           C == [k \in Nat |-> [f \in Causal |->
                    IF k + 1 <= K THEN [n \in Int |-> f[n] - f[n - dd(k + 1)]]
                    ELSE f]]
<1>1. K \in Nat
    BY StagesType
<1>2. ASSUME NEW k \in Nat, NEW f \in Causal
      PROVE  I[k][f] \in Causal /\ Integral(I[k][f], f)
  <2>1. \E t \in Causal : Integral(t, f)
    BY IntegralExists
  <2> QED
    BY <2>1
<1>3. I \in [Nat -> [Causal -> Causal]]
    BY <1>2
<1>4. ASSUME NEW k \in 1 .. K PROVE dd(k) \in Nat
  <2>1. Delay(k) \in Nat /\ Delay(k) > 0
    BY StagesType
  <2> QED
    BY <2>1, BoxcarType
<1> HIDE DEF I, dd
<1>5. ASSUME NEW k \in Nat, k + 1 <= K, NEW f \in Causal
      PROVE  [n \in Int |-> f[n] - f[n - dd(k + 1)]] \in Causal
  <2> DEFINE h == [n \in Int |-> f[n] - f[n - dd(k + 1)]]
  <2>1. k + 1 \in 1 .. K
    BY <1>1, <1>5
  <2>2. dd(k + 1) \in Nat
    BY <1>4, <2>1
  <2>3. \A n \in Int : f[n] \in Int /\ (n <= 0 => f[n] = 0)
    BY DEF Causal, Signals
  <2>4. ASSUME NEW n \in Int PROVE h[n] \in Int /\ (n <= 0 => h[n] = 0)
    <3>1. n - dd(k + 1) \in Int /\ (n <= 0 => n - dd(k + 1) <= 0)
      BY <2>2
    <3>2. h[n] = f[n] - f[n - dd(k + 1)]
      OBVIOUS
    <3> HIDE DEF h
    <3> QED
      BY <2>3, <3>1, <3>2
  <2>5. h = [n \in Int |-> h[n]]
    OBVIOUS
  <2> HIDE DEF h
  <2>6. h \in Causal
    BY <2>4, <2>5 DEF Causal, Signals
  <2> QED
    BY <2>6 DEF h
<1>6. C \in [Nat -> [Causal -> Causal]]
    BY <1>5
<1>7. \A k \in Nat, f \in Causal : k + 1 <= K =>
            C[k][f] = [n \in Int |-> f[n] - f[n - dd(k + 1)]]
    OBVIOUS
<1> HIDE DEF C, K
<1>8. PICK S : Unfolds(S, Causal, x, I)
    BY <1>3, Recursion
<1>9. S \in [Nat -> Causal] /\ S[0] = x /\ \A k \in Nat : S[k + 1] = I[k][S[k]]
    BY <1>8 DEF Unfolds
<1>10. S[K] \in Causal
    BY <1>1, <1>9
<1>11. PICK Z : Unfolds(Z, Causal, S[K], C)
    BY <1>6, <1>10, Recursion
<1>12. Z \in [Nat -> Causal] /\ Z[0] = S[K] /\ \A k \in Nat : Z[k + 1] = C[k][Z[k]]
    BY <1>11 DEF Unfolds
<1> DEFINE s == [k \in 0 .. K |-> S[k]]
           z == [k \in 0 .. K |-> Z[k]]
<1>13. s \in [0 .. K -> Causal] /\ z \in [0 .. K -> Causal]
    BY <1>9, <1>12
<1>14. s[0] = x /\ z[0] = s[K]
    BY <1>1, <1>9, <1>12
<1>15. ASSUME NEW k \in 1 .. K
       PROVE  /\ Integral(s[k], s[k - 1])
              /\ \A n \in Int : z[k][n] = z[k - 1][n] - z[k - 1][n - dd(k)]
  <2>1. k - 1 \in Nat /\ (k - 1) + 1 = k /\ k \in 0 .. K /\ k - 1 \in 0 .. K
        /\ (k - 1) + 1 <= K
    BY <1>1
  <2>2. /\ s[k] = S[k] /\ s[k - 1] = S[k - 1] /\ z[k] = Z[k]
        /\ z[k - 1] = Z[k - 1]
    BY <2>1
  <2>3. S[(k - 1) + 1] = I[k - 1][S[k - 1]] /\ S[k - 1] \in Causal
    BY <1>9, <2>1
  <2>4. Z[(k - 1) + 1] = C[k - 1][Z[k - 1]] /\ Z[k - 1] \in Causal
    BY <1>12, <2>1
  <2> HIDE DEF s, z
  <2>5. Integral(S[k], S[k - 1])
    BY <1>2, <2>1, <2>3
  <2>6. C[k - 1][Z[k - 1]]
            = [n \in Int |-> Z[k - 1][n] - Z[k - 1][n - dd((k - 1) + 1)]]
    BY <1>7, <2>1, <2>4
  <2>7. Z[k] = [n \in Int |-> Z[k - 1][n] - Z[k - 1][n - dd(k)]]
    BY <2>1, <2>4, <2>6
  <2> QED
    BY <2>2, <2>5, <2>7
<1> HIDE DEF s, z
<1>16. Passes(x, s, z)
    BY <1>13, <1>14, <1>15 DEF Passes, K, dd
<1> QED
    BY <1>16

-----------------------------------------------------------------------------
(* One sample through the integrators, one row through the combs. *)

\* What accumulate computes, stage by stage.
LEMMA AccumulateSteps ==
    ASSUME NEW v \in Int, cic_accumulators \in [1 .. cic_order -> Int]
    PROVE  \E out \in [0 .. cic_order -> Int] :
            /\ out[0] = v
            /\ \A k \in 1 .. cic_order :
                out[k] = wrap(cic_accumulators[k] + out[k - 1])
            /\ accumulate(v) = [k \in 1 .. cic_order |-> out[k]]
<1> DEFINE K == cic_order
           a == cic_accumulators
           E(r) == [k \in 0 .. K |-> IF k = 0 THEN v ELSE wrap(a[k] + r[k - 1])]
           c == CHOOSE r : r = E(r)
           G == [k \in Nat |-> [u \in Int |->
                    IF k + 1 <= K THEN wrap(a[k + 1] + u) ELSE u]]
<1>1. K \in Nat /\ a \in [1 .. K -> Int] /\ Limit \in Nat
    BY StagesType, FilterAssumption
<1>2. accumulate(v) = [k \in 1 .. K |-> c[k]]
    BY DEF accumulate
<1> HIDE DEF K, a
<1>3. G \in [Nat -> [Int -> Int]]
  <2>1. ASSUME NEW k \in Nat, k + 1 <= K, NEW u \in Int
        PROVE  wrap(a[k + 1] + u) \in Int
    <3>1. k + 1 \in 1 .. K
      BY <1>1, <2>1
    <3>2. a[k + 1] + u \in Int
      BY <1>1, <3>1
    <3>3. wrap(a[k + 1] + u) \in -Limit .. Limit - 1
      BY <3>2, WrapIs
    <3> QED
      BY <1>1, <3>3
  <2> QED
    BY <2>1
<1>4. \A k \in Nat, u \in Int : k + 1 <= K => G[k][u] = wrap(a[k + 1] + u)
    OBVIOUS
<1> HIDE DEF G
<1>5. PICK f : Unfolds(f, Int, v, G)
    BY <1>3, Recursion
<1>6. f \in [Nat -> Int] /\ f[0] = v /\ \A k \in Nat : f[k + 1] = G[k][f[k]]
    BY <1>5 DEF Unfolds
<1> DEFINE r == [k \in 0 .. K |-> f[k]]
<1>7. ASSUME NEW k \in 0 .. K PROVE r[k] = E(r)[k]
  <2>1. CASE k = 0
    BY <1>1, <1>6, <2>1
  <2>2. CASE k # 0
    <3>1. k - 1 \in Nat /\ (k - 1) + 1 = k /\ k - 1 \in 0 .. K /\ k <= K
      BY <1>1, <2>2
    <3>2. f[k] = G[k - 1][f[k - 1]] /\ f[k - 1] \in Int
      BY <1>6, <3>1
    <3>3. G[k - 1][f[k - 1]] = wrap(a[(k - 1) + 1] + f[k - 1])
      BY <1>4, <3>1, <3>2
    <3> QED
      BY <2>2, <3>1, <3>2, <3>3
  <2> QED
    BY <2>1, <2>2
<1>8. r = E(r)
    BY <1>7
<1>9. c = E(c)
  <2> HIDE DEF E, r
  <2> QED
    BY <1>8
<1> HIDE DEF c, r
<1>10. c[0] = v
    BY <1>1, <1>9
<1>11. ASSUME NEW k \in 1 .. K PROVE c[k] = wrap(a[k] + c[k - 1])
  <2>1. k \in 0 .. K /\ k # 0
    BY <1>1
  <2> QED
    BY <1>9, <2>1
<1>12. c = [k \in 0 .. K |-> c[k]]
    BY <1>9
<1> HIDE DEF E
<1> DEFINE Good == {k \in Nat : k <= K => c[k] \in Int}
<1>13. 0 \in Good
    BY <1>10
<1>14. ASSUME NEW k \in Nat, k \in Good PROVE k + 1 \in Good
  <2> SUFFICES ASSUME k + 1 <= K PROVE c[k + 1] \in Int
    OBVIOUS
  <2>1. k + 1 \in 1 .. K /\ (k + 1) - 1 = k /\ k <= K
    BY <1>1
  <2>2. c[k + 1] = wrap(a[k + 1] + c[k]) /\ c[k] \in Int /\ a[k + 1] \in Int
    BY <1>1, <1>11, <1>14, <2>1
  <2>3. wrap(a[k + 1] + c[k]) \in -Limit .. Limit - 1
    <3> DEFINE y == a[k + 1] + c[k]
    <3>1. y \in Int
      BY <2>2
    <3> HIDE DEF y
    <3>2. wrap(y) \in -Limit .. Limit - 1
      BY <3>1, WrapIs
    <3> QED
      BY <3>2 DEF y
  <2> QED
    BY <1>1, <2>2, <2>3
<1> HIDE DEF Good
<1>15. \A k \in Nat : k \in Good
    BY <1>13, <1>14, Induction
<1>16. \A k \in 0 .. K : c[k] \in Int
    BY <1>15 DEF Good
<1>17. c \in [0 .. K -> Int]
    BY <1>12, <1>16
<1> QED
    BY <1>2, <1>10, <1>11, <1>17 DEF K, a

\* What comb computes, stage by stage.
LEMMA CombedSteps ==
    ASSUME NEW row \in Int,
           \A k \in 1 .. cic_order :
                comb_histories[k][comb_history_index[Delay(k)]] \in Int
    PROVE  /\ Combed(row)[0] = row
           /\ \A k \in 0 .. cic_order : Combed(row)[k] \in Int
           /\ \A k \in 1 .. cic_order :
                Combed(row)[k] =
                    wrap(Combed(row)[k - 1]
                            - comb_histories[k][comb_history_index[Delay(k)]])
<1> DEFINE K == cic_order
           a == [k \in 1 .. K |-> comb_histories[k][comb_history_index[Delay(k)]]]
           h(k) == comb_histories[k][comb_history_index[Delay(k)]]
           E(r) == [k \in 0 .. K |-> IF k = 0 THEN row ELSE wrap(r[k - 1] - h(k))]
           c == CHOOSE r : r = E(r)
           G == [k \in Nat |-> [u \in Int |->
                    IF k + 1 <= K THEN wrap(u - h(k + 1)) ELSE u]]
<1>1. K \in Nat /\ Limit \in Nat /\ \A k \in 1 .. K : h(k) \in Int
    BY StagesType, FilterAssumption
<1>2. Combed(row) = c
    BY DEF Combed
<1> HIDE DEF K, h
<1>3. G \in [Nat -> [Int -> Int]]
  <2>1. ASSUME NEW k \in Nat, k + 1 <= K, NEW u \in Int
        PROVE  wrap(u - h(k + 1)) \in Int
    <3>1. k + 1 \in 1 .. K
      BY <1>1, <2>1
    <3>2. u - h(k + 1) \in Int
      BY <1>1, <3>1
    <3>3. wrap(u - h(k + 1)) \in -Limit .. Limit - 1
      BY <3>2, WrapIs
    <3> QED
      BY <1>1, <3>3
  <2> QED
    BY <2>1
<1>4. \A k \in Nat, u \in Int : k + 1 <= K => G[k][u] = wrap(u - h(k + 1))
    OBVIOUS
<1> HIDE DEF G
<1>5. PICK f : Unfolds(f, Int, row, G)
    BY <1>3, Recursion
<1>6. f \in [Nat -> Int] /\ f[0] = row /\ \A k \in Nat : f[k + 1] = G[k][f[k]]
    BY <1>5 DEF Unfolds
<1> DEFINE r == [k \in 0 .. K |-> f[k]]
<1>7. ASSUME NEW k \in 0 .. K PROVE r[k] = E(r)[k]
  <2>1. CASE k = 0
    BY <1>1, <1>6, <2>1
  <2>2. CASE k # 0
    <3>1. k - 1 \in Nat /\ (k - 1) + 1 = k /\ k - 1 \in 0 .. K /\ k <= K
      BY <1>1, <2>2
    <3>2. f[k] = G[k - 1][f[k - 1]] /\ f[k - 1] \in Int
      BY <1>6, <3>1
    <3>3. G[k - 1][f[k - 1]] = wrap(f[k - 1] - h((k - 1) + 1))
      BY <1>4, <3>1, <3>2
    <3> QED
      BY <2>2, <3>1, <3>2, <3>3
  <2> QED
    BY <2>1, <2>2
<1>8. r = E(r)
    BY <1>7
<1>9. c = E(c)
  <2> HIDE DEF E, r
  <2> QED
    BY <1>8
<1> HIDE DEF c, r
<1>10. c[0] = row
    BY <1>1, <1>9
<1>11. ASSUME NEW k \in 1 .. K PROVE c[k] = wrap(c[k - 1] - h(k))
  <2>1. k \in 0 .. K /\ k # 0
    BY <1>1
  <2> QED
    BY <1>9, <2>1
<1> HIDE DEF E
<1> DEFINE Good == {k \in Nat : k <= K => c[k] \in Int}
<1>13. 0 \in Good
    BY <1>10
<1>14. ASSUME NEW k \in Nat, k \in Good PROVE k + 1 \in Good
  <2> SUFFICES ASSUME k + 1 <= K PROVE c[k + 1] \in Int
    OBVIOUS
  <2>1. k + 1 \in 1 .. K /\ (k + 1) - 1 = k /\ k <= K
    BY <1>1
  <2>2. c[k + 1] = wrap(c[k] - h(k + 1)) /\ c[k] \in Int /\ h(k + 1) \in Int
    BY <1>1, <1>11, <1>14, <2>1
  <2>3. wrap(c[k] - h(k + 1)) \in -Limit .. Limit - 1
    BY <2>2, WrapIs
  <2> QED
    BY <1>1, <2>2, <2>3
<1> HIDE DEF Good
<1>15. \A k \in Nat : k \in Good
    BY <1>13, <1>14, Induction
<1>16. \A k \in 0 .. K : c[k] \in Int
    BY <1>15 DEF Good
<1> QED
    BY <1>2, <1>10, <1>11, <1>16 DEF K, h

-----------------------------------------------------------------------------
(* Histories. *)

\* h holds the last d values of f before time m.
DelayLine(h, d, f, m) ==
    /\ h \in [0 .. d - 1 -> Int]
    /\ \A j \in m - d .. m - 1 : h[j % d] = f[j]

\* The place to write to has the oldest value, and writing there moves on.
LEMMA DelayLineStep ==
    ASSUME NEW d \in Nat, d > 0, NEW f \in Signals, NEW m \in Nat, NEW h,
           DelayLine(h, d, f, m)
    PROVE  /\ m % d \in 0 .. d - 1 /\ h[m % d] = f[m - d]
           /\ DelayLine([h EXCEPT ![m % d] = f[m]], d, f, m + 1)
<1> DEFINE r == m % d
           q == m \div d
           g == [h EXCEPT ![r] = f[m]]
<1>1. r \in Int /\ 0 <= r /\ r < d /\ q \in Int /\ m = d * q + r
    BY Remainder
<1>2. h \in [0 .. d - 1 -> Int] /\ \A j \in m - d .. m - 1 : h[j % d] = f[j]
    BY DEF DelayLine
<1>3. (m - d) % d = r
  <2> DEFINE k == -1
             b == m - d
  <2>1. k \in Int /\ b \in Int /\ b = m + d * k /\ m \in Int
    OBVIOUS
  <2> HIDE DEF k, b, r, q, g
  <2>2. b % d = m % d
    BY <2>1, RemainderShift
  <2> QED
    BY <2>2 DEF b, r
<1>4. m - d \in m - d .. m - 1
    OBVIOUS
<1>5. h[r] = f[m - d]
    BY <1>2, <1>3, <1>4
<1>6. f[m] \in Int
    BY DEF Signals
<1>7. g \in [0 .. d - 1 -> Int]
    BY <1>2, <1>6
<1>8. ASSUME NEW j \in (m + 1) - d .. (m + 1) - 1 PROVE g[j % d] = f[j]
  <2>1. CASE j = m
    <3>1. r \in 0 .. d - 1
      BY <1>1
    <3>2. g[r] = f[m]
      BY <1>2, <3>1
    <3> QED
      BY <2>1, <3>2
  <2>2. CASE j # m
    <3> DEFINE t == j % d
               p == j \div d
    <3>1. j \in Int /\ j \in m - d .. m - 1 /\ m - j > 0 /\ m - j < d
      BY <2>2
    <3>2. t \in Int /\ 0 <= t /\ t < d /\ p \in Int /\ j = d * p + t
      BY <3>1, Remainder
    <3>3. t # r
      <4> SUFFICES ASSUME t = r PROVE FALSE
        OBVIOUS
      <4>0. d * (q - p) = d * q - d * p /\ d * q \in Int /\ d * p \in Int
        BY <1>1, <3>2
      <4> DEFINE x == d * q
                 y == d * p
      <4>1. x \in Int /\ y \in Int /\ m = x + r /\ j = y + t /\ d * (q - p) = x - y
        BY <1>1, <3>2, <4>0
      <4> HIDE DEF x, y, r, t, q, p
      <4>2. m - j = d * (q - p)
        BY <1>1, <4>1
      <4>3. \A e \in Int : ~(d * e > 0 /\ d * e < d)
        <5> TAKE e \in Int
        <5>1. e >= 1 => d * e >= d
          <6>1. e >= 1 => d * (e - 1) >= 0
            OBVIOUS
          <6>2. d * (e - 1) = d * e - d /\ d * e \in Int
            OBVIOUS
          <6> QED
            BY <6>1, <6>2
        <5>2. e <= 0 => d * e <= 0
          OBVIOUS
        <5> QED
          BY <5>1, <5>2
      <4>4. q - p \in Int
        BY <1>1, <3>2
      <4> QED
        BY <3>1, <4>2, <4>3, <4>4
    <3>4. h[t] = f[j]
      BY <1>2, <3>1
    <3>5. t \in 0 .. d - 1
      BY <3>2
    <3> HIDE DEF t, r
    <3>6. g[t] = h[t]
      BY <1>2, <3>3, <3>5
    <3> QED
      BY <3>4, <3>6 DEF t
  <2> QED
    BY <2>1, <2>2
<1>9. DelayLine(g, d, f, m + 1)
  <2> HIDE DEF g
  <2> QED
    BY <1>7, <1>8 DEF DelayLine
<1> QED
    BY <1>1, <1>5, <1>9

\* Where the next value goes.
LEMMA CycleIs ==
    ASSUME NEW d \in Nat, d > 0, NEW m \in Nat
    PROVE  cycle(m % d, d) = (m + 1) % d
<1> DEFINE r == m % d
           q == m \div d
           n == m + 1
<1>1. r \in Int /\ 0 <= r /\ r < d /\ q \in Int /\ m = d * q + r
    BY Remainder
<1>2. n \in Int /\ n = d * q + (r + 1) /\ d * q \in Int /\ r + 1 \in Int
    BY <1>1
<1>3. CASE r + 1 >= d
  <2> DEFINE k == q + 1
  <2>1. k \in Int /\ d * k = d * q + d
    BY <1>1
  <2>2. n = d * k + 0
    BY <1>1, <1>2, <1>3, <2>1
  <2>3. cycle(r, d) = 0
    BY <1>3 DEF cycle
  <2> HIDE DEF n, k, r
  <2>4. \A z \in Int : 0 <= z /\ z < d /\ n = d * k + z => n % d = z
    BY <1>2, <2>1, RemainderIs
  <2>5. n % d = 0
    BY <2>2, <2>4
  <2> QED
    BY <2>3, <2>5 DEF r, n
<1>4. CASE ~(r + 1 >= d)
  <2> DEFINE k == r + 1
  <2>1. 0 <= k /\ k < d /\ k \in Int
    BY <1>1, <1>4
  <2>2. cycle(r, d) = k
    BY <1>4 DEF cycle
  <2>3. n = d * q + k
    BY <1>2
  <2> HIDE DEF n, k, r, q
  <2>4. n % d = k
    BY <1>1, <1>2, <2>1, <2>3, RemainderIs
  <2> QED
    BY <2>2, <2>4 DEF r, n
<1> QED
    BY <1>3, <1>4

-----------------------------------------------------------------------------
(* The state of the filters, from the exact signals. *)

\* The wrapped values of f at the times of the rows.
Decimated(f) == [j \in Int |-> wrap(f[decimation_factor * (j + 1)])]

LEMMA DecimatedType ==
    ASSUME NEW f \in Signals, NEW j \in Int
    PROVE  /\ Decimated(f) \in Signals
           /\ f[decimation_factor * (j + 1)] \in Int
           /\ Decimated(f)[j] = wrap(f[decimation_factor * (j + 1)])
<1>1. ASSUME NEW i \in Int
      PROVE  /\ f[decimation_factor * (i + 1)] \in Int
             /\ wrap(f[decimation_factor * (i + 1)]) \in Int
  <2> DEFINE t == decimation_factor * (i + 1)
             y == f[t]
  <2>1. t \in Int
    BY TapsType
  <2> HIDE DEF t
  <2>2. y \in Int
    BY <2>1 DEF Signals
  <2> HIDE DEF y
  <2>3. wrap(y) \in -Limit .. Limit - 1
    BY <2>2, WrapIs
  <2>4. wrap(y) \in Int
    BY <2>3, FilterAssumption
  <2> QED
    BY <2>2, <2>4 DEF y, t
<1> QED
  BY <1>1 DEF Decimated, Signals

\* What the accumulators hold after n samples.
Integrated(s, n) == [k \in 1 .. cic_order |-> wrap(s[k][n])]

\* The filters after n samples and m rows.
FilterHolds(s, z, n, m) ==
    /\ cic_accumulators = Integrated(s, n)
    /\ \A k \in 1 .. cic_order :
        DelayLine(comb_histories[k], Delay(k), Decimated(z[k - 1]), m)
    /\ comb_history_index = [order \in DOMAIN comb_orders |-> m % order]
    /\ DelayLine(filter_buffer, Taps, Decimated(z[cic_order]), m)
    /\ filter_index = m % Taps

\* What the signals are.
LEMMA PassesType ==
    ASSUME NEW x, NEW s, NEW z, Passes(x, s, z)
    PROVE  /\ \A k \in 0 .. cic_order : s[k] \in Causal /\ z[k] \in Causal
           /\ \A k \in 0 .. cic_order : s[k] \in Signals /\ z[k] \in Signals
           /\ \A k \in 0 .. cic_order, n \in Int : s[k][n] \in Int /\ z[k][n] \in Int
           /\ s[0] = x /\ z[0] = s[cic_order]
<1>1. /\ \A k \in 0 .. cic_order : s[k] \in Causal /\ z[k] \in Causal
      /\ s[0] = x /\ z[0] = s[cic_order]
    BY DEF Passes
<1>2. \A k \in 0 .. cic_order : s[k] \in Signals /\ z[k] \in Signals
    BY <1>1 DEF Causal
<1>3. \A k \in 0 .. cic_order, n \in Int : s[k][n] \in Int /\ z[k][n] \in Int
    BY <1>2 DEF Signals
<1> QED
    BY <1>1, <1>2, <1>3

\* Before the first sample.
LEMMA FilterStarts ==
    ASSUME NEW x, NEW s, NEW z, Passes(x, s, z), InitFilters
    PROVE  FilterHolds(s, z, 0, 0)
<1> DEFINE K == cic_order
<1>0. PICK o \in Nat : o = 0
    OBVIOUS
<1>1. K \in Nat /\ \A k \in 1 .. K : Delay(k) \in Nat /\ Delay(k) > 0
    BY StagesType
<1>2. wrap(0) = 0
  <2>1. Limit \in Nat /\ Limit > 0
    <3>1. Limit \in Nat \ {0}
      BY FilterAssumption
    <3> QED
      BY <3>1
  <2>2. \A a \in Int : a \in -Limit .. Limit - 1 => wrap(a) = a
    BY WrapIs
  <2>3. 0 \in -Limit .. Limit - 1
    BY <2>1
  <2> QED
    BY <2>2, <2>3
<1>3. ASSUME NEW k \in 0 .. K, NEW n \in Int, n <= 0
      PROVE  s[k][n] = 0 /\ z[k][n] = 0
    BY <1>3, PassesType DEF Causal
<1>4. ASSUME NEW k \in 0 .. K, NEW j \in Int, j < 0
      PROVE  Decimated(z[k])[j] = 0
  <2> DEFINE t == decimation_factor * (j + 1)
  <2>1. t \in Int /\ t <= 0
    <3>1. \A d \in Int : d <= 0 => decimation_factor * d <= 0
      BY TapsType
    <3> QED
      BY <1>4, <3>1, TapsType
  <2>2. Decimated(z[k])[j] = wrap(z[k][t])
    BY DecimatedType, PassesType
  <2> HIDE DEF t
  <2> QED
    BY <1>2, <1>3, <2>1, <2>2
<1>5. ASSUME NEW d \in Nat, d > 0, NEW h, h = [i \in 0 .. d - 1 |-> 0],
             NEW k \in 0 .. K
      PROVE  DelayLine(h, d, Decimated(z[k]), 0)
  <2>1. h \in [0 .. d - 1 -> Int]
    BY <1>5
  <2>2. ASSUME NEW j \in 0 - d .. 0 - 1 PROVE h[j % d] = Decimated(z[k])[j]
    <3>1. j \in Int /\ j < 0
      BY <1>5
    <3>2. j % d \in 0 .. d - 1
      BY <1>5, <3>1
    <3> QED
      BY <1>4, <1>5, <3>1, <3>2
  <2> QED
    BY <2>1, <2>2 DEF DelayLine
<1>6. cic_accumulators = [k \in 1 .. K |-> wrap(s[k][0])]
  <2>1. cic_accumulators = [k \in 1 .. K |-> 0]
    BY DEF InitFilters
  <2>2. \A k \in 1 .. K : wrap(s[k][0]) = 0
    <3> TAKE k \in 1 .. K
    <3>1. k \in 0 .. K
      BY <1>1
    <3>2. s[k][0] = 0
      BY <1>3, <3>1
    <3> QED
      BY <1>2, <3>2
  <2> QED
    BY <2>1, <2>2
<1>7. ASSUME NEW k \in 1 .. K
      PROVE  DelayLine(comb_histories[k], Delay(k), Decimated(z[k - 1]), 0)
  <2>1. comb_histories[k] = [i \in 0 .. Delay(k) - 1 |-> 0]
    BY DEF InitFilters
  <2>2. k - 1 \in 0 .. K
    BY <1>1
  <2> QED
    BY <1>1, <1>5, <2>1, <2>2
<1>8. ASSUME NEW d \in Nat, d > 0 PROVE 0 % d = 0
    BY <1>8
<1>9. comb_history_index = [order \in DOMAIN comb_orders |-> 0 % order]
  <2>1. comb_history_index = [order \in DOMAIN comb_orders |-> 0]
    BY DEF InitFilters
  <2>2. \A order \in DOMAIN comb_orders : order \in Nat /\ order > 0
    BY FilterAssumption
  <2> QED
    BY <1>8, <2>1, <2>2
<1>10. DelayLine(filter_buffer, Taps, Decimated(z[K]), 0)
  <2>1. filter_buffer = [j \in 0 .. Taps - 1 |-> 0]
    BY DEF InitFilters
  <2>2. K \in 0 .. K
    BY <1>1
  <2> QED
    BY <1>5, <2>1, <2>2, TapsType
<1>11. filter_index = 0 % Taps
    BY <1>8, TapsType DEF InitFilters
<1> QED
    BY <1>6, <1>7, <1>9, <1>10, <1>11 DEF FilterHolds, Integrated

\* One sample more.
LEMMA AccumulateHolds ==
    ASSUME NEW x, NEW s, NEW z, Passes(x, s, z), NEW n \in Nat,
           cic_accumulators = Integrated(s, n), NEW v \in Int, v = x[n + 1]
    PROVE  accumulate(v) = Integrated(s, n + 1)
<1> DEFINE K == cic_order
<1> USE DEF Integrated
<1>1. K \in Nat /\ n + 1 \in Int /\ (n + 1) - 1 = n /\ n \in Int
    BY StagesType
<1>2. \A k \in 0 .. K, i \in Int : s[k][i] \in Int
    BY PassesType
<1>3. cic_accumulators \in [1 .. K -> Int]
  <2>1. \A k \in 1 .. K : wrap(s[k][n]) \in Int
    <3> TAKE k \in 1 .. K
    <3> DEFINE y == s[k][n]
    <3>1. k \in 0 .. K
      BY <1>1
    <3>2. y \in Int
      BY <1>1, <1>2, <3>1
    <3> HIDE DEF y
    <3>3. wrap(y) \in -Limit .. Limit - 1
      BY <3>2, WrapIs
    <3>4. wrap(y) \in Int
      BY <3>3, FilterAssumption
    <3> QED
      BY <3>4 DEF y
  <2> QED
    BY <2>1
<1>4. PICK out \in [0 .. K -> Int] :
        /\ out[0] = v
        /\ \A k \in 1 .. K : out[k] = wrap(cic_accumulators[k] + out[k - 1])
        /\ accumulate(v) = [k \in 1 .. K |-> out[k]]
    BY <1>3, AccumulateSteps
<1> DEFINE Good == {k \in Nat : k <= K => wrap(out[k]) = wrap(s[k][n + 1])}
<1>5. 0 \in Good
  <2>1. s[0][n + 1] = v
    BY PassesType
  <2> QED
    BY <1>4, <2>1
<1>6. ASSUME NEW k \in 1 .. K, wrap(out[k - 1]) = wrap(s[k - 1][n + 1])
      PROVE  out[k] = wrap(s[k][n + 1])
  <2> DEFINE a == s[k][n]
             b == out[k - 1]
             c == s[k - 1][n + 1]
  <2>1. k \in 0 .. K /\ k - 1 \in 0 .. K
    BY <1>1
  <2>2. a \in Int /\ b \in Int /\ c \in Int
    BY <1>1, <1>2, <1>4, <2>1
  <2>3. Integral(s[k], s[k - 1])
    BY DEF Passes
  <2>4. s[k][n + 1] = a + c
    <3>1. s[k][n + 1] = s[k][(n + 1) - 1] + s[k - 1][n + 1]
      BY <1>1, <2>3 DEF Integral
    <3> QED
      BY <1>1, <3>1
  <2>5. out[k] = wrap(cic_accumulators[k] + b) /\ cic_accumulators[k] = wrap(a)
    BY <1>4
  <2>6. wrap(b) = wrap(c)
    BY <1>6
  <2> HIDE DEF a, b, c
  <2>7. wrap(wrap(a) + b) = wrap(a + c)
    BY <2>2, <2>6, WrapAdds
  <2> QED
    BY <2>4, <2>5, <2>7
<1>7. ASSUME NEW k \in 0 .. K PROVE wrap(wrap(s[k][n + 1])) = wrap(s[k][n + 1])
  <2> DEFINE y == s[k][n + 1]
  <2>1. y \in Int
    BY <1>1, <1>2
  <2> HIDE DEF y
  <2>2. wrap(y) \in -Limit .. Limit - 1
    BY <2>1, WrapIs
  <2> DEFINE w == wrap(y)
  <2>3. w \in Int /\ w \in -Limit .. Limit - 1
    BY <2>2, FilterAssumption
  <2> HIDE DEF w
  <2>4. wrap(w) = w
    BY <2>3, WrapIs
  <2> QED
    BY <2>4 DEF w, y
<1>8. ASSUME NEW k \in Nat, k \in Good PROVE k + 1 \in Good
  <2> SUFFICES ASSUME k + 1 <= K
               PROVE  wrap(out[k + 1]) = wrap(s[k + 1][n + 1])
    OBVIOUS
  <2>1. k + 1 \in 1 .. K /\ k + 1 \in 0 .. K /\ (k + 1) - 1 = k /\ k <= K
    BY <1>1
  <2>2. wrap(out[k]) = wrap(s[k][n + 1])
    BY <1>8, <2>1
  <2>3. out[k + 1] = wrap(s[k + 1][n + 1])
    BY <1>6, <2>1, <2>2
  <2> QED
    BY <1>7, <2>1, <2>3
<1> HIDE DEF Good
<1>9. \A k \in Nat : k \in Good
    BY <1>5, <1>8, Induction
<1>10. ASSUME NEW k \in 1 .. K PROVE out[k] = wrap(s[k][n + 1])
  <2>1. k - 1 \in Nat /\ k - 1 <= K
    BY <1>1
  <2>2. wrap(out[k - 1]) = wrap(s[k - 1][n + 1])
    BY <1>9, <2>1 DEF Good
  <2> QED
    BY <1>6, <2>2
<1> QED
    BY <1>4, <1>10

\* What comes out of each comb.
LEMMA CombHolds ==
    ASSUME NEW x, NEW s, NEW z, Passes(x, s, z), NEW n \in Nat, NEW m \in Nat,
           FilterHolds(s, z, n, m), NEW row \in Int,
           row = wrap(z[0][decimation_factor * (m + 1)])
    PROVE  /\ \A k \in 1 .. cic_order :
                /\ comb_history_index[Delay(k)] = m % Delay(k)
                /\ comb_histories[k][m % Delay(k)]
                        = Decimated(z[k - 1])[m - Delay(k)]
           /\ \A k \in 0 .. cic_order : Combed(row)[k] = Decimated(z[k])[m]
<1> DEFINE K == cic_order
           R == decimation_factor
           t == R * (m + 1)
<1>1. K \in Nat /\ m \in Int /\ R \in Nat /\ t \in Int
    BY StagesType, TapsType
<1>2. \A k \in 0 .. K : z[k] \in Signals
    BY PassesType
<1>3. ASSUME NEW k \in 1 .. K
      PROVE  /\ Delay(k) \in DOMAIN comb_orders /\ Delay(k) \in Nat /\ Delay(k) > 0
             /\ comb_history_index[Delay(k)] = m % Delay(k)
             /\ Decimated(z[k - 1]) \in Signals
             /\ comb_histories[k][m % Delay(k)]
                    = Decimated(z[k - 1])[m - Delay(k)]
  <2>1. Delay(k) \in DOMAIN comb_orders /\ Delay(k) \in Nat /\ Delay(k) > 0
    BY StagesType
  <2>2. k - 1 \in 0 .. K
    BY <1>1
  <2>3. Decimated(z[k - 1]) \in Signals
    BY <1>1, <1>2, <2>2, DecimatedType
  <2>4. DelayLine(comb_histories[k], Delay(k), Decimated(z[k - 1]), m)
    BY DEF FilterHolds
  <2>5. comb_histories[k][m % Delay(k)] = Decimated(z[k - 1])[m - Delay(k)]
    BY <2>1, <2>3, <2>4, DelayLineStep
  <2>6. comb_history_index[Delay(k)] = m % Delay(k)
    BY <2>1 DEF FilterHolds
  <2> QED
    BY <2>1, <2>3, <2>5, <2>6
<1>4. \A k \in 1 .. K : comb_histories[k][comb_history_index[Delay(k)]] \in Int
  <2> TAKE k \in 1 .. K
  <2>1. m - Delay(k) \in Int
    BY <1>1, <1>3
  <2>2. Decimated(z[k - 1])[m - Delay(k)] \in Int
    BY <1>3, <2>1 DEF Signals
  <2> QED
    BY <1>3, <2>2
<1>5. /\ Combed(row)[0] = row
      /\ \A k \in 1 .. K :
            Combed(row)[k] = wrap(Combed(row)[k - 1]
                        - comb_histories[k][comb_history_index[Delay(k)]])
    BY <1>4, CombedSteps
<1> DEFINE c == Combed(row)
           Good == {k \in Nat : k <= K => c[k] = Decimated(z[k])[m]}
<1> HIDE DEF c
<1>6. 0 \in Good
  <2>1. 0 \in 0 .. K
    BY <1>1
  <2>2. \A k \in 0 .. K : Decimated(z[k])[m] = wrap(z[k][R * (m + 1)])
    BY <1>1, <1>2, DecimatedType
  <2> QED
    BY <1>5, <2>1, <2>2 DEF c
<1>7. ASSUME NEW k \in Nat, k \in Good PROVE k + 1 \in Good
  <2> SUFFICES ASSUME k + 1 <= K PROVE c[k + 1] = Decimated(z[k + 1])[m]
    OBVIOUS
  <2> DEFINE d == Delay(k + 1)
             u == R * ((m - d) + 1)
             a == z[k][t]
             b == z[k][u]
  <2>1. /\ k + 1 \in 1 .. K /\ (k + 1) - 1 = k /\ k <= K /\ k \in 0 .. K
        /\ k + 1 \in 0 .. K
    BY <1>1
  <2>2. d \in Nat /\ m - d \in Int
    BY <1>1, <1>3, <2>1
  <2>3. t - d * R = u /\ u \in Int
    <3>1. R * ((m - d) + 1) = R * (m + 1) - R * d /\ R * d = d * R
          /\ R * (m + 1) \in Int /\ d * R \in Int
      BY <1>1, <2>2
    <3> QED
      BY <3>1
  <2>4. a \in Int /\ b \in Int
    BY <1>1, <2>1, <2>3, PassesType
  <2>5. z[k + 1][t] = a - b
    <3>1. z[k + 1][t] = z[(k + 1) - 1][t] - z[(k + 1) - 1][t - d * R]
      BY <1>1, <2>1 DEF Passes
    <3> QED
      BY <2>1, <2>3, <3>1
  <2>6. c[k] = wrap(a)
    <3>1. c[k] = Decimated(z[k])[m]
      BY <1>7, <2>1
    <3>2. Decimated(z[k])[m] = wrap(a)
      BY <1>1, <1>2, <2>1, DecimatedType
    <3> QED
      BY <3>1, <3>2
  <2>7. comb_histories[k + 1][comb_history_index[d]] = wrap(b)
    <3>1. comb_histories[k + 1][comb_history_index[d]]
                = Decimated(z[(k + 1) - 1])[m - d]
      BY <1>3, <2>1
    <3>2. Decimated(z[k])[m - d] = wrap(b)
      BY <1>2, <2>1, <2>2, DecimatedType
    <3> QED
      BY <2>1, <3>1, <3>2
  <2>8. c[k + 1] = wrap(c[(k + 1) - 1]
                            - comb_histories[k + 1][comb_history_index[d]])
    BY <1>5, <2>1 DEF c
  <2>9. Decimated(z[k + 1])[m] = wrap(z[k + 1][t])
    BY <1>1, <1>2, <2>1, DecimatedType
  <2> HIDE DEF a, b, t, u, d
  <2>10. wrap(wrap(a) - wrap(b)) = wrap(a - b)
    BY <2>4, WrapSums
  <2> QED
    BY <2>1, <2>5, <2>6, <2>7, <2>8, <2>9, <2>10
<1> HIDE DEF Good
<1>8. \A k \in Nat : k \in Good
    BY <1>6, <1>7, Induction
<1>9. \A k \in 0 .. K : c[k] = Decimated(z[k])[m]
    BY <1>1, <1>8 DEF Good
<1> QED
    BY <1>3, <1>9 DEF c

\* A sample that completes no row, ...
LEMMA SampleHolds ==
    ASSUME NEW x, NEW s, NEW z, Passes(x, s, z), NEW n \in Nat, NEW m \in Nat,
           FilterHolds(s, z, n, m), NEW v \in Int, v = x[n + 1],
           cic_accumulators' = accumulate(v),
           UNCHANGED <<comb_histories, comb_history_index,
                       filter_buffer, filter_index>>
    PROVE  FilterHolds(s, z, n + 1, m)'
<1>1. cic_accumulators = Integrated(s, n)
    BY DEF FilterHolds
<1>2. accumulate(v) = Integrated(s, n + 1)
    BY <1>1, AccumulateHolds
<1> QED
    BY <1>2 DEF FilterHolds

\* ... and one that does.
LEMMA RowHolds ==
    ASSUME NEW x, NEW s, NEW z, Passes(x, s, z), NEW n \in Nat, NEW m \in Nat,
           FilterHolds(s, z, n, m), NEW v \in Int, v = x[n + 1],
           n + 1 = decimation_factor * (m + 1),
           cic_accumulators' = accumulate(v),
           comb(cic_accumulators'[cic_order])
    PROVE  FilterHolds(s, z, n + 1, m + 1)'
<1> DEFINE K == cic_order
           row == wrap(s[K][n + 1])
           w == Combed(row)
<1>1. K \in Nat /\ K > 0 /\ K \in 0 .. K /\ K \in 1 .. K
    BY StagesType
<1>2. cic_accumulators' = Integrated(s, n + 1)
  <2>1. cic_accumulators = Integrated(s, n)
    BY DEF FilterHolds
  <2> QED
    BY <2>1, AccumulateHolds
<1>3. cic_accumulators'[K] = row
    BY <1>1, <1>2 DEF Integrated
<1>4. row \in Int /\ row = wrap(z[0][decimation_factor * (m + 1)])
  <2>1. z[0] = s[K] /\ s[K][n + 1] \in Int
    BY <1>1, PassesType
  <2> DEFINE y == s[K][n + 1]
  <2> HIDE DEF y
  <2>2. wrap(y) \in -Limit .. Limit - 1
    BY <2>1, WrapIs DEF y
  <2>3. wrap(y) \in Int
    BY <2>2, FilterAssumption
  <2> QED
    BY <2>1, <2>3 DEF y
<1> HIDE DEF row
<1>5. /\ \A k \in 1 .. K :
            /\ comb_history_index[Delay(k)] = m % Delay(k)
            /\ comb_histories[k][m % Delay(k)]
                    = Decimated(z[k - 1])[m - Delay(k)]
      /\ \A k \in 0 .. K : w[k] = Decimated(z[k])[m]
    BY <1>4, CombHolds
<1>6. /\ comb_histories' =
            [k \in 1 .. K |->
                [comb_histories[k] EXCEPT
                    ![comb_history_index[Delay(k)]] = w[k - 1]]]
      /\ comb_history_index' =
            [order \in DOMAIN comb_orders |->
                cycle(comb_history_index[order], order)]
      /\ filter_buffer' = [filter_buffer EXCEPT ![filter_index] = w[K]]
      /\ filter_index' = cycle(filter_index, Taps)
  <2> HIDE DEF w
  <2>1. comb(row)
    BY <1>3
  <2> QED
    BY <2>1 DEF comb, w
<1> HIDE DEF w
<1>7. ASSUME NEW k \in 1 .. K
      PROVE  DelayLine(comb_histories'[k], Delay(k), Decimated(z[k - 1]), m + 1)
  <2> DEFINE h == comb_histories[k]
             f == Decimated(z[k - 1])
             d == Delay(k)
  <2>1. k - 1 \in 0 .. K
    BY <1>1
  <2>2. f \in Signals
    <3>1. z[k - 1] \in Signals
      BY <2>1, PassesType
    <3> QED
      BY <3>1, DecimatedType
  <2>3. d \in Nat /\ d > 0
    BY StagesType
  <2>4. comb_histories'[k] = [h EXCEPT ![m % d] = f[m]]
    BY <1>5, <1>6, <2>1
  <2>5. DelayLine(h, d, f, m)
    BY DEF FilterHolds
  <2> HIDE DEF h, d, f
  <2>6. DelayLine([h EXCEPT ![m % d] = f[m]], d, f, m + 1)
    BY <2>2, <2>3, <2>5, DelayLineStep
  <2> QED
    BY <2>4, <2>6 DEF d, f
<1>8. comb_history_index' = [order \in DOMAIN comb_orders |-> (m + 1) % order]
  <2>1. \A order \in DOMAIN comb_orders :
            cycle(comb_history_index[order], order) = (m + 1) % order
    <3> TAKE order \in DOMAIN comb_orders
    <3>1. order \in Nat /\ order > 0
      BY FilterAssumption
    <3>2. comb_history_index[order] = m % order
      BY DEF FilterHolds
    <3> QED
      BY <3>1, <3>2, CycleIs
  <2> QED
    BY <1>6, <2>1
<1>9. DelayLine(filter_buffer', Taps, Decimated(z[K]), m + 1)
  <2> DEFINE f == Decimated(z[K])
  <2>1. f \in Signals
    <3>1. z[K] \in Signals
      BY <1>1, PassesType
    <3> QED
      BY <3>1, DecimatedType
  <2>2. filter_buffer' = [filter_buffer EXCEPT ![m % Taps] = f[m]]
    BY <1>1, <1>5, <1>6 DEF FilterHolds
  <2>3. DelayLine(filter_buffer, Taps, f, m)
    BY DEF FilterHolds
  <2>4. Taps \in Nat /\ Taps > 0
    BY TapsType
  <2> HIDE DEF f
  <2>5. \A h : DelayLine(h, Taps, f, m) =>
            DelayLine([h EXCEPT ![m % Taps] = f[m]], Taps, f, m + 1)
    BY <2>1, <2>4, DelayLineStep
  <2> QED
    BY <2>2, <2>3, <2>5 DEF f
<1>10. filter_index' = (m + 1) % Taps
    BY <1>6, CycleIs, TapsType DEF FilterHolds
<1> QED
    BY <1>2, <1>7, <1>8, <1>9, <1>10 DEF FilterHolds

\* The filtered value is a convolution with the whole response, ...
LEMMA OutputIs ==
    ASSUME NEW x \in Inputs, NEW s, NEW z, Passes(x, s, z), NEW m \in Nat,
           NEW h, DelayLine(h, Taps, Decimated(z[cic_order]), m)
    PROVE  filter_output(m % Taps, h) =
                truncate(Conv(Response, x, decimation_factor * m), Gain)
<1> DEFINE K == cic_order
           R == decimation_factor
           n == R * m
           r == m % Taps
           q == m \div Taps
           u == [j \in 1 .. Taps |-> compensation_filter[j] * h[(r + j - 1) % Taps]]
           w == [j \in 1 .. Taps |-> compensation_filter[j] * z[K][n - R * (Taps - j)]]
<1>1. K \in Nat /\ K \in 0 .. K /\ K - K = 0
    BY StagesType
<1>2. Taps \in Nat /\ Taps > 0 /\ R \in Nat /\ n \in Int
    BY TapsType
<1>3. z[K] \in Signals /\ s[0] = x /\ x \in Signals
    BY <1>1, PassesType DEF Inputs, Causal
<1>4. r \in Int /\ q \in Int /\ m = Taps * q + r
    BY <1>2, Remainder
<1>5. ASSUME NEW j \in 1 .. Taps
      PROVE  h[(r + j - 1) % Taps] = z[K][n - R * (Taps - j)]
  <2> DEFINE a == (m - Taps) + j - 1
             b == r + j - 1
             k == 1 - q
  <2>1. /\ a \in Int /\ b \in Int /\ k \in Int /\ j \in Int
        /\ a \in m - Taps .. m - 1
    BY <1>2, <1>4
  <2>2. b = a + Taps * k
    <3>1. Taps * (1 - q) = Taps - Taps * q /\ Taps * q \in Int
      BY <1>2, <1>4
    <3> QED
      BY <1>2, <1>4, <3>1
  <2>3. b % Taps = a % Taps
    <3> HIDE DEF a, b, k
    <3> QED
      BY <1>2, <2>1, <2>2, RemainderShift
  <2>4. h[a % Taps] = Decimated(z[K])[a]
    <3> HIDE DEF a, K
    <3> QED
      BY <2>1 DEF DelayLine, K
  <2> DEFINE t == R * (a + 1)
             y == z[K][t]
  <2>5. t = n - R * (Taps - j) /\ t \in Int
    <3>1. a + 1 = m - (Taps - j)
      BY <1>2
    <3>2. R * (m - (Taps - j)) = R * m - R * (Taps - j)
      BY <1>2
    <3>3. R * (a + 1) = R * (m - (Taps - j)) /\ R * (a + 1) \in Int
      BY <1>2, <2>1, <3>1
    <3> QED
      BY <3>2, <3>3
  <2>6. Decimated(z[K])[a] = wrap(y)
    BY <1>3, <2>1, DecimatedType
  <2>7. y \in -Limit .. Limit - 1
    BY <2>5, CombsFit
  <2>8. wrap(y) = y
    <3> HIDE DEF y
    <3>1. y \in Int
      BY <2>7, FilterAssumption
    <3> QED
      BY <2>7, <3>1, WrapIs
  <2> QED
    BY <2>3, <2>4, <2>5, <2>6, <2>8
<1>6. u = w
    BY <1>5
<1>7. Conv(Upsampled, z[K], n) = SumOver(w, Taps)
    BY <1>2, <1>3, ConvUpsampled
<1>8. Conv(Upsampled, z[K], n) = Conv(Response, x, n)
  <2>1. Upsampled \in Responses
    BY UpsampledIs
  <2>2. \A k \in 0 .. K, i \in Int :
            Conv(Upsampled, z[k], i) = Conv(Cascaded(Upsampled)[k], s[K - k], i)
    BY <2>1, CascadeConv
  <2>3. Conv(Upsampled, z[K], n) = Conv(Cascaded(Upsampled)[K], s[K - K], n)
    BY <1>1, <1>2, <2>2
  <2> QED
    BY <1>1, <1>3, <2>3 DEF Response
<1>9. filter_output(r, h) = truncate(SumOver(u, Taps), Gain)
    BY DEF filter_output
<1> QED
    BY <1>6, <1>7, <1>8, <1>9

\* ... which is that of the samples taken.
LEMMA ConvolvedIs ==
    ASSUME NEW x \in Inputs, NEW v \in Seq(Int),
           \A i \in 1 .. Len(v) : x[i] = v[i]
    PROVE  Convolved(v) = truncate(Conv(Response, x, Len(v)), Gain)
<1> DEFINE n == Len(Response)
           N == Len(v)
           u == [k \in 1 .. n |-> Response[k] * at(v, N - k)]
           w == [k \in 1 .. n |-> Response[k] * x[N + 1 - k]]
<1>1. n \in Nat /\ N \in Nat
    BY ResponseLength DEF Responses
<1>2. ASSUME NEW k \in 1 .. n PROVE at(v, N - k) = x[N + 1 - k]
  <2>1. CASE k <= N
    <3>1. N - k \in 0 .. N - 1 /\ (N - k) + 1 = N + 1 - k /\ N + 1 - k \in 1 .. N
      BY <1>1, <2>1
    <3>2. at(v, N - k) = v[(N - k) + 1]
      BY <3>1 DEF at
    <3> QED
      BY <3>1, <3>2
  <2>2. CASE ~(k <= N)
    <3>1. N - k \notin 0 .. N - 1 /\ N + 1 - k \in Int /\ N + 1 - k <= 0
      BY <1>1, <2>2
    <3>2. at(v, N - k) = 0
      BY <3>1 DEF at
    <3>3. x[N + 1 - k] = 0
      BY <3>1 DEF Inputs, Causal
    <3> QED
      BY <3>2, <3>3
  <2> QED
    BY <2>1, <2>2
<1>3. u = w
    BY <1>2
<1> HIDE DEF u, w
<1> QED
    BY <1>3 DEF Convolved, Conv, u, w

\* Every sequence of samples is an input, ...
LEMMA InputExists ==
    ASSUME NEW v \in Seq(Int),
           \A i \in 1 .. Len(v) : \E j \in DOMAIN Values : v[i] = Values[j]
    PROVE  \E x \in Inputs : \A i \in 1 .. Len(v) : x[i] = v[i]
<1> DEFINE N == Len(v)
           x == [n \in Int |-> IF n \in 1 .. N THEN v[n] ELSE 0]
<1>1. N \in Nat /\ \A i \in 1 .. N : v[i] \in Int
    OBVIOUS
<1>2. ASSUME NEW n \in Int
      PROVE  /\ x[n] \in Int /\ (n <= 0 => x[n] = 0)
             /\ x[n] = 0 \/ \E j \in DOMAIN Values : x[n] = Values[j]
  <2>1. CASE n \in 1 .. N
    <3>1. x[n] = v[n] /\ ~(n <= 0)
      BY <1>1, <2>1
    <3> QED
      BY <1>1, <2>1, <3>1
  <2>2. CASE n \notin 1 .. N
    BY <2>2
  <2> QED
    BY <2>1, <2>2
<1>3. \A i \in 1 .. N : x[i] = v[i]
    BY <1>1
<1>4. x = [n \in Int |-> x[n]]
    OBVIOUS
<1> HIDE DEF x
<1>5. x \in Inputs
    BY <1>2, <1>4 DEF Inputs, Causal, Signals
<1> QED
    BY <1>3, <1>5

-----------------------------------------------------------------------------
(* The filters of the decimation thread. *)

\* x is what the samples t feed into the filters.
Feeds(x, t) == \A i \in 1 .. Len(t) : x[i] = Value(t[i])

\* The filters hold what any input that begins with the samples taken makes of
\* them, and the first counter what is left of them after the rows.
FilterInv ==
    /\ taken \in Seq(Nat)
    /\ \A x \in Inputs : \A s, z :
        Passes(x, s, z) /\ Feeds(x, taken) =>
            \E n \in Nat, m \in Nat :
                /\ Len(taken) = n /\ n = decimation_factor * m + decimation_counter
                /\ FilterHolds(s, z, n, m)

LEMMA ValueType ==
    ASSUME NEW n \in Nat
    PROVE  Value(n) \in Int /\ \E j \in DOMAIN Values : Value(n) = Values[j]
<1> DEFINE l == Len(Values)
           r == n % l
<1>1. Values \in Seq(Int) /\ Values # <<>>
    BY FilterAssumption
<1>2. l \in Nat /\ l > 0 /\ DOMAIN Values = 1 .. l
    BY <1>1
<1>3. r \in Int /\ 0 <= r /\ r < l
    BY <1>2, Remainder
<1>4. r + 1 \in 1 .. l /\ Value(n) = Values[r + 1]
    BY <1>2, <1>3 DEF Value
<1> QED
    BY <1>1, <1>2, <1>4

LEMMA FilterInit == Init => FilterInv
<1> SUFFICES ASSUME Init PROVE FilterInv
    OBVIOUS
<1>1. taken = <<>> /\ decimation_counter = 0 /\ InitFilters
    BY DEF Init, InitDecimation
<1>2. taken \in Seq(Nat) /\ Len(taken) = 0
    BY <1>1
<1>3. decimation_factor * 0 = 0
    BY Constants
<1>4. ASSUME NEW x \in Inputs, NEW s, NEW z, Passes(x, s, z)
      PROVE  FilterHolds(s, z, 0, 0)
    BY <1>1, <1>4, FilterStarts
<1>5. 0 = decimation_factor * 0 + 0
    BY <1>3
<1> QED
    BY <1>1, <1>2, <1>4, <1>5 DEF FilterInv

\* Nothing else touches them.
LEMMA FilterSame ==
    ASSUME FilterInv, UNCHANGED <<filters, taken, decimation_counter>>
    PROVE  FilterInv'
<1>1. \A s, z, n, m : FilterHolds(s, z, n, m)' <=> FilterHolds(s, z, n, m)
    BY DEF FilterHolds, filters
<1> QED
    BY <1>1 DEF FilterInv, Feeds, Value

LEMMA FilterDecimates ==
    ASSUME CountInv, FilterInv, decimate_block
    PROVE  FilterInv'
<1>1. taken' = Append(taken, sample) /\ sample \in Nat /\ taken \in Seq(Nat)
    BY DecimateCounters DEF decimate_block, decimate_sample, FilterInv
<1>2. PICK N \in Nat : N = Len(taken)
    BY <1>1
<1> DEFINE R == decimation_factor
<1>3. /\ taken' \in Seq(Nat) /\ Len(taken') = N + 1
      /\ \A i \in 1 .. N : taken'[i] = taken[i]
      /\ taken'[N + 1] = sample
    BY <1>1, <1>2, AppendProperties
<1>4. ASSUME NEW x \in Inputs, NEW s, NEW z, Passes(x, s, z), Feeds(x, taken')
      PROVE  \E m \in Nat : /\ N + 1 = R * m + decimation_counter'
                            /\ FilterHolds(s, z, N + 1, m)'
  <2> DEFINE v == Value(sample)
  <2>1. v \in Int
    BY <1>1, ValueType
  <2>2. Feeds(x, taken) /\ v = x[N + 1]
    <3>1. \A i \in 1 .. N + 1 : x[i] = Value(taken'[i])
      BY <1>3, <1>4 DEF Feeds
    <3>2. N + 1 \in 1 .. N + 1 /\ \A i \in 1 .. N : i \in 1 .. N + 1
      OBVIOUS
    <3> QED
      BY <1>2, <1>3, <3>1, <3>2 DEF Feeds
  <2>3. PICK m \in Nat : /\ N = R * m + decimation_counter
                         /\ FilterHolds(s, z, N, m)
    BY <1>2, <1>4, <2>2 DEF FilterInv
  <2>4. /\ decimation_counter' = advance_index(decimation_counter, R)
        /\ cic_accumulators' = accumulate(v)
        /\ IF Combs THEN comb(cic_accumulators'[cic_order])
           ELSE UNCHANGED <<comb_histories, comb_history_index,
                            filter_buffer, filter_index>>
    BY DEF decimate_block, decimate_sample
  <2>5. /\ decimation_counter \in Nat /\ decimation_counter < R /\ R \in Nat
        /\ R * m \in Nat /\ R * (m + 1) = R * m + R
    BY Constants DEF CountInv, DecimationTypeOK
  <2> HIDE DEF v
  <2>6. CASE Combs
    <3>1. decimation_counter' = 0 /\ N + 1 = R * (m + 1)
      BY <2>3, <2>4, <2>5, <2>6 DEF Combs, Cycles, advance_index
    <3>2. FilterHolds(s, z, N + 1, m + 1)'
      BY <1>4, <2>1, <2>2, <2>3, <2>4, <2>6, <3>1, RowHolds
    <3>3. m + 1 \in Nat /\ N + 1 = R * (m + 1) + decimation_counter'
      BY <2>5, <3>1
    <3> QED
      BY <3>2, <3>3
  <2>7. CASE ~Combs
    <3>1. decimation_counter' = decimation_counter + 1
      BY <2>4, <2>7 DEF Combs, Cycles, advance_index
    <3>2. FilterHolds(s, z, N + 1, m)'
      BY <1>4, <2>1, <2>2, <2>3, <2>4, <2>7, SampleHolds
    <3>3. N + 1 = R * m + decimation_counter'
      BY <2>3, <2>5, <3>1
    <3> QED
      BY <3>2, <3>3
  <2> QED
    BY <2>6, <2>7
<1>5. N + 1 \in Nat
    OBVIOUS
<1> QED
    BY <1>3, <1>4, <1>5 DEF FilterInv, Feeds, Value

\* All but decimate_block leave them, and the rows, as they are; only a gap adds
\* to the decimated blocks.
LEMMA Unfiltered ==
    ASSUME CountInv, [Next]_vars
    PROVE  \/ decimate_block
           \/ DecimationGetsNull
           \/ /\ UNCHANGED <<filters, taken, decimation_counter, block_out,
                             contents>>
              /\ ~spoiled' => ~spoiled /\ Here <= Here' /\ Here \in Int
                              /\ Here' \in Int
<1> DEFINE Kept == UNCHANGED <<filters, taken, decimation_counter, block_out,
                               contents>>
<1>0. Here \in Int
  <2>1. /\ fa_last["decimation"] + 1 \in Nat /\ block_in \in Nat /\ in \in Nat
        /\ 0 \in Nat
    BY Constants DEF CountInv, Streams, DecimationTypeOK
  <2>2. \A f \in Nat, i \in Nat : Sample(f, i) \in Nat
    BY SampleType
  <2>3. Sample(block_in, in) \in Nat /\ Sample(fa_last["decimation"] + 1, 0) \in Nat
    BY <2>1, <2>2, Zenon
  <2> QED
    BY <2>3 DEF Here
<1>1. ASSUME Beside PROVE Kept /\ Here' = Here /\ spoiled' = spoiled
    BY <1>1 DEF Beside, decimation, counters, output, Here, Sample
<1>2. CASE UNCHANGED vars
  <2>1. Beside
    BY <1>2 DEF vars, fa_buffer, dec_buffer, Beside
  <2> QED
    BY <1>0, <1>1, <2>1
<1>3. CASE \/ sniffer_thread \/ Subscribes \/ ClientGets \/ ClientGetsNull
           \/ ClientHeader \/ ClientReleases \/ ClientCloses
  <2>1. Beside
    BY <1>3, ClientBeside, SnifferBeside DEF CountInv
  <2> QED
    BY <1>0, <1>1, <2>1
<1>4. CASE DecimationGets
  <2>1. PICK f \in fa_stored :
            /\ f > fa_last["decimation"]
            /\ StartBlock(f)
            /\ spoiled' = (spoiled \/ ~Fa!Deliverable("decimation", f))
    BY <1>4 DEF DecimationGets
  <2>2. f \in Nat /\ fa_last["decimation"] \in Nat
    BY DEF CountInv, Streams
  <2>3. Here = Sample(fa_last["decimation"] + 1, 0) /\ Here' = Sample(f, 0)
    BY <2>1 DEF StartBlock, Here, Sample
  <2>4. Sample(f, 0) \in Int
    <3>1. \A g \in Nat : Sample(g, 0) \in Nat
      BY SampleType, Zenon
    <3> QED
      BY <2>2, <3>1
  <2>5. Here <= Here' /\ Here' \in Int
    BY <2>1, <2>2, <2>3, <2>4, SampleLater
  <2>6. Kept /\ ~spoiled
    BY <1>4, <2>1 DEF StartBlock, DecimationGets, counters, output
  <2> QED
    BY <1>0, <2>5, <2>6
<1>5. CASE DecimationReleases
  <2>1. Kept /\ ~spoiled
    BY <1>5 DEF DecimationReleases, EndBlock, counters, output
  <2>2. CASE Fa!Deliver("decimation", block_in)
    <3>1. fa_last'["decimation"] = block_in /\ block_in \in Nat
      BY <2>2 DEF Fa!Deliver, CountInv, DecimationTypeOK, Streams
    <3>2. dpc = "decimate" /\ in = SampleCountIn /\ dpc' = "get"
      BY <1>5 DEF DecimationReleases, EndBlock
    <3>3. Here' = Here
      BY <3>1, <3>2, SampleNext DEF Here, Sample
    <3> QED
      BY <1>0, <2>1, <3>3
  <2>3. CASE spoiled' = TRUE
    BY <2>1, <2>3
  <2> QED
    BY <1>5, <2>2, <2>3 DEF DecimationReleases
<1> QED
    BY <1>2, <1>3, <1>4, <1>5 DEF Next

LEMMA FilterNext == CountInv /\ FilterInv /\ [Next]_vars => FilterInv'
<1> SUFFICES ASSUME CountInv, FilterInv, [Next]_vars PROVE FilterInv'
    OBVIOUS
<1>1. CASE DecimationGetsNull
  <2>1. UNCHANGED <<filters, taken, decimation_counter>>
    BY <1>1 DEF DecimationGetsNull, NoBlock, counters
  <2> QED
    BY <2>1, FilterSame
<1> QED
    BY <1>1, Unfiltered, FilterDecimates, FilterSame

-----------------------------------------------------------------------------
(* The rows. *)

\* What filter_output returns for a row is what Convolved says.
LEMMA OutputHolds ==
    ASSUME CountInv, FilterInv, decimate_block, Combs
    PROVE  filter_output(filter_index', filter_buffer')
                = Convolved([i \in DOMAIN taken' |-> Value(taken'[i])])
<1> DEFINE v == [i \in DOMAIN taken' |-> Value(taken'[i])]
           N == Len(taken')
<1>1. FilterInv'
    BY FilterDecimates
<1>2. taken' \in Seq(Nat)
    BY <1>1 DEF FilterInv
<1>3. /\ N \in Nat /\ DOMAIN taken' = 1 .. N
      /\ \A i \in 1 .. N : taken'[i] \in Nat
    BY <1>2
<1> HIDE DEF N
<1>4. \A i \in 1 .. N : /\ v[i] = Value(taken'[i]) /\ v[i] \in Int
                        /\ \E j \in DOMAIN Values : v[i] = Values[j]
    BY <1>3, ValueType
<1>5. v = [i \in 1 .. N |-> v[i]]
    BY <1>3
<1> HIDE DEF v
<1>6. v \in Seq(Int) /\ Len(v) = N
    BY <1>3, <1>4, <1>5
<1>7. PICK x \in Inputs : \A i \in 1 .. Len(v) : x[i] = v[i]
    BY <1>4, <1>6, InputExists
<1>8. PICK s, z : Passes(x, s, z)
  <2>1. x \in Causal
    BY DEF Inputs
  <2> QED
    BY <2>1, PassesExist
<1>9. Feeds(x, taken')
    BY <1>4, <1>6, <1>7 DEF Feeds, N
<1>10. \A y \in Inputs : \A t, u :
            Passes(y, t, u) /\ Feeds(y, taken') =>
                \E n \in Nat, m \in Nat :
                    /\ Len(taken') = n
                    /\ n = decimation_factor * m + decimation_counter'
                    /\ FilterHolds(t, u, n, m)'
    BY <1>1 DEF FilterInv, Feeds, Value
<1>11. PICK n \in Nat, m \in Nat :
            /\ N = n /\ N = decimation_factor * m + decimation_counter'
            /\ FilterHolds(s, z, n, m)'
    BY <1>8, <1>9, <1>10 DEF N
<1>12. decimation_counter' = 0
    BY DEF decimate_block, decimate_sample, Combs, Cycles, advance_index
<1>13. N = decimation_factor * m
  <2>1. decimation_factor * m \in Int
    BY Constants
  <2> QED
    BY <1>11, <1>12, <2>1
<1>14. /\ filter_index' = m % Taps
       /\ DelayLine(filter_buffer', Taps, Decimated(z[cic_order]), m)
    BY <1>11 DEF FilterHolds
<1>15. filter_output(m % Taps, filter_buffer')
            = truncate(Conv(Response, x, decimation_factor * m), Gain)
  <2>1. \A h : DelayLine(h, Taps, Decimated(z[cic_order]), m) =>
            filter_output(m % Taps, h)
                = truncate(Conv(Response, x, decimation_factor * m), Gain)
    BY <1>8, OutputIs
  <2> QED
    BY <1>14, <2>1
<1>16. Convolved(v) = truncate(Conv(Response, x, N), Gain)
    BY <1>6, <1>7, ConvolvedIs
<1> QED
    BY <1>13, <1>14, <1>15, <1>16 DEF v

\* Only samples already taken are in a row.
Older(row) == \A e \in row.events : e \in Int /\ e < Here

RowsInv ==
    /\ RowsAreFiltered
    /\ ~spoiled => \A i \in Rows :
        /\ Older(block_out[i])
        /\ contents # <<>> => Older(Last(contents)[i])

\* A block from earlier on has none of the samples.
LEMMA FreshRows ==
    ASSUME NEW i \in Rows
    PROVE  Filtered(Fresh[i]) /\ Older(Fresh[i])
<1>1. Fresh[i].events = {}
    BY DEF Fresh
<1> QED
    BY <1>1 DEF Filtered, Older

LEMMA RowsInit == Init => RowsInv
<1> SUFFICES ASSUME Init PROVE RowsInv
    OBVIOUS
<1>1. block_out = Fresh /\ contents = <<>>
    BY DEF Init, InitDecimation
<1> QED
    BY <1>1, FreshRows DEF RowsInv, RowsAreFiltered

\* The block that has just been finished.
LEMMA LastAppended ==
    ASSUME Functional, dec_frame \in Nat \ {0}, NEW b
    PROVE  LET t == Append(contents, b) IN t # <<>> /\ Last(t) = b
<1> DEFINE n == dec_frame - 1
           t == Append(contents, b)
<1>1. n \in Nat /\ contents = [f \in 1 .. n |-> contents[f]]
    BY DEF Functional
<1> HIDE DEF n
<1>2. t = [f \in 1 .. n + 1 |-> t[f]] /\ t[n + 1] = b
    BY <1>1, Appended
<1> HIDE DEF t
<1>3. Len(t) = n + 1 /\ n + 1 > 0
    BY <1>1, <1>2
<1>4. t # <<>>
    BY <1>1, <1>3
<1>5. Last(t) = b
    BY <1>2, <1>3 DEF Last
<1> QED
    BY <1>4, <1>5 DEF t

LEMMA RowsGap ==
    ASSUME MarkInv, RowsInv, DecimationGetsNull
    PROVE  RowsInv'
<1>1. /\ UNCHANGED <<dpc, block_in, in, block_out, taken, spoiled, fa_last>>
      /\ ~spoiled
    BY DEF DecimationGetsNull, NoBlock, Fa!Break
<1>2. Releases(TRUE)
    BY DEF Releases
<1>3. contents' = Append(contents, Fresh)
    BY <1>2 DEF DecimationGetsNull, advance_write_block
<1>4. contents' # <<>> /\ Last(contents') = Fresh
    BY <1>3, LastAppended DEF MarkInv, CountInv, Streams
<1>5. Here' = Here
    BY <1>1 DEF Here, Sample
<1>6. ASSUME NEW i \in Rows
      PROVE  /\ Filtered(block_out[i])' /\ Older(block_out[i])'
             /\ Filtered(Fresh[i])' /\ Older(Fresh[i])'
  <2>1. Filtered(block_out[i]) /\ Older(block_out[i])
    BY <1>1 DEF RowsInv, RowsAreFiltered
  <2>2. Filtered(block_out[i])' /\ Older(block_out[i])'
    BY <1>1, <1>5, <2>1 DEF Filtered, Older, Value
  <2>3. Fresh[i].events = {}
    BY DEF Fresh
  <2> QED
    BY <2>2, <2>3 DEF Filtered, Older
<1> QED
    BY <1>1, <1>4, <1>6 DEF RowsInv, RowsAreFiltered, Filtered, Older

LEMMA RowsDecimate ==
    ASSUME MarkInv, FilterInv, RowsInv, decimate_block
    PROVE  RowsInv'
<1>1. /\ Here = sample /\ Here' = sample + 1 /\ sample \in Nat
      /\ ~spoiled /\ UNCHANGED spoiled
    BY DecimateCounters DEF MarkInv, CountInv, decimate_block
<1>2. taken' # <<>> /\ Last(taken') = sample
  <2>1. taken' = Append(taken, sample) /\ taken \in Seq(Nat)
    BY DEF decimate_block, decimate_sample, FilterInv
  <2>2. taken' \in Seq(Nat) /\ Len(taken') = Len(taken) + 1 /\ Len(taken) \in Nat
        /\ taken'[Len(taken) + 1] = sample
    BY <1>1, <2>1, AppendProperties
  <2> QED
    BY <2>2 DEF Last
<1>3. ASSUME NEW row, Older(row)
      PROVE  /\ sample \notin row.events
             /\ \A e \in row.events : e \in Int /\ e < sample + 1
    BY <1>1, <1>3 DEF Older
<1> DEFINE
     Fine(row) == /\ sample \in row.events =>
                        /\ row.x = Convolved([i \in DOMAIN taken' |-> Value(taken'[i])])
                        /\ row.id0 = sample - (Len(Response) \div 2)
                  /\ \A e \in row.events : e \in Int /\ e < sample + 1
<1>4. ASSUME NEW i \in Rows
      PROVE  /\ Fine(block_out[i])
             /\ contents # <<>> => Fine(Last(contents)[i])
             /\ Fine(Fresh[i])
  <2>1. Older(block_out[i]) /\ (contents # <<>> => Older(Last(contents)[i]))
    BY <1>1 DEF RowsInv
  <2>2. Older(Fresh[i])
    BY FreshRows
  <2> QED
    BY <1>3, <2>1, <2>2
<1> HIDE DEF Fine
<1>5. SUFFICES \A i \in Rows : /\ Fine(block_out'[i])
                               /\ contents' # <<>> => Fine(Last(contents')[i])
  <2>1. ASSUME NEW i \in Rows, Fine(block_out'[i])
        PROVE  Filtered(block_out[i])' /\ Older(block_out[i])'
    BY <1>1, <1>2, <2>1 DEF Fine, Filtered, Older, Value
  <2>2. ASSUME NEW i \in Rows, Fine(Last(contents')[i])
        PROVE  Filtered(Last(contents)[i])' /\ Older(Last(contents)[i])'
    BY <1>1, <1>2, <2>2 DEF Fine, Filtered, Older, Value
  <2>3. RowsAreFiltered'
    BY <1>5, <2>1, <2>2 DEF RowsAreFiltered, Rows
  <2> QED
    BY <1>5, <2>1, <2>2, <2>3 DEF RowsInv, Rows
<1>6. CASE ~WritesRow
  <2>1. UNCHANGED <<contents, block_out>>
    BY <1>6 DEF decimate_block, decimate_sample, output
  <2> QED
    BY <1>4, <2>1
<1>7. CASE WritesRow
  <2> DEFINE w == Written
             new == [events |-> combine_events,
                     x |-> filter_output(filter_index', filter_buffer'),
                     id0 |-> update_t0]
  <2>1. out_pointer \in Rows /\ block_out = [r \in Rows |-> block_out[r]]
    BY DEF MarkInv, CountInv, DecimationTypeOK, Functional
  <2>2. w = [block_out EXCEPT ![out_pointer] = new]
    BY DEF Written
  <2>3. Fine(new)
    <3>1. Combs
      BY <1>7 DEF WritesRow
    <3>2. new.x = Convolved([i \in DOMAIN taken' |-> Value(taken'[i])])
      BY <3>1, OutputHolds DEF MarkInv
    <3>3. new.id0 = sample - (Len(Response) \div 2)
      BY ResponseLength DEF update_t0
    <3>4. \A e \in accumulated_events : e \in Int /\ e < sample
      BY <1>1 DEF MarkInv, CountInv, Events
    <3>5. \A e \in new.events : e \in Int /\ e < sample + 1
      BY <1>1, <3>4 DEF combine_events
    <3> HIDE DEF new
    <3> QED
      BY <3>2, <3>3, <3>5 DEF Fine
  <2> HIDE DEF new, w
  <2>4. \A i \in Rows : Fine(w[i])
    <3> TAKE i \in Rows
    <3>1. w[i] = new \/ w[i] = block_out[i]
      BY <2>1, <2>2
    <3> QED
      BY <1>4, <2>3, <3>1
  <2>5. /\ block_out' = IF Releases(FALSE) THEN Fresh ELSE w
        /\ IF Releases(FALSE) THEN contents' = Append(contents, w)
           ELSE UNCHANGED contents
    BY <1>7 DEF decimate_block, decimate_sample, advance_write_block, w
  <2>6. CASE Releases(FALSE)
    <3>1. contents' # <<>> /\ Last(contents') = w
      BY <2>5, <2>6, LastAppended DEF MarkInv, CountInv, Streams
    <3> QED
      BY <1>4, <2>4, <2>5, <2>6, <3>1
  <2>7. CASE ~Releases(FALSE)
    BY <1>4, <2>4, <2>5, <2>7
  <2> QED
    BY <2>6, <2>7
<1> QED
    BY <1>6, <1>7

LEMMA RowsNext ==
    MarkInv /\ FilterInv /\ RowsInv /\ [Next]_vars => RowsInv'
<1> SUFFICES ASSUME MarkInv, FilterInv, RowsInv, [Next]_vars PROVE RowsInv'
    OBVIOUS
<1>1. ASSUME UNCHANGED <<taken, block_out, contents>>,
             ~spoiled' => ~spoiled /\ Here <= Here' /\ Here \in Int
                          /\ Here' \in Int
      PROVE  RowsInv'
  <2>1. RowsAreFiltered'
    BY <1>1 DEF RowsInv, RowsAreFiltered, Filtered, Value
  <2>2. ASSUME NEW row, ~spoiled', Older(row)
        PROVE  \A e \in row.events : e \in Int /\ e < Here'
    BY <1>1, <2>2 DEF Older
  <2>3. ASSUME NEW i \in Rows, ~spoiled'
        PROVE  /\ Older(block_out[i])'
               /\ contents' # <<>> => Older(Last(contents)[i])'
    <3>1. /\ Older(block_out[i])
          /\ contents # <<>> => Older(Last(contents)[i])
      BY <1>1, <2>3 DEF RowsInv
    <3> QED
      BY <1>1, <2>2, <2>3, <3>1 DEF Older
  <2> QED
    BY <2>1, <2>3 DEF RowsInv, Rows
<1> QED
    BY <1>1, Unfiltered, RowsGap, RowsDecimate DEF MarkInv

\* Every row is the convolution that docs/fa-archiver.rst describes, whatever
\* the decimation factors, the combs and the compensation filter, the samples
\* and the gaps, and however often the accumulators have overflowed.
THEOREM RowsFiltered == Spec => []RowsAreFiltered
<1>1. Init => FilterInv /\ RowsInv
    BY FilterInit, RowsInit
<1>2. MarkInv /\ FilterInv /\ RowsInv /\ [Next]_vars => FilterInv' /\ RowsInv'
    BY FilterNext, RowsNext DEF MarkInv
<1>3. RowsInv => RowsAreFiltered
    BY DEF RowsInv
<1> QED
    BY <1>1, <1>2, <1>3, Invariance, PTL DEF Spec

-----------------------------------------------------------------------------
(* What the filters remember of a gap. *)

\* A run of samples at the end of an ascending sequence has their places too.
LEMMA LastSamples ==
    ASSUME NEW t \in Seq(Nat), NEW n \in Nat, n > 0, Len(t) = n,
           \A i \in 1 .. n : \A j \in 1 .. i - 1 : t[j] < t[i],
           NEW l \in Nat, (t[n] - l + 1) .. t[n] \subseteq Range(t)
    PROVE  \A k \in Nat : k < l => k < n /\ t[n - k] = t[n] - k
<1> DEFINE S == {k \in Nat : k < l => k < n /\ t[n - k] = t[n] - k}
<1>0. /\ \A i \in 1 .. n : t[i] \in Nat
      /\ \A e \in Range(t) : \E p \in 1 .. n : t[p] = e
    BY DEF Range
<1>1. 0 \in S
    BY <1>0
<1>2. ASSUME NEW k \in Nat, k \in S PROVE k + 1 \in S
  <2> SUFFICES ASSUME k + 1 < l
               PROVE  k + 1 < n /\ t[n - (k + 1)] = t[n] - (k + 1)
    OBVIOUS
  <2>1. k < n /\ t[n - k] = t[n] - k /\ n - k \in 1 .. n /\ t[n] \in Nat
    BY <1>0, <1>2
  <2>2. PICK p \in 1 .. n : t[p] = t[n] - (k + 1)
    <3>1. t[n] - (k + 1) \in (t[n] - l + 1) .. t[n]
        BY <2>1
    <3> QED
        BY <1>0, <3>1
  <2>3. p < n - k
    <3>1. p > n - k => t[n - k] < t[p]
        BY <2>1
    <3>2. t[p] # t[n - k]
        BY <2>1, <2>2
    <3> QED
        BY <2>1, <2>2, <3>1, <3>2, <1>0
  <2> DEFINE q == n - (k + 1)
  <2>4. q \in 1 .. n /\ p <= q /\ q < n - k /\ k + 1 < n
    BY <2>3
  <2>5. t[q] \in Nat /\ t[q] < t[n - k]
    BY <1>0, <2>1, <2>4
  <2>6. t[p] <= t[q]
    BY <1>0, <2>4
  <2> QED
    BY <2>1, <2>2, <2>4, <2>5, <2>6
<1> HIDE DEF S
<1>3. Nat \subseteq S
    BY <1>1, <1>2, Induction
<1> QED
    BY <1>3 DEF S

\* Only the last filter_length values go into a convolution.
LEMMA ConvolvedLast ==
    ASSUME NEW v \in Seq(Int), NEW w \in Seq(Int), Len(w) = filter_length,
           \A k \in 1 .. filter_length :
                k <= Len(v) /\ v[Len(v) + 1 - k] = w[filter_length + 1 - k]
    PROVE  Convolved(v) = Convolved(w)
<1> DEFINE n == Len(Response)
<1>1. n \in Nat /\ n = filter_length
    BY ResponseLength DEF Responses
<1>2. ASSUME NEW k \in 1 .. n
      PROVE  at(v, Len(v) - k) = at(w, Len(w) - k)
  <2>1. Len(v) - k \in 0 .. Len(v) - 1 /\ Len(w) - k \in 0 .. Len(w) - 1
    BY <1>1, <1>2
  <2>2. (Len(v) - k) + 1 = Len(v) + 1 - k /\ (Len(w) - k) + 1 = filter_length + 1 - k
    BY <1>1, <1>2
  <2>3. /\ at(v, Len(v) - k) = v[(Len(v) - k) + 1]
        /\ at(w, Len(w) - k) = w[(Len(w) - k) + 1]
    BY <2>1 DEF at
  <2> QED
    BY <1>1, <1>2, <2>2, <2>3
<1>3. [k \in 1 .. n |-> Response[k] * at(v, Len(v) - k)]
        = [k \in 1 .. n |-> Response[k] * at(w, Len(w) - k)]
    BY <1>2
<1> QED
    BY <1>3 DEF Convolved

\* What is known of a row for good once it is written.
Settled(row) == Older(row) /\ Forgets(row)

\* Samples are taken in their order, as long as the thread is not overrun.
MemoryInv ==
    ~spoiled =>
        /\ \A i \in 1 .. Len(taken) : taken[i] < Here
        /\ \A i \in 1 .. Len(taken) : \A j \in 1 .. i - 1 : taken[j] < taken[i]
        /\ \A i \in Rows :
            /\ Settled(block_out[i])
            /\ \A f \in DOMAIN contents : Settled(contents[f][i])

LEMMA MemoryInit == Init => MemoryInv
<1> SUFFICES ASSUME Init PROVE MemoryInv
    OBVIOUS
<1>1. block_out = Fresh /\ contents = <<>> /\ taken = <<>>
    BY DEF Init, InitDecimation
<1>2. ASSUME NEW i \in Rows PROVE Settled(Fresh[i])
  <2>1. Fresh[i].events = {}
    BY <1>2 DEF Fresh
  <2> QED
    BY <2>1 DEF Settled, Older, Forgets
<1> QED
    BY <1>1, <1>2 DEF MemoryInv

\* The rows are what they were, and so are the samples.
LEMMA SettledKept ==
    ASSUME taken' = taken, Here \in Int, Here' \in Int, Here <= Here'
    PROVE  \A row : Settled(row) => Settled(row)'
<1> TAKE row
<1>1. \A e : Remembers(e)' <=> Remembers(e)
    BY DEF Remembers
<1> QED
    BY <1>1 DEF Settled, Older, Forgets, Value

\* The blocks when one more has been finished.
LEMMA BlocksAppended ==
    ASSUME Functional, dec_frame \in Nat \ {0}, NEW b
    PROVE  LET t == Append(contents, b)
           IN \A f \in DOMAIN t :
                t[f] = b \/ (f \in DOMAIN contents /\ t[f] = contents[f])
<1> DEFINE n == dec_frame - 1
           t == Append(contents, b)
<1>1. n \in Nat /\ contents = [f \in 1 .. n |-> contents[f]]
    BY DEF Functional
<1> HIDE DEF n
<1>2. /\ t = [f \in 1 .. n + 1 |-> t[f]] /\ t[n + 1] = b
      /\ \A f \in 1 .. n : t[f] = contents[f]
    BY <1>1, Appended
<1> HIDE DEF t
<1>3. DOMAIN t = 1 .. n + 1 /\ DOMAIN contents = 1 .. n
    BY <1>1, <1>2
<1>4. \A f \in 1 .. n + 1 : f = n + 1 \/ f \in 1 .. n
    BY <1>1
<1> QED
    BY <1>2, <1>3, <1>4 DEF t

LEMMA MemoryGap ==
    ASSUME MarkInv, MemoryInv, DecimationGetsNull
    PROVE  MemoryInv'
<1>1. /\ UNCHANGED <<dpc, block_in, in, block_out, taken, spoiled, fa_last>>
      /\ ~spoiled
    BY DEF DecimationGetsNull, NoBlock, Fa!Break
<1>2. Here' = Here
    BY <1>1 DEF Here, Sample
<1>3. \A row : Settled(row) => Settled(row)'
    BY <1>1, <1>2 DEF Settled, Older, Forgets, Remembers, Value
<1>4. ASSUME NEW i \in Rows PROVE Settled(Fresh[i])'
  <2>1. Fresh[i].events = {}
    BY <1>4 DEF Fresh
  <2> QED
    BY <2>1 DEF Settled, Older, Forgets
<1>5. ASSUME NEW f \in DOMAIN contents'
      PROVE  contents'[f] = Fresh \/ (f \in DOMAIN contents /\ contents'[f] = contents[f])
  <2>1. contents' = Append(contents, Fresh)
    <3>1. Releases(TRUE)
        BY DEF Releases
    <3> QED
        BY <3>1 DEF DecimationGetsNull, advance_write_block
  <2> QED
    BY <1>5, <2>1, BlocksAppended DEF MarkInv, CountInv, Streams
<1> QED
    BY <1>1, <1>2, <1>3, <1>4, <1>5 DEF MemoryInv, Rows

\* The row written with sample e, when the samples before it are without a gap.
LEMMA WrittenForgets ==
    ASSUME NEW t \in Seq(Nat), NEW n \in Nat, n > 0, Len(t) = n,
           \A i \in 1 .. n : \A j \in 1 .. i - 1 : t[j] < t[i],
           (t[n] - filter_length + 1) .. t[n] \subseteq Range(t)
    PROVE  Convolved([i \in DOMAIN t |-> Value(t[i])])
                = Convolved([k \in 1 .. filter_length |->
                                Value(t[n] - filter_length + k)])
<1> DEFINE l == filter_length
           v == [i \in DOMAIN t |-> Value(t[i])]
           w == [k \in 1 .. l |-> Value(t[n] - l + k)]
<1>1. l \in Nat
    BY ResponseLength DEF Responses
<1> HIDE DEF l
<1>2. \A k \in Nat : k < l => k < n /\ t[n - k] = t[n] - k
    BY <1>1, LastSamples DEF l
<1>3. DOMAIN t = 1 .. n /\ \A i \in 1 .. n : t[i] \in Nat
    OBVIOUS
<1>4. ASSUME NEW k \in 1 .. l
      PROVE  /\ k <= n /\ n + 1 - k \in 1 .. n
             /\ t[n + 1 - k] = t[n] - l + (l + 1 - k)
             /\ l + 1 - k \in 1 .. l
  <2>1. k - 1 \in Nat /\ k - 1 < l /\ n - (k - 1) = n + 1 - k
    BY <1>1
  <2>2. k - 1 < n /\ t[n - (k - 1)] = t[n] - (k - 1)
    BY <1>2, <2>1
  <2>3. t[n] \in Nat
    BY <1>3
  <2> QED
    BY <1>1, <2>1, <2>2, <2>3
<1>5. v \in Seq(Int) /\ Len(v) = n /\ \A i \in 1 .. n : v[i] = Value(t[i])
  <2>1. \A i \in 1 .. n : Value(t[i]) \in Int
    BY <1>3, ValueType
  <2>2. v \in [1 .. n -> Int] /\ DOMAIN v = 1 .. n
    BY <1>3, <2>1
  <2>3. \A i \in 1 .. n : v[i] = Value(t[i])
    BY <1>3
  <2> HIDE DEF v
  <2>4. v \in Seq(Int)
    BY <2>2, SeqDef
  <2> QED
    BY <2>2, <2>3, <2>4, LenProperties
<1>6. w \in Seq(Int) /\ Len(w) = l /\ \A k \in 1 .. l : w[k] = Value(t[n] - l + k)
  <2>1. ASSUME NEW k \in 1 .. l PROVE Value(t[n] - l + k) \in Int
    <3>1. l + 1 - k \in 1 .. l /\ l + 1 - (l + 1 - k) = k
      BY <1>1
    <3>2. n + 1 - (l + 1 - k) \in 1 .. n
          /\ t[n + 1 - (l + 1 - k)] = t[n] - l + (l + 1 - (l + 1 - k))
      BY <1>4, <3>1
    <3>3. t[n] - l + k \in Nat
      BY <1>3, <3>1, <3>2
    <3> QED
      BY <3>3, ValueType
  <2>2. w \in [1 .. l -> Int] /\ DOMAIN w = 1 .. l
    BY <2>1
  <2>3. \A k \in 1 .. l : w[k] = Value(t[n] - l + k)
    OBVIOUS
  <2> HIDE DEF w
  <2>4. w \in Seq(Int)
    BY <1>1, <2>2, SeqDef
  <2> QED
    BY <1>1, <2>2, <2>3, <2>4, LenProperties
<1> HIDE DEF v, w
<1>7. \A k \in 1 .. l : k <= Len(v) /\ v[Len(v) + 1 - k] = w[l + 1 - k]
    BY <1>4, <1>5, <1>6
<1>8. Convolved(v) = Convolved(w)
    BY <1>5, <1>6, <1>7, ConvolvedLast DEF l
<1> QED
    BY <1>8 DEF v, w, l

LEMMA MemoryDecimate ==
    ASSUME MarkInv, FilterInv, MemoryInv, decimate_block
    PROVE  MemoryInv'
<1>1. /\ Here = sample /\ Here' = sample + 1 /\ sample \in Nat
      /\ ~spoiled /\ UNCHANGED spoiled
    BY DecimateCounters DEF MarkInv, CountInv, decimate_block
<1> DEFINE n == Len(taken)
           t == taken'
<1>2. /\ taken \in Seq(Nat) /\ n \in Nat /\ t = Append(taken, sample)
      /\ \A i \in 1 .. n : taken[i] \in Nat
    BY DEF decimate_block, decimate_sample, FilterInv
<1>3. /\ t \in Seq(Nat) /\ Len(t) = n + 1 /\ t[n + 1] = sample
      /\ \A i \in 1 .. n : t[i] = taken[i]
    BY <1>1, <1>2, AppendProperties
<1>4. /\ \A i \in 1 .. n : taken[i] < sample
      /\ \A i \in 1 .. n : \A j \in 1 .. i - 1 : taken[j] < taken[i]
    BY <1>1 DEF MemoryInv
<1>5. Range(t) = Range(taken) \cup {sample}
  <2>1. DOMAIN t = 1 .. n + 1 /\ DOMAIN taken = 1 .. n
    BY <1>2, <1>3
  <2>2. \A i \in 1 .. n + 1 : i \in 1 .. n \/ i = n + 1
    BY <1>2
  <2> HIDE DEF t, n
  <2> QED
    BY <1>2, <1>3, <2>1, <2>2 DEF Range
<1> HIDE DEF n, t
<1>6. /\ \A i \in 1 .. n + 1 : t[i] < sample + 1
      /\ \A i \in 1 .. n + 1 : \A j \in 1 .. i - 1 : t[j] < t[i]
  <2>1. ASSUME NEW i \in 1 .. n + 1
        PROVE  t[i] < sample + 1 /\ \A j \in 1 .. i - 1 : t[j] < t[i]
    <3>1. CASE i \in 1 .. n
      <4>1. \A j \in 1 .. i - 1 : j \in 1 .. n
        BY <1>2, <3>1
      <4> QED
        BY <1>1, <1>2, <1>3, <1>4, <3>1, <4>1
    <3>2. CASE i = n + 1
      <4>1. \A j \in 1 .. i - 1 : j \in 1 .. n
        BY <1>2, <3>2
      <4> QED
        BY <1>1, <1>3, <1>4, <3>2, <4>1
    <3>3. i \in 1 .. n \/ i = n + 1
      BY <1>2
    <3> QED
      BY <3>1, <3>2, <3>3
  <2> QED
    BY <2>1
<1> DEFINE
     Fine(row) ==
        /\ \A e \in row.events : e \in Int /\ e < sample + 1
        /\ \A e \in row.events :
            (\A d \in row.events : d <= e)
            /\ (e - filter_length + 1) .. e \subseteq Range(t) =>
                row.x = Convolved([k \in 1 .. filter_length |->
                                        Value(e - filter_length + k)])
<1>7. ASSUME NEW row, Settled(row) PROVE Fine(row)
  <2>1. \A e \in row.events : e \in Int /\ e < sample
    BY <1>1, <1>7 DEF Settled, Older
  <2>2. ASSUME NEW e \in Int, e < sample,
               (e - filter_length + 1) .. e \subseteq Range(t)
        PROVE  Remembers(e)
    <3>1. filter_length \in Nat
      BY ResponseLength DEF Responses
    <3>2. sample \notin (e - filter_length + 1) .. e
      BY <1>1, <2>2, <3>1
    <3> QED
      BY <1>5, <2>2, <3>2 DEF Remembers
  <2>3. \A e \in row.events :
            (\A d \in row.events : d <= e)
            /\ (e - filter_length + 1) .. e \subseteq Range(t) =>
                row.x = Convolved([k \in 1 .. filter_length |->
                                        Value(e - filter_length + k)])
    BY <1>7, <2>1, <2>2 DEF Settled, Forgets
  <2>4. \A e \in row.events : e \in Int /\ e < sample + 1
    BY <1>1, <2>1
  <2> QED
    BY <2>3, <2>4
<1>8. ASSUME NEW i \in Rows PROVE Fine(Fresh[i])
  <2>1. Fresh[i].events = {}
    BY <1>8 DEF Fresh
  <2> QED
    BY <2>1
<1>9. SUFFICES \A i \in Rows : /\ Fine(block_out'[i])
                               /\ \A f \in DOMAIN contents' : Fine(contents'[f][i])
  <2>1. \A row : Fine(row) => Settled(row)'
    BY <1>1 DEF Settled, Older, Forgets, Remembers, Value, t
  <2>2. /\ \A i \in 1 .. Len(t) : t[i] < sample + 1
        /\ \A i \in 1 .. Len(t) : \A j \in 1 .. i - 1 : t[j] < t[i]
    BY <1>3, <1>6
  <2> HIDE DEF Fine
  <2> QED
    BY <1>1, <1>9, <2>1, <2>2 DEF MemoryInv, Rows, t
<1>10. ASSUME NEW i \in Rows
       PROVE  /\ Fine(block_out[i])
              /\ \A f \in DOMAIN contents : Fine(contents[f][i])
  <2> HIDE DEF Fine
  <2> QED
    BY <1>1, <1>7 DEF MemoryInv
<1>11. CASE ~WritesRow
  <2>1. UNCHANGED <<contents, block_out>>
    BY <1>11 DEF decimate_block, decimate_sample, output
  <2> HIDE DEF Fine
  <2> QED
    BY <1>10, <2>1
<1>12. CASE WritesRow
  <2> DEFINE w == Written
             new == [events |-> combine_events,
                     x |-> filter_output(filter_index', filter_buffer'),
                     id0 |-> update_t0]
  <2>1. out_pointer \in Rows /\ block_out = [r \in Rows |-> block_out[r]]
    BY DEF MarkInv, CountInv, DecimationTypeOK, Functional
  <2>2. w = [block_out EXCEPT ![out_pointer] = new]
    BY DEF Written
  <2>3. Fine(new)
    <3>1. Combs
      BY <1>12 DEF WritesRow
    <3>2. new.x = Convolved([i \in DOMAIN t |-> Value(t[i])])
      BY <3>1, OutputHolds DEF MarkInv, t
    <3>3. \A e \in accumulated_events : e \in Int /\ e < sample
      BY <1>1 DEF MarkInv, CountInv, Events
    <3>4. /\ \A e \in new.events : e \in Int /\ e < sample + 1
          /\ sample \in new.events
      BY <1>1, <3>3 DEF combine_events
    <3> HIDE DEF new
    <3>5. ASSUME NEW e \in new.events, \A d \in new.events : d <= e,
                 (e - filter_length + 1) .. e \subseteq Range(t)
          PROVE  new.x = Convolved([k \in 1 .. filter_length |->
                                        Value(e - filter_length + k)])
      <4>1. e = sample
        BY <1>1, <3>4, <3>5
      <4>2. n + 1 \in Nat /\ n + 1 > 0
        BY <1>2
      <4>3. Convolved([i \in DOMAIN t |-> Value(t[i])])
                = Convolved([k \in 1 .. filter_length |->
                                Value(t[n + 1] - filter_length + k)])
        BY <1>3, <1>6, <3>5, <4>1, <4>2, WrittenForgets
      <4> QED
        BY <1>3, <3>2, <4>1, <4>3
    <3> QED
      BY <3>4, <3>5
  <2> HIDE DEF new, w, Fine
  <2>4. \A i \in Rows : Fine(w[i])
    <3> TAKE i \in Rows
    <3>1. w[i] = new \/ w[i] = block_out[i]
      BY <2>1, <2>2
    <3> QED
      BY <1>10, <2>3, <3>1
  <2>5. /\ block_out' = IF Releases(FALSE) THEN Fresh ELSE w
        /\ IF Releases(FALSE) THEN contents' = Append(contents, w)
           ELSE UNCHANGED contents
    BY <1>12 DEF decimate_block, decimate_sample, advance_write_block, w
  <2>6. CASE Releases(FALSE)
    <3>1. \A f \in DOMAIN contents' :
            contents'[f] = w \/ (f \in DOMAIN contents /\ contents'[f] = contents[f])
      BY <2>5, <2>6, BlocksAppended DEF MarkInv, CountInv, Streams
    <3> QED
      BY <1>8, <1>10, <2>4, <2>5, <2>6, <3>1
  <2>7. CASE ~Releases(FALSE)
    BY <1>10, <2>4, <2>5, <2>7
  <2> QED
    BY <2>6, <2>7
<1> QED
    BY <1>11, <1>12

LEMMA MemoryNext ==
    MarkInv /\ FilterInv /\ MemoryInv /\ [Next]_vars => MemoryInv'
<1> SUFFICES ASSUME MarkInv, FilterInv, MemoryInv, [Next]_vars
             PROVE  MemoryInv'
    OBVIOUS
<1>1. ASSUME UNCHANGED <<taken, block_out, contents>>,
             ~spoiled' => ~spoiled /\ Here <= Here' /\ Here \in Int
                          /\ Here' \in Int
      PROVE  MemoryInv'
  <2> SUFFICES ASSUME ~spoiled' PROVE MemoryInv'
    BY DEF MemoryInv
  <2>1. \A row : Settled(row) => Settled(row)'
    BY <1>1, SettledKept
  <2>2. \A i \in 1 .. Len(taken) : taken[i] \in Nat
    BY DEF FilterInv
  <2>3. /\ \A i \in 1 .. Len(taken) : taken[i] < Here
        /\ \A i \in 1 .. Len(taken) : \A j \in 1 .. i - 1 : taken[j] < taken[i]
    BY <1>1 DEF MemoryInv
  <2>4. \A i \in 1 .. Len(taken) : taken[i] < Here'
    BY <1>1, <2>2, <2>3
  <2>5. \A i \in Rows : /\ Settled(block_out[i])
                        /\ \A f \in DOMAIN contents : Settled(contents[f][i])
    BY <1>1 DEF MemoryInv
  <2> QED
    BY <1>1, <2>1, <2>3, <2>4, <2>5 DEF MemoryInv, Rows
<1> QED
    BY <1>1, Unfiltered, MemoryGap, MemoryDecimate DEF MarkInv

\* A decimated block that follows another is seamless and goes on where that one
\* ended, although nothing is reset at a gap.  The filters are not reset either:
\* the value of a row is that of the samples without a gap as soon as there are
\* filter_length of them.
THEOREM GapsAreMarked == Spec => []DecimatedGapsAreMarked
<1>1. Init => FilterInv /\ MemoryInv
    BY FilterInit, MemoryInit
<1>2. MarkInv /\ FilterInv /\ MemoryInv /\ [Next]_vars
        => FilterInv' /\ MemoryInv'
    BY FilterNext, MemoryNext DEF MarkInv
<1>3. MarkInv /\ MemoryInv => DecimatedGapsAreMarked
  <2>1. ASSUME MarkInv, MemoryInv, ~spoiled, NEW f \in dec_stored, NEW i \in Rows
        PROVE  Forgets(contents[f][i])
    <3>1. f \in 1 .. dec_frame - 1
      BY <2>1 DEF MarkInv, CountInv, Streams
    <3>2. f \in DOMAIN contents
      BY <2>1, <3>1 DEF MarkInv, Functional
    <3> QED
      BY <2>1, <3>2 DEF MemoryInv, Settled
  <2> QED
    BY <2>1, RowsOfStored DEF MarkInv, Marked, DecimatedGapsAreMarked
<1> QED
    BY <1>1, <1>2, <1>3, Invariance, PTL DEF Spec

=============================================================================
