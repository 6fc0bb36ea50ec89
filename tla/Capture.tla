------------------------------- MODULE Capture -------------------------------
(***************************************************************************)
(* The client fa-capture (capture.c) and the server it talks to: options   *)
(* and mask are written as a request (capture.c, mask.c), the server reads *)
(* the request (reader.c, subscribe.c, mask.c) and sends what it asks for, *)
(* and the client has to know from its own options what comes next.        *)
(*                                                                         *)
(* A sample is its number in the archive; it is in block n \div BlockSize. *)
(* The stream may break anywhere, the user may interrupt, a write may fail.*)
(***************************************************************************)
EXTENDS Lines

CONSTANTS
    Masks,         \* sets of ids asked for
    Fields,        \* sets of fields asked for, of 0 .. 3
    BlockSize,     \* samples in a block of the stream
    BufferLines,   \* lines of samples in BUFFER_SIZE
    MaxSamples,    \* bound: samples sent
    Width,         \* bits of the number of samples in a matlab header
    TimeLength,    \* characters of a time in a request, seconds "." nanoseconds
    LineLimit      \* characters in a line that the server can read

ASSUME CaptureAssumption ==
    /\ \A m \in Masks : m # {} /\ m \subseteq 0 .. FaEntryCount - 1
    /\ \A f \in Fields : f # {} /\ f \subseteq 0 .. 3
    /\ {BlockSize, BufferLines, MaxSamples, Width} \subseteq Nat \ {0}
    /\ {TimeLength, LineLimit} \subseteq Nat
    /\ 2 ^ Width \in Nat \ {0}

VARIABLES
    opts, request,        \* the command line, and what is sent for it
    cpc, running,         \* the client
    sample_count, frames_written,
    timestamp_offset, lines_to_timestamp, timestamps_array,
    connected, sent,      \* the stream, and the number of samples taken from it
    first, count,         \* the server: first sample, number of them (0: no end)
    stamped,              \* has the timestamp of the current block been sent?
    head_count, frames,   \* the output
    misread               \* ghost: a value was taken for something else

capture == <<running, sample_count, frames_written, timestamp_offset,
             lines_to_timestamp, timestamps_array>>
stream == <<connected, sent, first, count, stamped>>
output == <<head_count, frames>>
vars == <<opts, request, cpc, capture, stream, output, misread>>

-----------------------------------------------------------------------------
(* Masks. *)

\* Of a number that is printed: an id, or 64 bits at most.
Digits(n) == CHOOSE d \in 1 .. 20 : n < 10 ^ d /\ (d = 1 \/ n >= 10 ^ (d - 1))

\* format_readable_mask: the ranges of ids, ...
Starts(mask) == {i \in mask : i - 1 \notin mask}
RangeEnd(mask, i) ==
    CHOOSE j \in mask : j >= i /\ i .. j \subseteq mask /\ j + 1 \notin mask
Ranges(mask) == {<<i, RangeEnd(mask, i)>> : i \in Starts(mask)}

\* ... their length in characters with "-" and ",", ...
RangeLength(r) ==
    Digits(r[1]) + IF r[2] > r[1] THEN 1 + Digits(r[2]) ELSE 0
ReadableLength(ranges) ==
    MapThenSumSet(LAMBDA r : 1 + RangeLength(r), ranges) - 1

\* ... and whether the last of them fits (value_len + 1 < length).
IsReadable(mask) == ReadableLength(Ranges(mask)) + 1 < FaEntryCount \div 4

\* format_raw_mask: a byte is two nibbles, the high one first, and the last byte
\* comes first.
Nibble(mask, i) == {b \in 0 .. 3 : 4 * i + b \in mask}
format_raw_mask(mask) ==
    [k \in 1 .. 2 * (FaEntryCount \div 8) |->
        LET byte == (FaEntryCount \div 8) - 1 - ((k - 1) \div 2)
            low == (k - 1) % 2
        IN Nibble(mask, 2 * byte + (1 - low))]

format_mask(mask) ==
    IF IsReadable(mask) THEN [raw |-> FALSE, digits |-> Ranges(mask)]
                        ELSE [raw |-> TRUE, digits |-> format_raw_mask(mask)]

\* parse_raw_mask: nibble i - 1 of what is left.
parse_raw_mask(nibbles) ==
    UNION {{4 * (FaEntryCount \div 4 - k) + b : b \in nibbles[k]} :
           k \in 1 .. FaEntryCount \div 4}

parse_mask(m) ==
    IF m.raw THEN parse_raw_mask(m.digits)
             ELSE UNION {r[1] .. r[2] : r \in m.digits}

-----------------------------------------------------------------------------
(* The command line. *)

Arguments ==
    [matlab : BOOLEAN, all_data : BOOLEAN, contiguous : BOOLEAN,
     check_id0 : BOOLEAN, save_id0 : BOOLEAN, continuous : BOOLEAN,
     decimated : BOOLEAN, end_specified : BOOLEAN, count : 0 .. MaxSamples,
     source : {"F", "D", "DD"}, fields : Fields, mask : Masks]

\* parse_opts: -D is -C too, a range of times has a start, -fF has no fields.
\* validate_args: the start of historical data is given, or else -C.
validate_args(o) ==
    /\ o.decimated => o.continuous
    /\ o.source = "F" => o.fields = {0}
    /\ o.continuous => ~o.end_specified
    /\ o.continuous \/ o.end_specified \/ o.count > 0
    /\ ~(o.continuous /\ o.contiguous)
    /\ ~(o.count > 0 /\ o.end_specified)
    /\ o.continuous => o.source = "F"
    /\ o.matlab => o.count < 2 ^ Width
    /\ o.save_id0 => o.matlab
    /\ o.check_id0 => o.contiguous

\* A letter for an option that is set.
Letter(ch, set) == IF set THEN <<ch>> ELSE <<>>

\* Mutant: the options for id0 come first.
format_read_optionsMoved(o) ==
    Letter("N", TRUE) \o Letter("A", o.all_data)
        \o Letter("Z", o.matlab /\ o.save_id0)
        \o Letter("T", o.matlab) \o Letter("E", o.matlab)
        \o Letter("C", o.contiguous) \o Letter("Z", o.contiguous /\ o.check_id0)

format_read_options(o) ==
    Letter("N", TRUE) \o Letter("A", o.all_data)
        \o Letter("T", o.matlab) \o Letter("E", o.matlab)
        \o Letter("Z", o.matlab /\ o.save_id0)
        \o Letter("C", o.contiguous) \o Letter("Z", o.contiguous /\ o.check_id0)

format_subscribe_options(o) ==
    Letter("T", o.matlab) \o Letter("E", o.matlab)
        \o Letter("Z", o.matlab /\ o.save_id0) \o Letter("D", o.decimated)

\* The fields of FA data are not mentioned.
request_data(o) ==
    IF o.continuous
    THEN [command |-> "S", mask |-> format_mask(o.mask),
          options |-> format_subscribe_options(o)]
    ELSE [command |-> "R", mask |-> format_mask(o.mask),
          options |-> format_read_options(o), source |-> o.source,
          fields |-> IF o.source = "F" THEN {} ELSE o.fields,
          end |-> IF o.end_specified THEN "E" ELSE "N", samples |-> o.count]

\* The characters of the request, but for the newline: command, source ("F",
\* "DF%u", "DDF%u"), mask, start, end or number of samples, options.
MaskLength(m) == IF m.raw THEN 1 + Len(m.digits) ELSE ReadableLength(m.digits)

SourceLength ==
    LET fields == Digits(MapThenSumSet(LAMBDA f : 2 ^ f, request.fields)) IN
    CASE request.source = "F" -> 1
      [] request.source = "D" -> 2 + fields
      [] request.source = "DD" -> 3 + fields

RequestLength ==
    1 + MaskLength(request.mask) + Len(request.options)
      + IF request.command = "S" THEN 0
        ELSE SourceLength + 1 + (1 + TimeLength)
                + (IF request.end = "E" THEN 2 + TimeLength
                                        ELSE 1 + Digits(request.samples))

-----------------------------------------------------------------------------
(* The server reads the request. *)

\* read_line: the line has to fit its buffer, "Read buffer exhausted".
RequestFits == RequestLength <= LineLimit

\* read_char: is the next letter this one?  If so it is taken.
read_char(s, ch) ==
    IF s # <<>> /\ Head(s) = ch THEN [ok |-> TRUE, rest |-> Tail(s)]
                                ELSE [ok |-> FALSE, rest |-> s]
read_char_if(c, s, ch) == IF c THEN read_char(s, ch) ELSE [ok |-> FALSE, rest |-> s]

\* parse_options of reader.c.
parse_read_options(s) ==
    LET n == read_char(s, "N")
        a == read_char(n.rest, "A")
        t == read_char(a.rest, "T")
        e == read_char_if(t.ok, t.rest, "E")
        ta == read_char_if(t.ok /\ ~e.ok, e.rest, "A")
        z == read_char(ta.rest, "Z")
        c == read_char(z.rest, "C")
        cz == read_char_if(c.ok, c.rest, "Z")
    IN [send_sample_count |-> n.ok, send_all_data |-> a.ok,
        send_timestamp |-> IF e.ok THEN "extended" ELSE IF ta.ok THEN "at end"
                           ELSE IF t.ok THEN "basic" ELSE "nothing",
        send_id0 |-> z.ok, only_contiguous |-> c.ok, check_id0 |-> cz.ok,
        decimated |-> FALSE, rest |-> cz.rest]

\* parse_options of subscribe.c; U is not for fa-capture to send.
parse_subscribe_options(s) ==
    LET t == read_char(s, "T")
        e == read_char_if(t.ok, t.rest, "E")
        z == read_char(e.rest, "Z")
        u == read_char(z.rest, "U")
        d == read_char(u.rest, "D")
    IN [send_sample_count |-> FALSE, send_all_data |-> FALSE,
        send_timestamp |-> IF e.ok THEN "extended"
                           ELSE IF t.ok THEN "basic" ELSE "nothing",
        send_id0 |-> z.ok, only_contiguous |-> FALSE, check_id0 |-> FALSE,
        decimated |-> d.ok, rest |-> d.rest]

\* parse_read_request, parse_source, parse_end; parse_subscription.
parse ==
    [options |-> IF request.command = "R"
                 THEN parse_read_options(request.options)
                 ELSE parse_subscribe_options(request.options),
     mask |-> parse_mask(request.mask),
     reader |-> IF request.command = "R" THEN request.source ELSE "F",
     data_mask |-> IF request.command = "R" /\ request.source # "F"
                   THEN request.fields ELSE {0}]

\* DO_PARSE: nothing may be left over; "Empty request mask".
parse_ok == parse.options.rest = <<>> /\ parse.mask # {}

Extended == parse.options.send_timestamp = "extended"

\* What a line is made of.
line ==
    IF request.command = "S" THEN copy_frame(parse.mask)
    ELSE IF parse.reader = "F" THEN fa_write_lines(mask_to_archive(parse.mask))
    ELSE d_write_lines(mask_to_archive(parse.mask), parse.data_mask)

-----------------------------------------------------------------------------
(* The server sends. *)

Next_sample == first + sent
BlockOf(n) == n \div BlockSize
Remaining == count = 0 \/ sent < count

\* What was sent up to here is not the end of a block.
WithinBlock(n) == n % BlockSize # 0

\* transfer_data and send_subscription: each block begins with its timestamp.
\* take lines is what happens on the server's side when the client takes n.
take_lines(n) ==
    /\ sent' = sent + n
    /\ stamped' = (Extended /\ stamped /\ WithinBlock(Next_sample + n))

\* Are the next n things lines?  A block has to be within its timestamp.
AreLines(n) ==
    Extended => stamped /\ (Next_sample % BlockSize) + n <= BlockSize

-----------------------------------------------------------------------------
(* The client. *)

Init ==
    /\ opts \in Arguments /\ validate_args(opts)
    /\ request = <<>>
    /\ cpc = "parsed" /\ running = TRUE
    /\ sample_count = opts.count /\ frames_written = 0
    /\ timestamp_offset = 0 /\ lines_to_timestamp = 0 /\ timestamps_array = <<>>
    /\ connected = TRUE /\ sent = 0 /\ first = 0 /\ count = 0
    /\ stamped = FALSE
    /\ head_count = 0 /\ frames = <<>>
    /\ misread = FALSE

finish(status) == cpc' = status

send_request ==
    /\ cpc = "parsed"
    /\ request' = request_data(opts)
    /\ cpc' = "requested"
    /\ UNCHANGED <<opts, capture, stream, output, misread>>

\* The server refuses, the request does not fit its buffer or what is asked for
\* is not there, or the connection is lost before the null byte.
check_response_fails ==
    /\ cpc = "requested"
    /\ finish("failed")
    /\ UNCHANGED <<opts, request, capture, stream, output, misread>>

\* The server accepts, and has found what there is: as many samples as asked
\* for, or fewer with option A; any number in a range of times.
check_response ==
    /\ cpc = "requested" /\ RequestFits /\ parse_ok
    /\ request.command = "R" => InArchive(parse.mask)
    /\ \E n \in 0 .. MaxSamples, o \in 0 .. BlockSize - 1 :
        /\ IF opts.continuous THEN n = 0 /\ o = 0
           ELSE /\ n > 0
                /\ opts.count > 0 =>
                    n = opts.count \/ (opts.all_data /\ n < opts.count)
        /\ count' = n /\ first' = o
    /\ cpc' = IF opts.continuous THEN "header" ELSE "count"
    /\ UNCHANGED <<opts, request, capture, connected, sent, stamped, output,
                   misread>>

\* capture_and_save: the sample count comes first for historical data.
read_sample_count ==
    /\ cpc = "count" /\ connected
    /\ sample_count' = count
    /\ misread' = ~parse.options.send_sample_count
    /\ cpc' = "header"
    /\ UNCHANGED <<opts, request, running, frames_written, timestamp_offset,
                   lines_to_timestamp, timestamps_array, stream, output>>

\* capture_matlab_data: the header of the timestamps, then the matlab header
\* with the number of samples expected; nothing of this in raw format.
read_header ==
    /\ cpc = "header"
    /\ opts.matlab => connected
    /\ misread' = (misread \/ opts.matlab # Extended)
    /\ timestamp_offset' = first % BlockSize
    /\ head_count' = sample_count % 2 ^ Width
    /\ cpc' = "capture"
    /\ UNCHANGED <<opts, request, running, sample_count, frames_written,
                   lines_to_timestamp, timestamps_array, stream, frames>>

\* "Invalid response from server", or the stream is at an end already.
read_fails ==
    /\ cpc \in {"count", "header"} /\ ~connected
    /\ finish("failed")
    /\ UNCHANGED <<opts, request, capture, stream, output, misread>>

NeedsTimestamp == opts.matlab /\ lines_to_timestamp = 0

\* The timestamp of a block, with id0 or without.
read_timestamp_block ==
    /\ cpc = "capture" /\ NeedsTimestamp /\ connected /\ Remaining
    /\ misread' = (misread \/ ~Extended \/ stamped
                    \/ opts.save_id0 # parse.options.send_id0)
    /\ stamped' = TRUE
    /\ timestamps_array' = Append(timestamps_array, BlockOf(Next_sample))
    /\ lines_to_timestamp' = BlockSize - timestamp_offset
    /\ timestamp_offset' = 0
    /\ cpc' = "lines"
    /\ UNCHANGED <<opts, request, running, sample_count, frames_written,
                   connected, sent, first, count, output>>

Least(S) == CHOOSE x \in S : \A y \in S : x <= y

\* Mutant: lines are read past the next timestamp.
lines_to_readPastBlock ==
    Least({BufferLines}
          \cup (IF sample_count > 0 THEN {sample_count - frames_written} ELSE {}))

\* As many as fit the buffer, belong to the block, and are still wanted.
lines_to_read ==
    Least({BufferLines}
          \cup (IF opts.matlab THEN {lines_to_timestamp} ELSE {})
          \cup (IF sample_count > 0 THEN {sample_count - frames_written} ELSE {}))

\* Lines come in one piece, shorter only where the stream ends or the read is
\* interrupted, and are written; then it is time to stop or to go on.
read_lines ==
    /\ cpc \in {"capture", "lines"}
    /\ cpc = "capture" => ~NeedsTimestamp
    /\ \E n \in 1 .. lines_to_read :
        /\ sent + n <= IF count = 0 THEN MaxSamples ELSE count
        /\ n < lines_to_read => ~connected \/ ~running
        /\ misread' = (misread \/ ~AreLines(n))
        /\ take_lines(n)
        /\ frames' = frames \o [i \in 1 .. n |-> Next_sample + i - 1]
        /\ frames_written' = frames_written + n
        /\ lines_to_timestamp' =
                IF opts.matlab THEN lines_to_timestamp - n ELSE 0
        /\ cpc' = IF ~running \/ sample_count \in 1 .. frames_written + n
                  THEN "written" ELSE "capture"
    /\ UNCHANGED <<opts, request, running, sample_count, timestamp_offset,
                   timestamps_array, connected, first, count, head_count>>

\* fread returns nothing: the end of the input.
end_of_input ==
    /\ cpc \in {"capture", "lines"}
    /\ ~connected \/ ~running \/ ~Remaining
    /\ cpc' = "written"
    /\ UNCHANGED <<opts, request, capture, stream, output, misread>>

\* fwrite fails.
write_fails ==
    /\ cpc \in {"capture", "lines", "header", "written"}
    /\ finish("failed")
    /\ UNCHANGED <<opts, request, capture, stream, output, misread>>

\* capture_raw_data: "Only captured".
finish_raw ==
    /\ cpc = "written" /\ ~opts.matlab
    /\ finish(IF opts.continuous \/ frames_written = sample_count
              THEN "ok" ELSE "failed")
    /\ UNCHANGED <<opts, request, capture, stream, output, misread>>

\* Mutant: the header is left as it was written first.
finish_matlabOnce ==
    /\ cpc = "written" /\ opts.matlab
    /\ finish("ok")
    /\ UNCHANGED <<opts, request, capture, stream, output, misread>>

\* The footer is written, and the header again if it was wrong; the output may
\* not be a file.
finish_matlab ==
    /\ cpc = "written" /\ opts.matlab
    /\ \/ /\ head_count' = IF frames_written = sample_count THEN head_count
                           ELSE frames_written % 2 ^ Width
          /\ finish("ok")
       \/ /\ frames_written # sample_count
          /\ UNCHANGED head_count
          /\ finish("failed")
    /\ UNCHANGED <<opts, request, capture, stream, frames, misread>>

\* Mutant: the footer is written as if the first block were complete.
WrittenTimesFromZero ==
    [k \in 1 .. frames_written % 2 ^ Width |->
        timestamps_array[(k - 1) \div BlockSize + 1] * BlockSize
            + ((k - 1) % BlockSize)]

\* buffered_convert_write, with convert_timestamps and convert_id0: the k-th
\* time is that of sample number so many of a block.  The number of times, like
\* that of samples in the header, is (uint32_t) frames_written.
WrittenTimes ==
    LET at(k) == (first % BlockSize) + k - 1 IN
    [k \in 1 .. frames_written % 2 ^ Width |->
        timestamps_array[at(k) \div BlockSize + 1] * BlockSize
            + (at(k) % BlockSize)]

-----------------------------------------------------------------------------
(* What happens to them. *)

disconnect ==
    /\ connected /\ cpc \notin {"parsed", "ok", "failed"}
    /\ connected' = FALSE
    /\ UNCHANGED <<opts, request, cpc, capture, sent, first, count, stamped,
                   output, misread>>

\* initialise_signal comes with the null byte.
interrupt_capture ==
    /\ running /\ cpc \notin {"parsed", "requested", "ok", "failed"}
    /\ running' = FALSE
    /\ UNCHANGED <<opts, request, cpc, sample_count, frames_written,
                   timestamp_offset, lines_to_timestamp, timestamps_array,
                   stream, output, misread>>

Next ==
    \/ send_request \/ check_response \/ check_response_fails
    \/ read_sample_count \/ read_header \/ read_fails
    \/ read_timestamp_block \/ read_lines \/ end_of_input \/ write_fails
    \/ finish_raw \/ finish_matlab
    \/ disconnect \/ interrupt_capture

Spec == Init /\ [][Next]_vars

-----------------------------------------------------------------------------
(* Properties. *)

\* Options, mask and source, formatted in capture.c and parsed in two other
\* files: the server takes from the letters what the command line meant, for
\* every combination that validate_args lets pass.  The mask survives in either
\* of its two forms, whichever is used.  It is so of the requests that fit the
\* server's buffer: read_line refuses the others, whatever they ask for.
RequestIsUnderstood ==
    cpc # "parsed" /\ RequestFits =>
        /\ parse_ok
        /\ parse.mask = opts.mask
        /\ parse.reader = opts.source
        /\ parse.data_mask = opts.fields
        /\ parse.options =
            [send_sample_count |-> ~opts.continuous,
             send_all_data |-> ~opts.continuous /\ opts.all_data,
             send_timestamp |-> IF opts.matlab THEN "extended" ELSE "nothing",
             send_id0 |-> opts.save_id0, only_contiguous |-> opts.contiguous,
             check_id0 |-> opts.check_id0, decimated |-> opts.decimated,
             rest |-> <<>>]

\* The line the server sends is as long as the client reads, and every entry is
\* where the ids and the dimensions in the file say it is, although the server
\* goes by the columns of its archive or by bytes of the mask.  The data of an
\* FA capture has the shape a replay wants ("data(xy, [id,] timebase)").
LinesAreAsLabelled ==
    cpc = "header" =>
        LET ids == compute_mask_ids(opts.mask)
            fields == Bits(opts.fields, 4)
        IN /\ Len(line) = line_size(opts.mask, opts.fields)
           /\ \A i \in DOMAIN ids, f \in DOMAIN fields :
                line[Place(opts.mask, opts.fields, f, i, 1) + 1]
                    = <<fields[f], ids[i]>>
           /\ opts.source = "F" => \A squeeze_matlab \in BOOLEAN :
                LET dims == Dims(opts.mask, opts.fields, sample_count, TRUE,
                                 squeeze_matlab)
                IN /\ Len(dims) \in 2 .. 3
                   /\ replay_columns(dims) = Len(ids)
                   /\ replay_row_count(dims) = sample_count

\* docs/fa-archiver.rst, "data = header data-block{K}": client and server agree
\* on what comes next, count, header, timestamp or line, whatever the first
\* offset, the size of the client's buffer and the number of samples.
ReadsStayInStep == ~misread

\* Every sample written, in order and without a break from the first, gets the
\* time of its own block and place, although the stream may end within a block
\* or just after a timestamp.  No time is that of another sample; there is one
\* for each sample as long as their number fits the 32 bits write_footer has for
\* it, and with 2^32 samples and more there are not enough.
FramesAreStamped ==
    /\ frames = [k \in 1 .. frames_written |-> first + k - 1]
    /\ opts.matlab =>
        /\ \A k \in DOMAIN WrittenTimes : WrittenTimes[k] = frames[k]
        /\ frames_written < 2 ^ Width => DOMAIN WrittenTimes = DOMAIN frames

\* A capture that succeeds is what its header says, and no more than was asked
\* for; in raw format, where there is no header, it is complete.  The number of
\* samples has to fit the header: "Too many samples for matlab format capture"
\* is only checked of the number on the command line.
OutputIsAsReported ==
    cpc = "ok" =>
        /\ opts.count > 0 => Len(frames) <= opts.count
        /\ opts.matlab /\ Len(frames) < 2 ^ Width /\ sample_count < 2 ^ Width =>
            head_count = Len(frames)
        /\ ~opts.matlab /\ ~opts.continuous => Len(frames) = count

=============================================================================
