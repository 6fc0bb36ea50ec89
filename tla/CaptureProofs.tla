---------------------------- MODULE CaptureProofs ----------------------------
(***************************************************************************)
(* Proofs about Capture: the server understands the request, client and    *)
(* server stay in step, a line of data is what the client takes it for,    *)
(* every sample gets the time of its block, and the header of the file     *)
(* says what is in it.                                                     *)
(***************************************************************************)
EXTENDS Capture, FiniteSetTheorems, WellFoundedInduction, SequenceTheorems, TLAPS

-----------------------------------------------------------------------------
(* Numbers. *)

\* Every set of numbers has a least one.
LEMMA LeastNumber ==
    ASSUME NEW S, S \subseteq Nat, S # {}
    PROVE  \E n \in S : \A m \in S : n <= m
<1> DEFINE less == OpToRel(<, Nat)
<1>1. IsWellFoundedOn(less, Nat)
    BY NatLessThanWellFounded
<1>2. \A x \in Nat, y \in Nat : y < x => <<y, x>> \in less
    BY DEF OpToRel
<1> HIDE DEF less
<1>3. PICK x \in S : \A y \in S : ~(<<y, x>> \in less)
    BY <1>1, WFMin
<1>4. ASSUME NEW y \in S PROVE x <= y
  <2>1. x \in Nat /\ y \in Nat
    OBVIOUS
  <2>2. ~(y < x)
    BY <1>2, <1>3, <2>1, Zenon
  <2> QED
    BY <2>1, <2>2
<1> QED
    BY <1>4

-----------------------------------------------------------------------------
(* The invariant. *)

TypeInv ==
    /\ opts \in Arguments
    /\ cpc \in {"parsed", "requested", "count", "header", "capture", "lines",
                "written", "ok", "failed"}
    /\ running \in BOOLEAN /\ connected \in BOOLEAN /\ stamped \in BOOLEAN
    /\ misread \in BOOLEAN
    /\ sample_count \in Nat /\ frames_written \in Nat
    /\ timestamp_offset \in Nat /\ lines_to_timestamp \in Nat
    /\ sent \in Nat /\ count \in Nat /\ first \in 0 .. BlockSize - 1
    /\ head_count \in Nat

\* The request is that of the command line.
RequestInv ==
    /\ validate_args(opts)
    /\ cpc # "parsed" => request = request_data(opts)

Before == {"parsed", "requested", "count", "header"}

\* Nothing was sent before the header.
BeforeInv ==
    cpc \in Before =>
        sent = 0 /\ lines_to_timestamp = 0 /\ ~stamped

\* What was taken from the stream is what was written.
FramesInv ==
    /\ frames_written = sent
    /\ frames = [k \in 1 .. sent |-> first + k - 1]

\* There is a timestamp for each block that was begun, and the current block is
\* without one only at its beginning.
TimestampsInv ==
    opts.matlab =>
        /\ timestamps_array =
            [b \in 1 .. BlockOf(Next_sample) + (IF stamped THEN 1 ELSE 0) |-> b - 1]
        /\ ~stamped => sent = 0 \/ Next_sample % BlockSize = 0

\* The client knows from its own counters where in a block the stream is.
PlaceInv ==
    cpc \in {"capture", "lines"} /\ opts.matlab =>
        /\ stamped =>
            /\ lines_to_timestamp = BlockSize - (Next_sample % BlockSize)
            /\ timestamp_offset = 0
        /\ ~stamped =>
            /\ lines_to_timestamp = 0
            /\ timestamp_offset = Next_sample % BlockSize
            /\ cpc = "capture"

\* The number of samples: asked for, found, expected and sent.
CountInv ==
    /\ opts.continuous => sample_count = opts.count /\ cpc # "count"
    /\ ~opts.continuous /\ cpc \notin {"parsed", "requested", "failed"} =>
        /\ count > 0
        /\ opts.count > 0 => count <= opts.count
        /\ cpc # "count" => sample_count = count
    /\ sample_count > 0 => sent <= sample_count
    /\ cpc \in {"capture", "lines", "written"} =>
        head_count = sample_count % 2 ^ Width
    /\ cpc = "ok" =>
        IF opts.matlab
        THEN sent < 2 ^ Width /\ sample_count < 2 ^ Width => head_count = sent
        ELSE opts.continuous \/ sent = sample_count

CaptureInv ==
    /\ TypeInv /\ RequestInv /\ BeforeInv /\ FramesInv /\ TimestampsInv
    /\ PlaceInv /\ CountInv
    /\ ReadsStayInStep

-----------------------------------------------------------------------------
(* Letters: what read_char finds of what was formatted. *)

Char == {"A", "C", "D", "E", "N", "T", "U", "Z"}

LEMMA LetterIsSeq ==
    ASSUME NEW ch \in Char, NEW set \in BOOLEAN
    PROVE  Letter(ch, set) \in Seq(Char)
<1>1. CASE set
  <2>1. <<ch>> \in Seq(Char)
      OBVIOUS
  <2> QED
      BY <1>1, <2>1 DEF Letter
<1>2. CASE ~set
    BY <1>2, EmptySeq DEF Letter
<1> QED
    BY <1>1, <1>2

\* None of these letters comes first.
StartsNotWith(s, chs) == s # <<>> => Head(s) \notin chs

LEMMA ReadLetter ==
    ASSUME NEW ch \in Char, NEW set \in BOOLEAN, NEW s \in Seq(Char),
           StartsNotWith(s, {ch})
    PROVE  read_char(Letter(ch, set) \o s, ch) = [ok |-> set, rest |-> s]
<1>1. CASE set
  <2> DEFINE t == <<ch>> \o s
  <2>1. t # <<>> /\ Head(t) = ch /\ Tail(t) = s
      OBVIOUS
  <2>2. Letter(ch, set) \o s = t
      BY <1>1 DEF Letter
  <2> HIDE DEF t
  <2> QED
      BY <1>1, <2>1, <2>2 DEF read_char
<1>2. CASE ~set
  <2>1. Letter(ch, set) \o s = s
      BY <1>2, ConcatEmptySeq DEF Letter
  <2> QED
      BY <1>2, <2>1 DEF read_char, StartsNotWith
<1> QED
    BY <1>1, <1>2

LEMMA LettersStart ==
    ASSUME NEW ch \in Char, NEW set \in BOOLEAN, NEW s \in Seq(Char),
           NEW chs, ch \notin chs, StartsNotWith(s, chs)
    PROVE  /\ Letter(ch, set) \o s \in Seq(Char)
           /\ StartsNotWith(Letter(ch, set) \o s, chs)
<1>1. Letter(ch, set) \in Seq(Char)
    BY LetterIsSeq
<1>2. Letter(ch, set) \o s \in Seq(Char)
    BY <1>1, ConcatProperties
<1>3. CASE set
  <2>1. Head(<<ch>> \o s) = ch
      OBVIOUS
  <2> QED
      BY <1>2, <1>3, <2>1 DEF Letter, StartsNotWith
<1>4. CASE ~set
  <2>1. Letter(ch, set) \o s = s
      BY <1>4, ConcatEmptySeq DEF Letter
  <2> QED
      BY <1>2, <2>1
<1> QED
    BY <1>3, <1>4

LEMMA NothingLeft ==
    /\ <<>> \in Seq(Char)
    /\ \A chs : StartsNotWith(<<>>, chs)
    /\ \A s \in Seq(Char) : s \o <<>> = s
    BY EmptySeq, ConcatEmptySeq DEF StartsNotWith

\* Concatenation is read from the right.
LEMMA FromTheRight ==
    ASSUME NEW a \in Seq(Char), NEW b \in Seq(Char), NEW c \in Seq(Char)
    PROVE  (a \o b) \o c = a \o (b \o c) /\ a \o b \in Seq(Char)
    BY ConcatAssociative, ConcatProperties
LEMMA Chars ==
    /\ "A" \in Char /\ "C" \in Char /\ "D" \in Char /\ "E" \in Char
    /\ "N" \in Char /\ "T" \in Char /\ "U" \in Char /\ "Z" \in Char
    BY DEF Char

LEMMA OptionTypes ==
    ASSUME NEW o \in Arguments, validate_args(o)
    PROVE  /\ o.matlab \in BOOLEAN /\ o.all_data \in BOOLEAN
           /\ o.contiguous \in BOOLEAN /\ o.check_id0 \in BOOLEAN
           /\ o.save_id0 \in BOOLEAN /\ o.continuous \in BOOLEAN
           /\ o.decimated \in BOOLEAN /\ o.end_specified \in BOOLEAN
           /\ o.count \in Nat /\ o.source \in {"F", "D", "DD"}
           /\ o.fields \in Fields /\ o.mask \in Masks
           /\ (o.matlab /\ o.save_id0) = o.save_id0
           /\ (o.contiguous /\ o.check_id0) = o.check_id0
           /\ o.decimated => o.continuous
           /\ o.continuous => o.source = "F" /\ ~o.contiguous
           /\ o.source = "F" => o.fields = {0}
<1>1. /\ o.matlab \in BOOLEAN /\ o.all_data \in BOOLEAN
      /\ o.contiguous \in BOOLEAN /\ o.check_id0 \in BOOLEAN
      /\ o.save_id0 \in BOOLEAN /\ o.continuous \in BOOLEAN
      /\ o.decimated \in BOOLEAN /\ o.end_specified \in BOOLEAN
    BY DEF Arguments
<1>2. /\ o.count \in Nat /\ o.source \in {"F", "D", "DD"}
      /\ o.fields \in Fields /\ o.mask \in Masks
    BY CaptureAssumption DEF Arguments
<1>3. /\ o.save_id0 => o.matlab
      /\ o.check_id0 => o.contiguous
    BY DEF validate_args
<1>4. /\ (o.matlab /\ o.save_id0) = o.save_id0
      /\ (o.contiguous /\ o.check_id0) = o.check_id0
    BY <1>1, <1>3, Zenon
<1>5. /\ o.decimated => o.continuous
      /\ o.continuous => o.source = "F" /\ ~o.contiguous
      /\ o.source = "F" => o.fields = {0}
    BY DEF validate_args
<1> QED
    BY <1>1, <1>2, <1>4, <1>5, Zenon

\* A request for historical data is read as it was meant.
LEMMA ReadOptionsSurvive ==
    ASSUME NEW o \in Arguments, validate_args(o)
    PROVE  parse_read_options(format_read_options(o)) =
            [send_sample_count |-> TRUE, send_all_data |-> o.all_data,
             send_timestamp |-> IF o.matlab THEN "extended" ELSE "nothing",
             send_id0 |-> o.save_id0, only_contiguous |-> o.contiguous,
             check_id0 |-> o.check_id0, decimated |-> FALSE, rest |-> <<>>]
<1>0. /\ o.matlab \in BOOLEAN /\ o.all_data \in BOOLEAN
      /\ o.contiguous \in BOOLEAN /\ o.check_id0 \in BOOLEAN
      /\ o.save_id0 \in BOOLEAN
      /\ (o.matlab /\ o.save_id0) = o.save_id0
      /\ (o.contiguous /\ o.check_id0) = o.check_id0
    BY OptionTypes
<1> DEFINE cz == Letter("Z", o.check_id0) \o <<>>
           c == Letter("C", o.contiguous) \o cz
           z == Letter("Z", o.save_id0) \o c
           e == Letter("E", o.matlab) \o z
           t == Letter("T", o.matlab) \o e
           a == Letter("A", o.all_data) \o t
           n == Letter("N", TRUE) \o a
<1>1. cz \in Seq(Char) /\ StartsNotWith(cz, {"A", "C", "E", "N", "T"})
  <2> DEFINE chs == {"A", "C", "E", "N", "T"}
  <2>1. StartsNotWith(<<>>, chs) /\ <<>> \in Seq(Char)
      BY NothingLeft
  <2>2. "Z" \notin chs
      OBVIOUS
  <2> HIDE DEF chs
  <2>3. cz \in Seq(Char) /\ StartsNotWith(cz, chs)
      BY <1>0, <2>1, <2>2, LettersStart, Chars
  <2> QED
      BY <2>3 DEF chs
<1>2. c \in Seq(Char) /\ StartsNotWith(c, {"A", "E", "N", "T", "Z"})
  <2>1. CASE o.contiguous
    <3>1. Letter("C", o.contiguous) = <<"C">>
        BY <2>1 DEF Letter
    <3> HIDE DEF cz
    <3>2. Letter("C", o.contiguous) \in Seq(Char)
        BY <1>0, LetterIsSeq, Chars
    <3>3. c \in Seq(Char) /\ Head(c) = "C"
        BY <1>1, <3>1, <3>2, ConcatProperties, Chars
    <3> HIDE DEF c
    <3> QED
        BY <3>3 DEF StartsNotWith
  <2>2. CASE ~o.contiguous
    <3>1. ~o.check_id0
        BY <1>0, <2>2
    <3>2. cz = <<>>
        BY <3>1, NothingLeft DEF Letter
    <3>3. c = <<>>
        BY <2>2, <3>2, NothingLeft DEF Letter
    <3> QED
        BY <3>3, NothingLeft
  <2> QED
      BY <1>0, <2>1, <2>2
<1> HIDE DEF cz
<1>3. z \in Seq(Char) /\ StartsNotWith(z, {"A", "E", "N", "T"})
  <2>1. StartsNotWith(c, {"A", "E", "N", "T"})
      BY <1>2 DEF StartsNotWith
  <2> HIDE DEF c
  <2> QED
      BY <1>0, <1>2, <2>1, LettersStart, Chars
<1> HIDE DEF c
<1>4. e \in Seq(Char) /\ StartsNotWith(e, {"A", "N", "T"})
  <2>1. StartsNotWith(z, {"A", "N", "T"})
      BY <1>3 DEF StartsNotWith
  <2> HIDE DEF z
  <2> QED
      BY <1>0, <1>3, <2>1, LettersStart, Chars
<1> HIDE DEF z
<1>5. t \in Seq(Char) /\ StartsNotWith(t, {"A", "N"})
  <2>1. StartsNotWith(e, {"A", "N"})
      BY <1>4 DEF StartsNotWith
  <2> HIDE DEF e
  <2> QED
      BY <1>0, <1>4, <2>1, LettersStart, Chars
<1> HIDE DEF e
<1>6. a \in Seq(Char) /\ StartsNotWith(a, {"N"})
  <2>1. StartsNotWith(t, {"N"})
      BY <1>5 DEF StartsNotWith
  <2> HIDE DEF t
  <2> QED
      BY <1>0, <1>5, <2>1, LettersStart, Chars
<1> HIDE DEF t, a
<1>7. format_read_options(o) = n
  <2> DEFINE ln == Letter("N", TRUE)
             la == Letter("A", o.all_data)
             lt == Letter("T", o.matlab)
             le == Letter("E", o.matlab)
             lz == Letter("Z", o.save_id0)
             lc == Letter("C", o.contiguous)
             lk == Letter("Z", o.check_id0)
  <2>1. /\ ln \in Seq(Char) /\ la \in Seq(Char) /\ lt \in Seq(Char)
        /\ le \in Seq(Char) /\ lz \in Seq(Char) /\ lc \in Seq(Char)
        /\ lk \in Seq(Char)
      BY <1>0, LetterIsSeq, Chars
  <2>2. format_read_options(o) = (((((ln \o la) \o lt) \o le) \o lz) \o lc) \o lk
      BY <1>0 DEF format_read_options
  <2>3. n = ln \o (la \o (lt \o (le \o (lz \o (lc \o (lk \o <<>>))))))
      BY DEF a, t, e, z, c, cz
  <2> DEFINE p2 == ln \o la
             p3 == p2 \o lt
             p4 == p3 \o le
             p5 == p4 \o lz
             q6 == lc \o lk
             q5 == lz \o q6
             q4 == le \o q5
             q3 == lt \o q4
             q2 == la \o q3
  <2>4. n = ln \o q2
      BY <2>1, <2>3, NothingLeft
  <2>5. format_read_options(o) = (p5 \o lc) \o lk
      BY <2>2
  <2> HIDE DEF ln, la, lt, le, lz, lc, lk, n
  <2>6. p2 \in Seq(Char)
    <3>1. ln \in Seq(Char) /\ la \in Seq(Char)
        BY <2>1
    <3> QED
        BY <3>1, ConcatProperties
  <2> HIDE DEF p2
  <2>7. p3 \in Seq(Char)
    <3>1. p2 \in Seq(Char) /\ lt \in Seq(Char)
        BY <2>1, <2>6
    <3> QED
        BY <3>1, ConcatProperties
  <2> HIDE DEF p3
  <2>8. p4 \in Seq(Char)
    <3>1. p3 \in Seq(Char) /\ le \in Seq(Char)
        BY <2>1, <2>7
    <3> QED
        BY <3>1, ConcatProperties
  <2> HIDE DEF p4
  <2>9. p5 \in Seq(Char)
    <3>1. p4 \in Seq(Char) /\ lz \in Seq(Char)
        BY <2>1, <2>8
    <3> QED
        BY <3>1, ConcatProperties
  <2> HIDE DEF p5
  <2>10. q6 \in Seq(Char)
    <3>1. lc \in Seq(Char) /\ lk \in Seq(Char)
        BY <2>1
    <3> QED
        BY <3>1, ConcatProperties
  <2> HIDE DEF q6
  <2>11. q5 \in Seq(Char)
    <3>1. lz \in Seq(Char) /\ q6 \in Seq(Char)
        BY <2>1, <2>10
    <3> QED
        BY <3>1, ConcatProperties
  <2> HIDE DEF q5
  <2>12. q4 \in Seq(Char)
    <3>1. le \in Seq(Char) /\ q5 \in Seq(Char)
        BY <2>1, <2>11
    <3> QED
        BY <3>1, ConcatProperties
  <2> HIDE DEF q4
  <2>13. q3 \in Seq(Char)
    <3>1. lt \in Seq(Char) /\ q4 \in Seq(Char)
        BY <2>1, <2>12
    <3> QED
        BY <3>1, ConcatProperties
  <2> HIDE DEF q3
  <2>14. (p5 \o lc) \o lk = p5 \o q6
    <3>1. p5 \in Seq(Char) /\ lc \in Seq(Char) /\ lk \in Seq(Char)
        BY <2>1, <2>9
    <3> QED
        BY <3>1, FromTheRight DEF q6
  <2>15. p5 \o q6 = p4 \o q5
    <3>1. p4 \in Seq(Char) /\ lz \in Seq(Char) /\ q6 \in Seq(Char)
        BY <2>1, <2>8, <2>10
    <3> QED
        BY <3>1, FromTheRight DEF p5, q5
  <2>16. p4 \o q5 = p3 \o q4
    <3>1. p3 \in Seq(Char) /\ le \in Seq(Char) /\ q5 \in Seq(Char)
        BY <2>1, <2>7, <2>11
    <3> QED
        BY <3>1, FromTheRight DEF p4, q4
  <2>17. p3 \o q4 = p2 \o q3
    <3>1. p2 \in Seq(Char) /\ lt \in Seq(Char) /\ q4 \in Seq(Char)
        BY <2>1, <2>6, <2>12
    <3> QED
        BY <3>1, FromTheRight DEF p3, q3
  <2>18. p2 \o q3 = ln \o q2
    <3>1. ln \in Seq(Char) /\ la \in Seq(Char) /\ q3 \in Seq(Char)
        BY <2>1, <2>13
    <3> QED
        BY <3>1, FromTheRight DEF p2
  <2> QED
      BY <2>4, <2>5, <2>14, <2>15, <2>16, <2>17, <2>18, Zenon
<1>8. read_char(n, "N") = [ok |-> TRUE, rest |-> a]
    BY <1>6, ReadLetter, Chars
<1>9. read_char(a, "A") = [ok |-> o.all_data, rest |-> t]
  <2>1. StartsNotWith(t, {"A"})
      BY <1>5 DEF StartsNotWith
  <2> QED
      BY <1>0, <1>5, <2>1, ReadLetter, Chars DEF a
<1>10. read_char(t, "T") = [ok |-> o.matlab, rest |-> e]
  <2>1. StartsNotWith(e, {"T"})
      BY <1>4 DEF StartsNotWith
  <2> QED
      BY <1>0, <1>4, <2>1, ReadLetter, Chars DEF t
<1>11. read_char_if(o.matlab, e, "E") = [ok |-> o.matlab, rest |-> z]
  <2>1. StartsNotWith(z, {"E"})
      BY <1>3 DEF StartsNotWith
  <2>2. read_char(e, "E") = [ok |-> o.matlab, rest |-> z]
      BY <1>0, <1>3, <2>1, ReadLetter, Chars DEF e
  <2>3. ~o.matlab => e = z
      BY <1>3, ConcatEmptySeq DEF e, Letter
  <2> QED
      BY <1>0, <2>2, <2>3 DEF read_char_if
<1>12. read_char_if(o.matlab /\ ~o.matlab, z, "A") = [ok |-> FALSE, rest |-> z]
    BY DEF read_char_if
<1>13. read_char(z, "Z") = [ok |-> o.save_id0, rest |-> c]
  <2>1. StartsNotWith(c, {"Z"})
      BY <1>2 DEF StartsNotWith
  <2> QED
      BY <1>0, <1>2, <2>1, ReadLetter, Chars DEF z
<1>14. read_char(c, "C") = [ok |-> o.contiguous, rest |-> cz]
  <2>1. StartsNotWith(cz, {"C"})
      BY <1>1 DEF StartsNotWith
  <2> QED
      BY <1>0, <1>1, <2>1, ReadLetter, Chars DEF c
<1>15. read_char_if(o.contiguous, cz, "Z") = [ok |-> o.check_id0, rest |-> <<>>]
  <2>1. read_char(cz, "Z") = [ok |-> o.check_id0, rest |-> <<>>]
      BY <1>0, NothingLeft, ReadLetter, Chars DEF cz
  <2>2. ~o.contiguous => ~o.check_id0 /\ cz = <<>>
      BY <1>0, NothingLeft DEF cz, Letter
  <2> QED
      BY <1>0, <2>1, <2>2 DEF read_char_if
<1> HIDE DEF n
<1> DEFINE pn == read_char(n, "N")
           pa == read_char(pn.rest, "A")
           pt == read_char(pa.rest, "T")
           pe == read_char_if(pt.ok, pt.rest, "E")
           pta == read_char_if(pt.ok /\ ~pe.ok, pe.rest, "A")
           pz == read_char(pta.rest, "Z")
           pc == read_char(pz.rest, "C")
           pcz == read_char_if(pc.ok, pc.rest, "Z")
<1>16. parse_read_options(n) =
        [send_sample_count |-> pn.ok, send_all_data |-> pa.ok,
         send_timestamp |-> IF pe.ok THEN "extended" ELSE IF pta.ok THEN "at end"
                            ELSE IF pt.ok THEN "basic" ELSE "nothing",
         send_id0 |-> pz.ok, only_contiguous |-> pc.ok, check_id0 |-> pcz.ok,
         decimated |-> FALSE, rest |-> pcz.rest]
    BY Zenon DEF parse_read_options
<1>17. pn.ok = TRUE /\ pn.rest = a
    BY <1>8
<1> HIDE DEF pn
<1>18. pa.ok = o.all_data /\ pa.rest = t
    BY <1>9, <1>17
<1> HIDE DEF pa
<1>19. pt.ok = o.matlab /\ pt.rest = e
    BY <1>10, <1>18
<1> HIDE DEF pt
<1>20. pe.ok = o.matlab /\ pe.rest = z
    BY <1>11, <1>19
<1> HIDE DEF pe
<1>21. pta.ok = FALSE /\ pta.rest = z
    BY <1>19, <1>20 DEF read_char_if
<1> HIDE DEF pta
<1>22. pz.ok = o.save_id0 /\ pz.rest = c
    BY <1>13, <1>21
<1> HIDE DEF pz
<1>23. pc.ok = o.contiguous /\ pc.rest = cz
    BY <1>14, <1>22
<1> HIDE DEF pc
<1>24. pcz.ok = o.check_id0 /\ pcz.rest = <<>>
    BY <1>15, <1>23
<1> HIDE DEF pcz
<1>25. (IF pe.ok THEN "extended" ELSE IF pta.ok THEN "at end"
                 ELSE IF pt.ok THEN "basic" ELSE "nothing")
        = IF o.matlab THEN "extended" ELSE "nothing"
    BY <1>0, <1>19, <1>20, <1>21, Zenon
<1> QED
    BY <1>7, <1>16, <1>17, <1>18, <1>22, <1>23, <1>24, <1>25, Zenon

\* So is a subscription, where a letter is looked for that is not sent.
LEMMA SubscribeOptionsSurvive ==
    ASSUME NEW o \in Arguments, validate_args(o)
    PROVE  parse_subscribe_options(format_subscribe_options(o)) =
            [send_sample_count |-> FALSE, send_all_data |-> FALSE,
             send_timestamp |-> IF o.matlab THEN "extended" ELSE "nothing",
             send_id0 |-> o.save_id0, only_contiguous |-> FALSE,
             check_id0 |-> FALSE, decimated |-> o.decimated, rest |-> <<>>]
<1>0. /\ o.matlab \in BOOLEAN /\ o.save_id0 \in BOOLEAN /\ o.decimated \in BOOLEAN
      /\ (o.matlab /\ o.save_id0) = o.save_id0
    BY OptionTypes
<1> DEFINE d == Letter("D", o.decimated) \o <<>>
           z == Letter("Z", o.save_id0) \o d
           e == Letter("E", o.matlab) \o z
           t == Letter("T", o.matlab) \o e
<1>1. d \in Seq(Char) /\ StartsNotWith(d, {"E", "T", "U", "Z"})
  <2> DEFINE chs == {"E", "T", "U", "Z"}
  <2>1. StartsNotWith(<<>>, chs) /\ <<>> \in Seq(Char)
      BY NothingLeft
  <2>2. "D" \notin chs
      OBVIOUS
  <2> HIDE DEF chs
  <2>3. d \in Seq(Char) /\ StartsNotWith(d, chs)
      BY <1>0, <2>1, <2>2, LettersStart, Chars
  <2> QED
      BY <2>3 DEF chs
<1>2. z \in Seq(Char) /\ StartsNotWith(z, {"E", "T"})
  <2>1. StartsNotWith(d, {"E", "T"})
      BY <1>1 DEF StartsNotWith
  <2> HIDE DEF d
  <2> QED
      BY <1>0, <1>1, <2>1, LettersStart, Chars
<1>3. e \in Seq(Char) /\ StartsNotWith(e, {"T"})
  <2>1. StartsNotWith(z, {"T"})
      BY <1>2 DEF StartsNotWith
  <2> HIDE DEF z
  <2> QED
      BY <1>0, <1>2, <2>1, LettersStart, Chars
<1>4. format_subscribe_options(o) = t
  <2> DEFINE lt == Letter("T", o.matlab)
             le == Letter("E", o.matlab)
             lz == Letter("Z", o.save_id0)
             ld == Letter("D", o.decimated)
             p2 == lt \o le
             q2 == lz \o ld
             q3 == le \o q2
  <2>1. /\ lt \in Seq(Char) /\ le \in Seq(Char) /\ lz \in Seq(Char)
        /\ ld \in Seq(Char)
      BY <1>0, LetterIsSeq, Chars
  <2>2. format_subscribe_options(o) = (p2 \o lz) \o ld
      BY <1>0 DEF format_subscribe_options
  <2>3. t = lt \o q3
      BY <2>1, NothingLeft
  <2> HIDE DEF lt, le, lz, ld, t
  <2>4. p2 \in Seq(Char)
    <3>1. lt \in Seq(Char) /\ le \in Seq(Char)
        BY <2>1
    <3> QED
        BY <3>1, ConcatProperties
  <2> HIDE DEF p2
  <2>5. q2 \in Seq(Char)
    <3>1. lz \in Seq(Char) /\ ld \in Seq(Char)
        BY <2>1
    <3> QED
        BY <3>1, ConcatProperties
  <2>6. (p2 \o lz) \o ld = p2 \o q2
    <3>1. p2 \in Seq(Char) /\ lz \in Seq(Char) /\ ld \in Seq(Char)
        BY <2>1, <2>4
    <3> QED
        BY <3>1, FromTheRight
  <2> HIDE DEF q2
  <2>7. p2 \o q2 = lt \o q3
    <3>1. lt \in Seq(Char) /\ le \in Seq(Char) /\ q2 \in Seq(Char)
        BY <2>1, <2>5
    <3> QED
        BY <3>1, FromTheRight DEF p2
  <2> QED
      BY <2>2, <2>3, <2>6, <2>7, Zenon
<1>5. read_char(t, "T") = [ok |-> o.matlab, rest |-> e]
  <2> HIDE DEF e
  <2> QED
      BY <1>0, <1>3, ReadLetter, Chars
<1>6. read_char_if(o.matlab, e, "E") = [ok |-> o.matlab, rest |-> z]
  <2>1. StartsNotWith(z, {"E"})
      BY <1>2 DEF StartsNotWith
  <2> HIDE DEF z
  <2>2. read_char(e, "E") = [ok |-> o.matlab, rest |-> z]
      BY <1>0, <1>2, <2>1, ReadLetter, Chars
  <2>3. ~o.matlab => e = z
      BY <1>2, ConcatEmptySeq DEF Letter
  <2> QED
      BY <1>0, <2>2, <2>3 DEF read_char_if
<1>7. read_char(z, "Z") = [ok |-> o.save_id0, rest |-> d]
  <2>1. StartsNotWith(d, {"Z"})
      BY <1>1 DEF StartsNotWith
  <2> HIDE DEF d
  <2> QED
      BY <1>0, <1>1, <2>1, ReadLetter, Chars
<1>8. read_char(d, "U") = [ok |-> FALSE, rest |-> d]
  <2>1. d # <<>> => Head(d) # "U"
      BY <1>1 DEF StartsNotWith
  <2> HIDE DEF d
  <2> QED
      BY <2>1 DEF read_char
<1>9. read_char(d, "D") = [ok |-> o.decimated, rest |-> <<>>]
    BY <1>0, NothingLeft, ReadLetter, Chars
<1> HIDE DEF d, z, e, t
<1> DEFINE pt == read_char(t, "T")
           pe == read_char_if(pt.ok, pt.rest, "E")
           pz == read_char(pe.rest, "Z")
           pu == read_char(pz.rest, "U")
           pd == read_char(pu.rest, "D")
<1>10. parse_subscribe_options(t) =
        [send_sample_count |-> FALSE, send_all_data |-> FALSE,
         send_timestamp |-> IF pe.ok THEN "extended"
                            ELSE IF pt.ok THEN "basic" ELSE "nothing",
         send_id0 |-> pz.ok, only_contiguous |-> FALSE, check_id0 |-> FALSE,
         decimated |-> pd.ok, rest |-> pd.rest]
    BY Zenon DEF parse_subscribe_options
<1>11. pt.ok = o.matlab /\ pt.rest = e
    BY <1>5
<1> HIDE DEF pt
<1>12. pe.ok = o.matlab /\ pe.rest = z
    BY <1>6, <1>11
<1> HIDE DEF pe
<1>13. pz.ok = o.save_id0 /\ pz.rest = d
    BY <1>7, <1>12
<1> HIDE DEF pz
<1>14. pu.rest = d
    BY <1>8, <1>13
<1> HIDE DEF pu
<1>15. pd.ok = o.decimated /\ pd.rest = <<>>
    BY <1>9, <1>14
<1> HIDE DEF pd
<1>16. (IF pe.ok THEN "extended" ELSE IF pt.ok THEN "basic" ELSE "nothing")
        = IF o.matlab THEN "extended" ELSE "nothing"
    BY <1>0, <1>11, <1>12, Zenon
<1> QED
    BY <1>4, <1>10, <1>13, <1>15, <1>16, Zenon

-----------------------------------------------------------------------------
(* Masks: both forms stand for the ids they were made from. *)

LEMMA ReadableMaskSurvives ==
    ASSUME NEW mask, mask \subseteq 0 .. FaEntryCount - 1
    PROVE  UNION {r[1] .. r[2] : r \in Ranges(mask)} = mask
<1>1. FaEntryCount \in Nat
    BY LinesAssumption
<1>2. ASSUME NEW i \in mask
      PROVE  LET j == RangeEnd(mask, i)
             IN j \in mask /\ j >= i /\ i .. j \subseteq mask /\ j + 1 \notin mask
  <2> DEFINE after == {k \in Nat : k >= i /\ k \notin mask}
  <2>1. i \in Nat /\ \A k \in mask : k \in Nat /\ k < FaEntryCount
      BY <1>1
  <2>2. FaEntryCount \in after
      BY <1>1, <2>1
  <2>3. PICK n \in after : \A k \in after : n <= k
      BY <2>2, LeastNumber
  <2>4. n \in Nat /\ n > i
      BY <2>1
  <2>5. \A k \in i .. n - 1 : k \in mask
      BY <2>1, <2>3, <2>4
  <2>6. /\ n - 1 \in mask /\ n - 1 >= i
        /\ i .. n - 1 \subseteq mask
        /\ (n - 1) + 1 \notin mask
      BY <2>1, <2>4, <2>5
  <2>7. \E j \in mask : j >= i /\ i .. j \subseteq mask /\ j + 1 \notin mask
      BY <2>6
  <2> QED
      BY <2>7 DEF RangeEnd
<1>3. ASSUME NEW r \in Ranges(mask), NEW x \in r[1] .. r[2]
      PROVE  x \in mask
    BY <1>2 DEF Ranges, Starts
<1>4. ASSUME NEW x \in mask
      PROVE  \E r \in Ranges(mask) : x \in r[1] .. r[2]
  <2> DEFINE back == {d \in Nat : x - d - 1 \notin mask}
  <2>1. x \in Nat /\ \A k \in mask : k \in Nat /\ k < FaEntryCount
      BY <1>1
  <2>2. x \in back
      BY <2>1
  <2>3. PICK d \in back : \A k \in back : d <= k
      BY <2>2, LeastNumber
  <2>4. d \in Nat /\ x - d - 1 \notin mask
      OBVIOUS
  <2>5. \A k \in Nat : k < d => x - k - 1 \in mask
      BY <2>3
  <2>6. \A y \in x - d .. x : y \in mask
    <3> TAKE y \in x - d .. x
    <3>1. CASE y = x
        BY <3>1
    <3>2. CASE y # x
      <4>1. x - y - 1 \in Nat /\ x - y - 1 < d
          BY <2>1, <2>4, <3>2
      <4>2. x - (x - y - 1) - 1 = y
          BY <2>1, <2>4
      <4> QED
          BY <2>5, <4>1, <4>2
    <3> QED
        BY <3>1, <3>2
  <2> DEFINE s == x - d
             j == RangeEnd(mask, s)
  <2>7. s \in mask /\ s - 1 \notin mask /\ s <= x
      BY <2>1, <2>4, <2>6
  <2>8. j \in mask /\ j >= s /\ j + 1 \notin mask
      BY <1>2, <2>7
  <2>9. s \in Starts(mask)
      BY <2>7 DEF Starts
  <2>10. <<s, j>> \in Ranges(mask)
      BY <2>9 DEF Ranges
  <2> HIDE DEF j
  <2>11. j \in Nat
      BY <2>1, <2>8
  <2>12. x <= j
    <3>1. CASE j < x
      <4>1. j + 1 \in x - d .. x
          BY <2>1, <2>4, <2>8, <2>11, <3>1
      <4> QED
          BY <2>6, <2>8, <4>1
    <3> QED
        BY <2>1, <2>11, <3>1
  <2>13. x \in s .. j
      BY <2>1, <2>4, <2>7, <2>11, <2>12
  <2> QED
      BY <2>10, <2>13
<1> QED
    BY <1>3, <1>4

LEMMA Bytes ==
    LET h == FaEntryCount \div 8
    IN h \in Nat /\ FaEntryCount = 8 * h /\ FaEntryCount \div 4 = 2 * h
<1>1. FaEntryCount \in Nat /\ FaEntryCount % 8 = 0
    BY LinesAssumption
<1>2. \A n \in Nat : n % 8 = 0 =>
        n \div 8 \in Nat /\ n = 8 * (n \div 8) /\ n \div 4 = 2 * (n \div 8)
    OBVIOUS
<1> QED
    BY <1>1, <1>2

\* Nibble k from the left is nibble F \div 4 - k from the right.
LEMMA RawNibble ==
    ASSUME NEW mask, NEW k \in 1 .. FaEntryCount \div 4
    PROVE  format_raw_mask(mask)[k] = Nibble(mask, FaEntryCount \div 4 - k)
<1> DEFINE h == FaEntryCount \div 8
           byte == h - 1 - ((k - 1) \div 2)
           low == (k - 1) % 2
<1>1. h \in Nat /\ FaEntryCount \div 4 = 2 * h
    BY Bytes
<1>2. k \in 1 .. 2 * h
    BY <1>1
<1>3. format_raw_mask(mask)[k] = Nibble(mask, 2 * byte + (1 - low))
    BY <1>2 DEF format_raw_mask
<1>4. 2 * byte + (1 - low) = 2 * h - k
  <2>1. \A n \in Nat : n = 2 * (n \div 2) + (n % 2) /\ n \div 2 \in Nat /\ n % 2 \in 0 .. 1
      OBVIOUS
  <2>2. k - 1 \in Nat
      BY <1>2
  <2> HIDE DEF h
  <2> QED
      BY <1>1, <1>2, <2>1, <2>2
<1> QED
    BY <1>1, <1>3, <1>4

LEMMA RawMaskSurvives ==
    ASSUME NEW mask, mask \subseteq 0 .. FaEntryCount - 1
    PROVE  parse_raw_mask(format_raw_mask(mask)) = mask
<1> DEFINE q == FaEntryCount \div 4
           h == FaEntryCount \div 8
<1>1. h \in Nat /\ q = 2 * h /\ FaEntryCount = 8 * h
    BY Bytes
<1>2. parse_raw_mask(format_raw_mask(mask))
        = UNION {{4 * (q - k) + b : b \in Nibble(mask, q - k)} : k \in 1 .. q}
    BY RawNibble DEF parse_raw_mask
<1>3. ASSUME NEW k \in 1 .. q, NEW b \in Nibble(mask, q - k)
      PROVE  4 * (q - k) + b \in mask
    BY <1>3 DEF Nibble
<1> HIDE DEF q, h
<1>4. ASSUME NEW x \in mask
      PROVE  \E k \in 1 .. q : \E b \in Nibble(mask, q - k) : x = 4 * (q - k) + b
  <2>1. x \in Nat /\ x < 8 * h
      BY <1>1
  <2>2. \A n \in Nat : n = 4 * (n \div 4) + (n % 4) /\ n \div 4 \in Nat /\ n % 4 \in 0 .. 3
      OBVIOUS
  <2> DEFINE u == x \div 4
             b == x % 4
  <2>3. x = 4 * u + b /\ u \in Nat /\ b \in 0 .. 3
      BY <2>1, <2>2
  <2> HIDE DEF u, b
  <2>4. q - u \in 1 .. q /\ q - (q - u) = u
      BY <1>1, <2>1, <2>3
  <2>5. b \in Nibble(mask, u)
      BY <2>3 DEF Nibble
  <2> QED
      BY <2>3, <2>4, <2>5
<1> DEFINE all == UNION {{4 * (q - k) + b : b \in Nibble(mask, q - k)} : k \in 1 .. q}
<1>5. \A x : x \in all <=>
        \E k \in 1 .. q : \E b \in Nibble(mask, q - k) : x = 4 * (q - k) + b
    OBVIOUS
<1> HIDE DEF all
<1>6. all = mask
  <2>1. ASSUME NEW x, x \in all PROVE x \in mask
    <3>1. PICK k \in 1 .. q : \E b \in Nibble(mask, q - k) : x = 4 * (q - k) + b
        BY <1>5, <2>1, Zenon
    <3>2. PICK b \in Nibble(mask, q - k) : x = 4 * (q - k) + b
        BY <3>1, Zenon
    <3>3. 4 * (q - k) + b \in mask
        BY <1>3, Zenon
    <3> QED
        BY <3>2, <3>3, Zenon
  <2>2. \A x : x \in mask => x \in all
      BY <1>4, <1>5, Zenon
  <2> QED
      BY <2>1, <2>2, Zenon
<1> QED
    BY <1>2, <1>6 DEF all, q

LEMMA MaskSurvives ==
    ASSUME NEW mask \in Masks
    PROVE  parse_mask(format_mask(mask)) = mask /\ mask # {}
<1>1. mask # {} /\ mask \subseteq 0 .. FaEntryCount - 1
    BY CaptureAssumption
<1>2. CASE IsReadable(mask)
    BY <1>1, <1>2, ReadableMaskSurvives DEF parse_mask, format_mask
<1>3. CASE ~IsReadable(mask)
    BY <1>1, <1>3, RawMaskSurvives DEF parse_mask, format_mask
<1> QED
    BY <1>1, <1>2, <1>3

-----------------------------------------------------------------------------
(* The request. *)

\* Whatever the options, the server reads from the request what they mean.
LEMMA RequestSurvives ==
    ASSUME TypeInv, RequestInv, cpc # "parsed"
    PROVE  /\ parse_ok
           /\ parse.mask = opts.mask
           /\ parse.reader = opts.source
           /\ parse.data_mask = opts.fields
           /\ parse.options =
               [send_sample_count |-> ~opts.continuous,
                send_all_data |-> ~opts.continuous /\ opts.all_data,
                send_timestamp |-> IF opts.matlab THEN "extended" ELSE "nothing",
                send_id0 |-> opts.save_id0, only_contiguous |-> opts.contiguous,
                check_id0 |-> opts.check_id0, decimated |-> opts.decimated,
                rest |-> <<>>]
<1>1. opts \in Arguments /\ validate_args(opts) /\ request = request_data(opts)
    BY DEF TypeInv, RequestInv
<1>2. /\ opts.mask \in Masks /\ opts.source \in {"F", "D", "DD"}
      /\ opts.all_data \in BOOLEAN /\ opts.continuous \in BOOLEAN
      /\ opts.contiguous \in BOOLEAN /\ opts.check_id0 \in BOOLEAN
      /\ opts.decimated \in BOOLEAN
      /\ (opts.contiguous /\ opts.check_id0) = opts.check_id0
      /\ opts.decimated => opts.continuous
      /\ opts.continuous => opts.source = "F" /\ ~opts.contiguous
      /\ opts.source = "F" => opts.fields = {0}
    BY <1>1, OptionTypes
<1>3. parse_mask(format_mask(opts.mask)) = opts.mask /\ opts.mask # {}
    BY <1>2, MaskSurvives
<1>4. request.mask = format_mask(opts.mask)
    BY <1>1 DEF request_data
<1>5. parse.mask = opts.mask
    BY <1>3, <1>4 DEF parse
<1> DEFINE meant ==
               [send_sample_count |-> ~opts.continuous,
                send_all_data |-> ~opts.continuous /\ opts.all_data,
                send_timestamp |-> IF opts.matlab THEN "extended" ELSE "nothing",
                send_id0 |-> opts.save_id0, only_contiguous |-> opts.contiguous,
                check_id0 |-> opts.check_id0, decimated |-> opts.decimated,
                rest |-> <<>>]
<1>6. ASSUME opts.continuous
      PROVE  parse.options = meant /\ parse.reader = opts.source
             /\ parse.data_mask = opts.fields
  <2>1. /\ request.command = "S"
        /\ request.options = format_subscribe_options(opts)
      BY <1>1, <1>6 DEF request_data
  <2>2. parse.options = parse_subscribe_options(format_subscribe_options(opts))
      BY <2>1 DEF parse
  <2>3. /\ opts.contiguous = FALSE /\ opts.check_id0 = FALSE
        /\ (~opts.continuous) = FALSE
        /\ (~opts.continuous /\ opts.all_data) = FALSE
      BY <1>2, <1>6, Zenon
  <2>4. parse.options = meant
      BY <1>1, <2>2, <2>3, SubscribeOptionsSurvive, Zenon
  <2>5. parse.reader = opts.source /\ parse.data_mask = opts.fields
      BY <1>2, <1>6, <2>1 DEF parse
  <2> QED
      BY <2>4, <2>5
<1>7. ASSUME ~opts.continuous
      PROVE  parse.options = meant /\ parse.reader = opts.source
             /\ parse.data_mask = opts.fields
  <2>1. /\ request.command = "R"
        /\ request.options = format_read_options(opts)
        /\ request.source = opts.source
        /\ request.fields = IF opts.source = "F" THEN {} ELSE opts.fields
      BY <1>1, <1>7 DEF request_data
  <2>2. parse.options = parse_read_options(format_read_options(opts))
      BY <2>1 DEF parse
  <2>3. /\ opts.decimated = FALSE
        /\ (~opts.continuous) = TRUE
        /\ (~opts.continuous /\ opts.all_data) = opts.all_data
      BY <1>2, <1>7, Zenon
  <2>4. parse.options = meant
      BY <1>1, <2>2, <2>3, ReadOptionsSurvive, Zenon
  <2>5. parse.reader = opts.source /\ parse.data_mask = opts.fields
      BY <1>2, <1>7, <2>1 DEF parse
  <2> QED
      BY <2>4, <2>5
<1>8. parse.options = meant /\ parse.reader = opts.source
      /\ parse.data_mask = opts.fields
    BY <1>2, <1>6, <1>7
<1>9. parse_ok
  <2>1. parse.options.rest = <<>>
      BY <1>8
  <2> QED
      BY <1>3, <1>5, <2>1 DEF parse_ok
<1> QED
    BY <1>5, <1>8, <1>9

\* What the later steps need of it.
LEMMA ServerKnows ==
    ASSUME TypeInv, RequestInv, cpc # "parsed"
    PROVE  /\ Extended <=> opts.matlab
           /\ parse.options.send_id0 = opts.save_id0
           /\ parse.options.send_sample_count <=> ~opts.continuous
<1>1. opts.matlab \in BOOLEAN
    BY OptionTypes DEF TypeInv, RequestInv
<1>2. parse.options.send_timestamp = IF opts.matlab THEN "extended" ELSE "nothing"
    BY RequestSurvives
<1>3. Extended <=> opts.matlab
    BY <1>1, <1>2 DEF Extended
<1>4. /\ parse.options.send_id0 = opts.save_id0
      /\ parse.options.send_sample_count = ~opts.continuous
    BY RequestSurvives
<1> QED
    BY <1>3, <1>4

-----------------------------------------------------------------------------
(* The initial state. *)

LEMMA Constants ==
    /\ BlockSize \in Nat /\ BlockSize > 0
    /\ BufferLines \in Nat /\ BufferLines > 0
    /\ MaxSamples \in Nat
    /\ 2 ^ Width \in Nat /\ 2 ^ Width > 0
<1>1. /\ BlockSize \in Nat \ {0} /\ BufferLines \in Nat \ {0}
      /\ MaxSamples \in Nat \ {0} /\ 2 ^ Width \in Nat \ {0}
    BY CaptureAssumption
<1> DEFINE w == 2 ^ Width
<1> HIDE DEF w
<1> QED
    BY <1>1 DEF w

LEMMA BlockOfSmall ==
    ASSUME NEW n \in 0 .. BlockSize - 1
    PROVE  BlockOf(n) = 0 /\ n % BlockSize = n
<1>1. \A b, k \in Nat : b > 0 /\ k < b => k \div b = 0 /\ k % b = k
    OBVIOUS
<1> QED
    BY <1>1, Constants DEF BlockOf

LEMMA InitCapture == Init => CaptureInv
<1> SUFFICES ASSUME Init PROVE CaptureInv
    OBVIOUS
<1> USE DEF Init
<1>1. opts \in Arguments /\ validate_args(opts) /\ opts.count \in Nat
    BY OptionTypes
<1>2. TypeInv
  <2>1. 0 \in 0 .. BlockSize - 1
      BY Constants
  <2> QED
      BY <1>1, <2>1 DEF TypeInv
<1>3. RequestInv
    BY DEF RequestInv
<1>4. BeforeInv
    BY DEF BeforeInv
<1>5. FramesInv
    BY DEF FramesInv
<1>6. TimestampsInv
  <2>1. first + sent = 0 /\ 0 \in 0 .. BlockSize - 1
      BY Constants
  <2>2. BlockOf(Next_sample) = 0
      BY <2>1, BlockOfSmall DEF Next_sample
  <2> QED
      BY <2>2 DEF TimestampsInv
<1>7. PlaceInv
    BY DEF PlaceInv
<1>8. CountInv
    BY <1>1 DEF CountInv
<1> QED
    BY <1>2, <1>3, <1>4, <1>5, <1>6, <1>7, <1>8 DEF CaptureInv, ReadsStayInStep

-----------------------------------------------------------------------------
(* The steps that send nothing: each part of the invariant by itself. *)

LEMMA SendRequestStep ==
    ASSUME CaptureInv, send_request
    PROVE  CaptureInv'
<1>0. /\ TypeInv /\ RequestInv /\ BeforeInv /\ FramesInv /\ TimestampsInv
      /\ PlaceInv /\ CountInv /\ ReadsStayInStep
    BY DEF CaptureInv
<1> USE DEF send_request, capture, stream, output
<1>1. TypeInv'
    BY <1>0 DEF TypeInv, finish
<1>2. RequestInv'
    BY <1>0 DEF RequestInv, finish
<1>3. BeforeInv'
    BY <1>0 DEF BeforeInv, TypeInv, finish, Before
<1>4. FramesInv'
    BY <1>0 DEF FramesInv
<1>5. TimestampsInv'
    BY <1>0 DEF TimestampsInv, BlockOf, Next_sample
<1>6. PlaceInv'
    BY <1>0 DEF PlaceInv, BlockOf, Next_sample, TypeInv, finish, Before
<1>7. CountInv'
    BY <1>0 DEF CountInv, TypeInv, finish, Before
<1>8. ReadsStayInStep'
    BY <1>0 DEF ReadsStayInStep
<1> QED
    BY <1>1, <1>2, <1>3, <1>4, <1>5, <1>6, <1>7, <1>8 DEF CaptureInv

LEMMA ResponseFailsStep ==
    ASSUME CaptureInv, check_response_fails
    PROVE  CaptureInv'
<1>0. /\ TypeInv /\ RequestInv /\ BeforeInv /\ FramesInv /\ TimestampsInv
      /\ PlaceInv /\ CountInv /\ ReadsStayInStep
    BY DEF CaptureInv
<1> USE DEF check_response_fails, capture, stream, output
<1>1. TypeInv'
    BY <1>0 DEF TypeInv, finish
<1>2. RequestInv'
    BY <1>0 DEF RequestInv, finish
<1>3. BeforeInv'
    BY <1>0 DEF BeforeInv, TypeInv, finish, Before
<1>4. FramesInv'
    BY <1>0 DEF FramesInv
<1>5. TimestampsInv'
    BY <1>0 DEF TimestampsInv, BlockOf, Next_sample
<1>6. PlaceInv'
    BY <1>0 DEF PlaceInv, BlockOf, Next_sample, finish
<1>7. CountInv'
    BY <1>0 DEF CountInv, TypeInv, finish, Before
<1>8. ReadsStayInStep'
    BY <1>0 DEF ReadsStayInStep
<1> QED
    BY <1>1, <1>2, <1>3, <1>4, <1>5, <1>6, <1>7, <1>8 DEF CaptureInv

LEMMA ReadFailsStep ==
    ASSUME CaptureInv, read_fails
    PROVE  CaptureInv'
<1>0. /\ TypeInv /\ RequestInv /\ BeforeInv /\ FramesInv /\ TimestampsInv
      /\ PlaceInv /\ CountInv /\ ReadsStayInStep
    BY DEF CaptureInv
<1> USE DEF read_fails, capture, stream, output
<1>1. TypeInv'
    BY <1>0 DEF TypeInv, finish
<1>2. RequestInv'
    BY <1>0 DEF RequestInv, finish
<1>3. BeforeInv'
    BY <1>0 DEF BeforeInv, TypeInv, finish, Before
<1>4. FramesInv'
    BY <1>0 DEF FramesInv
<1>5. TimestampsInv'
    BY <1>0 DEF TimestampsInv, BlockOf, Next_sample
<1>6. PlaceInv'
    BY <1>0 DEF PlaceInv, BlockOf, Next_sample, TypeInv, finish, Before
<1>7. CountInv'
    BY <1>0 DEF CountInv, TypeInv, finish, Before
<1>8. ReadsStayInStep'
    BY <1>0 DEF ReadsStayInStep
<1> QED
    BY <1>1, <1>2, <1>3, <1>4, <1>5, <1>6, <1>7, <1>8 DEF CaptureInv

LEMMA EndOfInputStep ==
    ASSUME CaptureInv, end_of_input
    PROVE  CaptureInv'
<1>0. /\ TypeInv /\ RequestInv /\ BeforeInv /\ FramesInv /\ TimestampsInv
      /\ PlaceInv /\ CountInv /\ ReadsStayInStep
    BY DEF CaptureInv
<1> USE DEF end_of_input, capture, stream, output
<1>1. TypeInv'
    BY <1>0 DEF TypeInv, finish
<1>2. RequestInv'
    BY <1>0 DEF RequestInv, finish
<1>3. BeforeInv'
    BY <1>0 DEF BeforeInv, TypeInv, finish, Before
<1>4. FramesInv'
    BY <1>0 DEF FramesInv
<1>5. TimestampsInv'
    BY <1>0 DEF TimestampsInv, BlockOf, Next_sample
<1>6. PlaceInv'
    BY <1>0 DEF PlaceInv, BlockOf, Next_sample, TypeInv, finish, Before
<1>7. CountInv'
    BY <1>0 DEF CountInv, TypeInv, finish, Before
<1>8. ReadsStayInStep'
    BY <1>0 DEF ReadsStayInStep
<1> QED
    BY <1>1, <1>2, <1>3, <1>4, <1>5, <1>6, <1>7, <1>8 DEF CaptureInv

LEMMA WriteFailsStep ==
    ASSUME CaptureInv, write_fails
    PROVE  CaptureInv'
<1>0. /\ TypeInv /\ RequestInv /\ BeforeInv /\ FramesInv /\ TimestampsInv
      /\ PlaceInv /\ CountInv /\ ReadsStayInStep
    BY DEF CaptureInv
<1> USE DEF write_fails, capture, stream, output
<1>1. TypeInv'
    BY <1>0 DEF TypeInv, finish
<1>2. RequestInv'
    BY <1>0 DEF RequestInv, finish
<1>3. BeforeInv'
    BY <1>0 DEF BeforeInv, TypeInv, finish, Before
<1>4. FramesInv'
    BY <1>0 DEF FramesInv
<1>5. TimestampsInv'
    BY <1>0 DEF TimestampsInv, BlockOf, Next_sample
<1>6. PlaceInv'
    BY <1>0 DEF PlaceInv, BlockOf, Next_sample, TypeInv, finish, Before
<1>7. CountInv'
    BY <1>0 DEF CountInv, TypeInv, finish, Before
<1>8. ReadsStayInStep'
    BY <1>0 DEF ReadsStayInStep
<1> QED
    BY <1>1, <1>2, <1>3, <1>4, <1>5, <1>6, <1>7, <1>8 DEF CaptureInv

LEMMA DisconnectStep ==
    ASSUME CaptureInv, disconnect
    PROVE  CaptureInv'
<1>0. /\ TypeInv /\ RequestInv /\ BeforeInv /\ FramesInv /\ TimestampsInv
      /\ PlaceInv /\ CountInv /\ ReadsStayInStep
    BY DEF CaptureInv
<1> USE DEF disconnect, capture, stream, output
<1>1. TypeInv'
    BY <1>0 DEF TypeInv, finish
<1>2. RequestInv'
    BY <1>0 DEF RequestInv, finish
<1>3. BeforeInv'
    BY <1>0 DEF BeforeInv, TypeInv, finish, Before
<1>4. FramesInv'
    BY <1>0 DEF FramesInv
<1>5. TimestampsInv'
    BY <1>0 DEF TimestampsInv, BlockOf, Next_sample
<1>6. PlaceInv'
    BY <1>0 DEF PlaceInv, BlockOf, Next_sample, TypeInv, finish, Before
<1>7. CountInv'
    BY <1>0 DEF CountInv, TypeInv, finish, Before
<1>8. ReadsStayInStep'
    BY <1>0 DEF ReadsStayInStep
<1> QED
    BY <1>1, <1>2, <1>3, <1>4, <1>5, <1>6, <1>7, <1>8 DEF CaptureInv

LEMMA InterruptStep ==
    ASSUME CaptureInv, interrupt_capture
    PROVE  CaptureInv'
<1>0. /\ TypeInv /\ RequestInv /\ BeforeInv /\ FramesInv /\ TimestampsInv
      /\ PlaceInv /\ CountInv /\ ReadsStayInStep
    BY DEF CaptureInv
<1> USE DEF interrupt_capture, capture, stream, output
<1>1. TypeInv'
    BY <1>0 DEF TypeInv, finish
<1>2. RequestInv'
    BY <1>0 DEF RequestInv, finish
<1>3. BeforeInv'
    BY <1>0 DEF BeforeInv, TypeInv, finish, Before
<1>4. FramesInv'
    BY <1>0 DEF FramesInv
<1>5. TimestampsInv'
    BY <1>0 DEF TimestampsInv, BlockOf, Next_sample
<1>6. PlaceInv'
    BY <1>0 DEF PlaceInv, BlockOf, Next_sample, TypeInv, finish, Before
<1>7. CountInv'
    BY <1>0 DEF CountInv, TypeInv, finish, Before
<1>8. ReadsStayInStep'
    BY <1>0 DEF ReadsStayInStep
<1> QED
    BY <1>1, <1>2, <1>3, <1>4, <1>5, <1>6, <1>7, <1>8 DEF CaptureInv

LEMMA CheckResponseStep ==
    ASSUME CaptureInv, check_response
    PROVE  CaptureInv'
<1>0. /\ TypeInv /\ RequestInv /\ BeforeInv /\ FramesInv /\ TimestampsInv
      /\ PlaceInv /\ CountInv /\ ReadsStayInStep
    BY DEF CaptureInv
<1> USE DEF check_response, capture, stream, output
<1>1. TypeInv'
    BY <1>0, Constants DEF TypeInv
<1>2. RequestInv'
    BY <1>0 DEF RequestInv
<1>3. BeforeInv'
    BY <1>0 DEF BeforeInv, Before
<1>4. FramesInv'
  <2>1. sent = 0 /\ frames_written = 0 /\ frames = [k \in 1 .. 0 |-> first + k - 1]
      BY <1>0 DEF BeforeInv, Before, FramesInv
  <2>2. \A a : [k \in 1 .. 0 |-> a + k - 1] = <<>>
      OBVIOUS
  <2> QED
      BY <2>1, <2>2 DEF FramesInv
<1>5. TimestampsInv'
  <2>1. sent = 0 /\ ~stamped /\ first \in 0 .. BlockSize - 1 /\ first' \in 0 .. BlockSize - 1
      BY <1>0 DEF BeforeInv, Before, TypeInv
  <2>2. BlockOf(first) = 0 /\ first + sent = first
      BY <2>1, BlockOfSmall
  <2>3. \A n \in 0 .. BlockSize - 1 : BlockOf(n) = 0 /\ n + 0 = n
      BY BlockOfSmall
  <2>4. opts.matlab => timestamps_array = [b \in 1 .. 0 |-> b - 1]
      BY <1>0, <2>1, <2>2 DEF TimestampsInv, Next_sample
  <2>5. BlockOf(first' + 0) = 0
      BY <2>1, <2>3
  <2> QED
      BY <2>1, <2>4, <2>5 DEF TimestampsInv, Next_sample, BlockOf
<1>6. PlaceInv'
    BY <1>0 DEF PlaceInv
<1>7. CountInv'
  <2>1. opts.count \in Nat /\ opts.continuous \in BOOLEAN
      BY <1>0, OptionTypes DEF TypeInv, RequestInv
  <2> QED
      BY <1>0, <2>1 DEF CountInv, TypeInv, BeforeInv, Before
<1>8. ReadsStayInStep'
    BY <1>0 DEF ReadsStayInStep
<1> QED
    BY <1>1, <1>2, <1>3, <1>4, <1>5, <1>6, <1>7, <1>8 DEF CaptureInv

LEMMA ReadSampleCountStep ==
    ASSUME CaptureInv, read_sample_count
    PROVE  CaptureInv'
<1>0. /\ TypeInv /\ RequestInv /\ BeforeInv /\ FramesInv /\ TimestampsInv
      /\ PlaceInv /\ CountInv /\ ReadsStayInStep
    BY DEF CaptureInv
<1> USE DEF read_sample_count, capture, stream, output
<1>1. TypeInv'
  <2>1. misread' \in BOOLEAN
      OBVIOUS
  <2> QED
      BY <1>0, <2>1 DEF TypeInv
<1>2. RequestInv'
    BY <1>0 DEF RequestInv
<1>3. BeforeInv'
    BY <1>0 DEF BeforeInv, Before
<1>4. FramesInv'
    BY <1>0 DEF FramesInv
<1>5. TimestampsInv'
    BY <1>0 DEF TimestampsInv, BlockOf, Next_sample
<1>6. PlaceInv'
    BY <1>0 DEF PlaceInv
<1>7. CountInv'
    BY <1>0 DEF CountInv, TypeInv, BeforeInv, Before
<1>8. ReadsStayInStep'
  <2>1. parse.options.send_sample_count <=> ~opts.continuous
      BY <1>0, ServerKnows
  <2>2. ~opts.continuous
      BY <1>0 DEF CountInv
  <2> QED
      BY <2>1, <2>2 DEF ReadsStayInStep
<1> QED
    BY <1>1, <1>2, <1>3, <1>4, <1>5, <1>6, <1>7, <1>8 DEF CaptureInv

LEMMA ReadHeaderStep ==
    ASSUME CaptureInv, read_header
    PROVE  CaptureInv'
<1>0. /\ TypeInv /\ RequestInv /\ BeforeInv /\ FramesInv /\ TimestampsInv
      /\ PlaceInv /\ CountInv /\ ReadsStayInStep
    BY DEF CaptureInv
<1> USE DEF read_header, capture, stream, output
<1>1. TypeInv'
  <2>1. misread' \in BOOLEAN
      OBVIOUS
  <2>2. \A a \in Nat, b \in Nat : b > 0 => a % b \in Nat
      OBVIOUS
  <2>3. timestamp_offset' \in Nat
      BY <1>0, <2>2, Constants DEF TypeInv
  <2>4. head_count' \in Nat
      BY <1>0, <2>2, Constants DEF TypeInv
  <2> QED
      BY <1>0, <2>1, <2>3, <2>4 DEF TypeInv
<1>2. RequestInv'
    BY <1>0 DEF RequestInv
<1>3. BeforeInv'
    BY <1>0 DEF BeforeInv, Before
<1>4. FramesInv'
    BY <1>0 DEF FramesInv
<1>5. TimestampsInv'
    BY <1>0 DEF TimestampsInv, BlockOf, Next_sample
<1>6. PlaceInv'
  <2>1. sent = 0 /\ lines_to_timestamp = 0 /\ ~stamped
      BY <1>0 DEF BeforeInv, Before
  <2>2. first + sent = first
      BY <1>0, <2>1 DEF TypeInv
  <2> QED
      BY <2>1, <2>2 DEF PlaceInv, Next_sample
<1>7. CountInv'
    BY <1>0 DEF CountInv, TypeInv, BeforeInv, Before
<1>8. ReadsStayInStep'
  <2>1. Extended <=> opts.matlab
      BY <1>0, ServerKnows
  <2>2. opts.matlab \in BOOLEAN /\ Extended \in BOOLEAN
      BY <1>0, OptionTypes DEF TypeInv, RequestInv, Extended
  <2>3. opts.matlab = Extended
      BY <2>1, <2>2, Zenon
  <2> QED
      BY <1>0, <2>3 DEF ReadsStayInStep
<1> QED
    BY <1>1, <1>2, <1>3, <1>4, <1>5, <1>6, <1>7, <1>8 DEF CaptureInv

-----------------------------------------------------------------------------
(* Timestamps and lines. *)

\* Numbers in a row, and one more of them or some more of them.
LEMMA AppendNumber ==
    ASSUME NEW n \in Nat
    PROVE  Append([b \in 1 .. n |-> b - 1], n) = [b \in 1 .. n + 1 |-> b - 1]
<1> DEFINE s == [b \in 1 .. n |-> b - 1]
           t == [b \in 1 .. n + 1 |-> b - 1]
<1>1. s \in Seq(Int) /\ Len(s) = n
    OBVIOUS
<1>2. t \in Seq(Int) /\ Len(t) = n + 1
    OBVIOUS
<1>3. /\ Append(s, n) \in Seq(Int) /\ Len(Append(s, n)) = n + 1
      /\ \A i \in 1 .. n : Append(s, n)[i] = s[i]
      /\ Append(s, n)[n + 1] = n
    BY <1>1, AppendProperties
<1>4. /\ \A i \in 1 .. n : t[i] = s[i]
      /\ t[n + 1] = n
    OBVIOUS
<1> HIDE DEF s, t
<1>5. \A i \in 1 .. n + 1 : Append(s, n)[i] = t[i]
    BY <1>3, <1>4
<1> QED
    BY <1>2, <1>3, <1>5, SeqEqual DEF s, t

LEMMA ConcatNumbers ==
    ASSUME NEW a \in Nat, NEW m \in Nat, NEW n \in Nat
    PROVE  [k \in 1 .. m |-> a + k - 1] \o [i \in 1 .. n |-> a + m + i - 1]
            = [k \in 1 .. m + n |-> a + k - 1]
<1> DEFINE s == [k \in 1 .. m |-> a + k - 1]
           t == [i \in 1 .. n |-> a + m + i - 1]
           u == [k \in 1 .. m + n |-> a + k - 1]
<1>1. s \in Seq(Int) /\ Len(s) = m
    OBVIOUS
<1>2. t \in Seq(Int) /\ Len(t) = n
    OBVIOUS
<1>3. u \in Seq(Int) /\ Len(u) = m + n
    OBVIOUS
<1>4. /\ s \o t \in Seq(Int) /\ Len(s \o t) = m + n
      /\ \A i \in 1 .. m + n : (s \o t)[i] = IF i <= m THEN s[i] ELSE t[i - m]
    BY <1>1, <1>2, ConcatProperties
<1>5. \A i \in 1 .. m + n : u[i] = IF i <= m THEN s[i] ELSE t[i - m]
  <2> TAKE i \in 1 .. m + n
  <2>1. u[i] = a + i - 1
      OBVIOUS
  <2>2. i <= m => s[i] = a + i - 1
      OBVIOUS
  <2>3. i > m => i - m \in 1 .. n
      OBVIOUS
  <2>4. i > m => t[i - m] = a + m + (i - m) - 1
      BY <2>3
  <2> HIDE DEF s, t, u
  <2> QED
      BY <2>1, <2>2, <2>4
<1> HIDE DEF s, t, u
<1>6. \A i \in 1 .. m + n : (s \o t)[i] = u[i]
    BY <1>4, <1>5
<1> QED
    BY <1>3, <1>4, <1>6, SeqEqual DEF s, t, u

\* Going on within a block, or to its end.
LEMMA WithinOneBlock ==
    ASSUME NEW a \in Nat, NEW n \in Nat, (a % BlockSize) + n <= BlockSize
    PROVE  /\ a % BlockSize \in 0 .. BlockSize - 1 /\ BlockOf(a) \in Nat
           /\ IF (a % BlockSize) + n = BlockSize
              THEN (a + n) % BlockSize = 0 /\ BlockOf(a + n) = BlockOf(a) + 1
              ELSE /\ (a + n) % BlockSize = (a % BlockSize) + n
                   /\ BlockOf(a + n) = BlockOf(a)
<1> DEFINE B == BlockSize
           q == a \div B
           r == a % B
<1>1. B \in Nat /\ B > 0
    BY Constants
<1> HIDE DEF B
<1>2. q \in Nat /\ r \in 0 .. B - 1 /\ a = B * q + r
    BY <1>1
<1>3. \A x, y, z \in Nat : z < y => (y * x + z) \div y = x /\ (y * x + z) % y = z
    OBVIOUS
<1> HIDE DEF q, r
<1>4. CASE r + n = B
  <2>1. a + n = B * (q + 1) + 0
      BY <1>1, <1>2, <1>4
  <2>2. (a + n) \div B = q + 1 /\ (a + n) % B = 0
      BY <1>1, <1>2, <1>3, <2>1
  <2> QED
      BY <1>2, <1>4, <2>2 DEF q, r, B, BlockOf
<1>5. CASE r + n # B
  <2>1. r + n < B /\ r + n \in Nat
      BY <1>1, <1>2, <1>5 DEF r, B
  <2>2. a + n = B * q + (r + n)
      BY <1>1, <1>2
  <2>3. (a + n) \div B = q /\ (a + n) % B = r + n
      BY <1>1, <1>2, <1>3, <2>1, <2>2
  <2> QED
      BY <1>2, <1>5, <2>3 DEF q, r, B, BlockOf
<1> QED
    BY <1>4, <1>5


LEMMA ReadTimestampStep ==
    ASSUME CaptureInv, read_timestamp_block
    PROVE  CaptureInv'
<1>0. /\ TypeInv /\ RequestInv /\ BeforeInv /\ FramesInv /\ TimestampsInv
      /\ PlaceInv /\ CountInv /\ ReadsStayInStep
    BY DEF CaptureInv
<1> USE DEF read_timestamp_block, capture, stream, output
<1>a. /\ Next_sample \in Nat /\ Next_sample % BlockSize \in 0 .. BlockSize - 1
      /\ BlockOf(Next_sample) \in Nat
  <2>1. Next_sample \in Nat
      BY <1>0 DEF TypeInv, Next_sample
  <2>2. \A a, b \in Nat : b > 0 => a % b \in 0 .. b - 1 /\ a \div b \in Nat
      OBVIOUS
  <2> HIDE DEF read_timestamp_block
  <2> QED
      BY <2>1, <2>2, Constants DEF BlockOf
<1>b. opts.matlab /\ ~stamped /\ timestamp_offset = Next_sample % BlockSize
  <2>1. opts.matlab /\ lines_to_timestamp = 0 /\ cpc = "capture"
      BY DEF NeedsTimestamp
  <2> DEFINE p == Next_sample % BlockSize
  <2>2. /\ stamped => lines_to_timestamp = BlockSize - p
        /\ ~stamped => timestamp_offset = p
      BY <1>0, <2>1 DEF PlaceInv
  <2>3. p \in 0 .. BlockSize - 1
      BY <1>a
  <2> HIDE DEF p
  <2>4. ~stamped
      BY <2>1, <2>2, <2>3, Constants
  <2> QED
      BY <2>1, <2>2, <2>4 DEF p
<1>1. TypeInv'
  <2>1. misread' \in BOOLEAN
      OBVIOUS
  <2>2. lines_to_timestamp' \in Nat
      BY <1>a, <1>b, Constants
  <2> QED
      BY <1>0, <2>1, <2>2 DEF TypeInv
<1>2. RequestInv'
    BY <1>0 DEF RequestInv
<1>3. BeforeInv'
    BY <1>0 DEF BeforeInv, Before
<1>4. FramesInv'
    BY <1>0 DEF FramesInv
<1>5. TimestampsInv'
  <2>1. timestamps_array = [b \in 1 .. BlockOf(Next_sample) |-> b - 1]
      BY <1>0, <1>a, <1>b DEF TimestampsInv
  <2>2. timestamps_array' = [b \in 1 .. BlockOf(Next_sample) + 1 |-> b - 1]
      BY <1>a, <2>1, AppendNumber
  <2> QED
      BY <2>2 DEF TimestampsInv, Next_sample, BlockOf
<1>6. PlaceInv'
    BY <1>b DEF PlaceInv, Next_sample
<1>7. CountInv'
    BY <1>0 DEF CountInv
<1>8. ReadsStayInStep'
  <2>1. Extended /\ parse.options.send_id0 = opts.save_id0
      BY <1>0, <1>b, ServerKnows
  <2> QED
      BY <1>0, <1>b, <2>1 DEF ReadsStayInStep
<1> QED
    BY <1>1, <1>2, <1>3, <1>4, <1>5, <1>6, <1>7, <1>8 DEF CaptureInv

\* No more lines are read than there are to the next timestamp, or to the end.
LEMMA LinesToRead ==
    ASSUME CaptureInv
    PROVE  /\ lines_to_read \in Nat
           /\ opts.matlab => lines_to_read <= lines_to_timestamp
           /\ sample_count > 0 => lines_to_read <= sample_count - sent
<1> DEFINE S == {BufferLines}
                \cup (IF opts.matlab THEN {lines_to_timestamp} ELSE {})
                \cup (IF sample_count > 0 THEN {sample_count - frames_written} ELSE {})
<1>1. /\ lines_to_timestamp \in Nat /\ sample_count \in Nat /\ sent \in Nat
      /\ frames_written = sent
      /\ sample_count > 0 => sent <= sample_count
    BY DEF CaptureInv, TypeInv, FramesInv, CountInv
<1>2. S \subseteq Nat /\ S # {}
    BY <1>1, Constants
<1>3. /\ opts.matlab => lines_to_timestamp \in S
      /\ sample_count > 0 => sample_count - sent \in S
    BY <1>1
<1>4. lines_to_read = Least(S)
    BY DEF lines_to_read
<1> HIDE DEF S
<1>5. \E n \in S : \A m \in S : n <= m
    BY <1>2, LeastNumber
<1>6. Least(S) \in S /\ \A m \in S : Least(S) <= m
    BY <1>5 DEF Least
<1> QED
    BY <1>2, <1>3, <1>4, <1>6

LEMMA ReadLinesStep ==
    ASSUME CaptureInv, read_lines
    PROVE  CaptureInv'
<1>0. /\ TypeInv /\ RequestInv /\ BeforeInv /\ FramesInv /\ TimestampsInv
      /\ PlaceInv /\ CountInv /\ ReadsStayInStep
    BY DEF CaptureInv
<1>a. PICK n \in 1 .. lines_to_read :
        /\ sent + n <= IF count = 0 THEN MaxSamples ELSE count
        /\ misread' = (misread \/ ~AreLines(n))
        /\ take_lines(n)
        /\ frames' = frames \o [i \in 1 .. n |-> Next_sample + i - 1]
        /\ frames_written' = frames_written + n
        /\ lines_to_timestamp' = IF opts.matlab THEN lines_to_timestamp - n ELSE 0
        /\ cpc' = IF ~running \/ sample_count \in 1 .. frames_written + n
                  THEN "written" ELSE "capture"
    BY DEF read_lines
<1>b. /\ cpc \in {"capture", "lines"}
      /\ cpc = "capture" => ~NeedsTimestamp
      /\ UNCHANGED <<opts, request, running, sample_count, timestamp_offset,
                     timestamps_array, connected, first, count, head_count>>
    BY DEF read_lines
<1>c. /\ n \in Nat /\ n > 0
      /\ opts.matlab => n <= lines_to_timestamp
      /\ sample_count > 0 => n <= sample_count - sent
  <2> DEFINE l == lines_to_read
  <2>1. l \in Nat /\ n \in 1 .. l
      BY LinesToRead
  <2>2. /\ opts.matlab => l <= lines_to_timestamp
        /\ sample_count > 0 => l <= sample_count - sent
      BY LinesToRead
  <2>3. lines_to_timestamp \in Nat /\ sample_count \in Nat /\ sent \in Nat
      BY <1>0 DEF TypeInv
  <2> HIDE DEF l
  <2> QED
      BY <2>1, <2>2, <2>3
<1> DEFINE a == first + sent
           p == a % BlockSize
<1>d. a \in Nat /\ Next_sample = a /\ p \in 0 .. BlockSize - 1 /\ BlockOf(a) \in Nat
  <2>1. a \in Nat
      BY <1>0 DEF TypeInv
  <2>2. \A x, y \in Nat : y > 0 => x % y \in 0 .. y - 1 /\ x \div y \in Nat
      OBVIOUS
  <2> HIDE DEF a
  <2> QED
      BY <2>1, <2>2, Constants DEF BlockOf, Next_sample, a
<1>e. ASSUME opts.matlab
      PROVE  /\ stamped
             /\ lines_to_timestamp = BlockSize - p
             /\ timestamp_offset = 0
             /\ p + n <= BlockSize
  <2>1. stamped
    <3>1. ~stamped => lines_to_timestamp = 0 /\ cpc = "capture"
        BY <1>0, <1>b, <1>e DEF PlaceInv
    <3> QED
        BY <1>b, <1>e, <3>1 DEF NeedsTimestamp
  <2>2. lines_to_timestamp = BlockSize - p /\ timestamp_offset = 0
      BY <1>0, <1>b, <1>d, <1>e, <2>1 DEF PlaceInv
  <2> HIDE DEF p
  <2> QED
      BY <1>c, <1>d, <1>e, <2>1, <2>2, Constants
<1>f. /\ sent' = sent + n /\ (first + sent)' = a + n
      /\ first \in Nat /\ sent \in Nat
  <2>1. sent' = sent + n /\ first' = first
      BY <1>a, <1>b DEF take_lines
  <2>2. first \in Nat /\ sent \in Nat
      BY <1>0 DEF TypeInv
  <2> QED
      BY <1>c, <2>1, <2>2
<1>g. ASSUME opts.matlab
      PROVE  IF p + n = BlockSize
             THEN /\ ~stamped'
                  /\ (a + n) % BlockSize = 0 /\ BlockOf(a + n) = BlockOf(a) + 1
             ELSE /\ stamped'
                  /\ (a + n) % BlockSize = p + n /\ BlockOf(a + n) = BlockOf(a)
  <2>1. IF p + n = BlockSize
        THEN (a + n) % BlockSize = 0 /\ BlockOf(a + n) = BlockOf(a) + 1
        ELSE (a + n) % BlockSize = p + n /\ BlockOf(a + n) = BlockOf(a)
      BY <1>c, <1>d, <1>e, <1>g, WithinOneBlock
  <2>2. Extended
      BY <1>0, <1>b, <1>g, ServerKnows
  <2>3. stamped' <=> (a + n) % BlockSize # 0
      BY <1>a, <1>d, <1>e, <1>g, <2>2 DEF take_lines, WithinBlock
  <2>4. p + n # 0
    <3> HIDE DEF p
    <3> QED
        BY <1>c, <1>d
  <2> HIDE DEF a, p
  <2> QED
      BY <2>1, <2>3, <2>4
<1> HIDE DEF a, p
<1>1. TypeInv'
  <2>1. misread' \in BOOLEAN /\ stamped' \in BOOLEAN
      BY <1>a DEF take_lines
  <2>2. /\ sent' \in Nat /\ frames_written' \in Nat
      BY <1>0, <1>a, <1>c, <1>f DEF TypeInv
  <2>3. lines_to_timestamp' \in Nat
      BY <1>0, <1>a, <1>c DEF TypeInv
  <2> QED
      BY <1>0, <1>a, <1>b, <2>1, <2>2, <2>3 DEF TypeInv
<1>2. RequestInv'
    BY <1>0, <1>a, <1>b DEF RequestInv
<1>3. BeforeInv'
    BY <1>a DEF BeforeInv, Before
<1>4. FramesInv'
  <2>1. frames = [k \in 1 .. sent |-> first + k - 1] /\ frames_written = sent
      BY <1>0 DEF FramesInv
  <2>2. frames' = frames \o [i \in 1 .. n |-> first + sent + i - 1]
      BY <1>a DEF Next_sample
  <2>3. frames' = [k \in 1 .. sent + n |-> first + k - 1]
      BY <1>c, <1>f, <2>1, <2>2, ConcatNumbers
  <2> QED
      BY <1>a, <1>b, <1>f, <2>1, <2>3 DEF FramesInv
<1>5. TimestampsInv'
  <2> SUFFICES ASSUME opts.matlab
               PROVE  /\ timestamps_array =
                            [b \in 1 .. BlockOf(a + n) + (IF stamped' THEN 1 ELSE 0) |-> b - 1]
                      /\ ~stamped' => (a + n) % BlockSize = 0
      BY <1>b, <1>f DEF TimestampsInv, Next_sample, BlockOf
  <2>1. timestamps_array = [b \in 1 .. BlockOf(a) + 1 |-> b - 1]
      BY <1>0, <1>d, <1>e DEF TimestampsInv
  <2>2. /\ BlockOf(a + n) + (IF stamped' THEN 1 ELSE 0) = BlockOf(a) + 1
        /\ ~stamped' => (a + n) % BlockSize = 0
      BY <1>d, <1>g
  <2> QED
      BY <2>1, <2>2
<1>6. PlaceInv'
  <2> SUFFICES ASSUME opts.matlab
               PROVE  /\ stamped' =>
                            /\ lines_to_timestamp - n = BlockSize - ((a + n) % BlockSize)
                            /\ timestamp_offset = 0
                      /\ ~stamped' =>
                            /\ lines_to_timestamp - n = 0
                            /\ timestamp_offset = (a + n) % BlockSize
      BY <1>a, <1>b, <1>f DEF PlaceInv, Next_sample
  <2> QED
      BY <1>c, <1>d, <1>e, <1>g, Constants
<1>7. CountInv'
  <2>1. sample_count \in Nat /\ count \in Nat
      BY <1>0 DEF TypeInv
  <2>2. sample_count > 0 => sent + n <= sample_count
      BY <1>c, <1>f, <2>1
  <2> QED
      BY <1>0, <1>a, <1>b, <1>f, <2>2 DEF CountInv
<1>8. ReadsStayInStep'
  <2>1. AreLines(n)
    <3>1. Extended => opts.matlab
        BY <1>0, <1>b, ServerKnows
    <3> QED
        BY <1>d, <1>e, <3>1 DEF AreLines, p
  <2> QED
      BY <1>0, <1>a, <2>1 DEF ReadsStayInStep
<1> QED
    BY <1>1, <1>2, <1>3, <1>4, <1>5, <1>6, <1>7, <1>8 DEF CaptureInv

LEMMA FinishRawStep ==
    ASSUME CaptureInv, finish_raw
    PROVE  CaptureInv'
<1>0. /\ TypeInv /\ RequestInv /\ BeforeInv /\ FramesInv /\ TimestampsInv
      /\ PlaceInv /\ CountInv /\ ReadsStayInStep
    BY DEF CaptureInv
<1> USE DEF finish_raw, capture, stream, output
<1>1. TypeInv'
    BY <1>0 DEF TypeInv, finish
<1>2. RequestInv'
    BY <1>0 DEF RequestInv, finish
<1>3. BeforeInv'
    BY <1>0 DEF BeforeInv, Before, finish
<1>4. FramesInv'
    BY <1>0 DEF FramesInv
<1>5. TimestampsInv'
    BY <1>0 DEF TimestampsInv, BlockOf, Next_sample
<1>6. PlaceInv'
    BY <1>0 DEF PlaceInv, finish
<1>7. CountInv'
    BY <1>0 DEF CountInv, FramesInv, finish
<1>8. ReadsStayInStep'
    BY <1>0 DEF ReadsStayInStep
<1> QED
    BY <1>1, <1>2, <1>3, <1>4, <1>5, <1>6, <1>7, <1>8 DEF CaptureInv

LEMMA FinishMatlabStep ==
    ASSUME CaptureInv, finish_matlab
    PROVE  CaptureInv'
<1>0. /\ TypeInv /\ RequestInv /\ BeforeInv /\ FramesInv /\ TimestampsInv
      /\ PlaceInv /\ CountInv /\ ReadsStayInStep
    BY DEF CaptureInv
<1> USE DEF finish_matlab, capture, stream, output
<1>1. TypeInv'
  <2>1. \A x \in Nat, y \in Nat : y > 0 => x % y \in Nat
      OBVIOUS
  <2>2. head_count' \in Nat
      BY <1>0, <2>1, Constants DEF TypeInv
  <2> QED
      BY <1>0, <2>2 DEF TypeInv, finish
<1>2. RequestInv'
    BY <1>0 DEF RequestInv, finish
<1>3. BeforeInv'
    BY <1>0 DEF BeforeInv, Before, finish
<1>4. FramesInv'
    BY <1>0 DEF FramesInv
<1>5. TimestampsInv'
    BY <1>0 DEF TimestampsInv, BlockOf, Next_sample
<1>6. PlaceInv'
    BY <1>0 DEF PlaceInv, finish
<1>7. CountInv'
  <2> DEFINE w == 2 ^ Width
  <2>1. \A x \in Nat, y \in Nat : y > 0 /\ x < y => x % y = x
      OBVIOUS
  <2>2. w \in Nat /\ w > 0
      BY Constants
  <2>3. sent \in Nat /\ sample_count \in Nat /\ frames_written = sent
        /\ head_count = sample_count % w
      BY <1>0 DEF TypeInv, FramesInv, CountInv
  <2>4. cpc' = "ok" =>
          head_count' = IF sent = sample_count THEN head_count ELSE sent % w
      BY <2>3 DEF finish
  <2> HIDE DEF w
  <2>5. cpc' = "ok" /\ sent < w /\ sample_count < w => head_count' = sent
      BY <2>1, <2>2, <2>3, <2>4
  <2> QED
      BY <1>0, <2>5 DEF CountInv, finish, w
<1>8. ReadsStayInStep'
    BY <1>0 DEF ReadsStayInStep
<1> QED
    BY <1>1, <1>2, <1>3, <1>4, <1>5, <1>6, <1>7, <1>8 DEF CaptureInv

LEMMA CaptureStutters ==
    ASSUME CaptureInv, UNCHANGED vars
    PROVE  CaptureInv'
<1> USE DEF vars, capture, stream, output
<1>1. TypeInv'
    BY DEF CaptureInv, TypeInv
<1>2. RequestInv' /\ BeforeInv' /\ FramesInv'
    BY DEF CaptureInv, RequestInv, BeforeInv, Before, FramesInv
<1>3. TimestampsInv' /\ PlaceInv'
    BY DEF CaptureInv, TimestampsInv, PlaceInv, BlockOf, Next_sample
<1>4. CountInv' /\ ReadsStayInStep'
    BY DEF CaptureInv, CountInv, ReadsStayInStep
<1> QED
    BY <1>1, <1>2, <1>3, <1>4 DEF CaptureInv

-----------------------------------------------------------------------------
(* Recursion over numbers. *)

\* A set of numbers with 0, and with n + 1 if it has n, has them all.
LEMMA Induction ==
    ASSUME NEW S, 0 \in S, \A n \in Nat : n \in S => n + 1 \in S
    PROVE  \A n \in Nat : n \in S
<1> SUFFICES ASSUME NEW n \in Nat, n \notin S PROVE FALSE
    OBVIOUS
<1> DEFINE T == {m \in Nat : m \notin S}
<1>1. PICK m \in T : \A k \in T : m <= k
    BY LeastNumber
<1>2. m # 0 /\ m - 1 \in Nat /\ m = (m - 1) + 1 /\ m \notin S
    BY <1>1
<1>3. m - 1 \in S
    BY <1>1, <1>2
<1> QED
    BY <1>2, <1>3

\* The function with a start and a step.
Follows(f, S, b, G) ==
    f \in [Nat -> S] /\ f[0] = b /\ \A n \in Nat : f[n + 1] = G[n][f[n]]

\* A start and a step give a function on the numbers.
LEMMA Recursion ==
    ASSUME NEW S, NEW b \in S, NEW G \in [Nat -> [S -> S]]
    PROVE  \E f : Follows(f, S, b, G)
<1> DEFINE Part(n) == {f \in [0 .. n -> S] :
                f[0] = b /\ \A k \in 0 .. n - 1 : f[k + 1] = G[k][f[k]]}
           Has == {n \in Nat : Part(n) # {}}
<1>1. 0 \in Has
  <2>1. [k \in 0 .. 0 |-> b] \in Part(0)
    OBVIOUS
  <2> QED
    BY <2>1
<1>2. ASSUME NEW n \in Nat, n \in Has PROVE n + 1 \in Has
  <2>1. PICK f \in Part(n) : TRUE
    BY <1>2
  <2> DEFINE g == [k \in 0 .. n + 1 |-> IF k = n + 1 THEN G[n][f[n]] ELSE f[k]]
  <2>2. f \in [0 .. n -> S] /\ f[0] = b
        /\ \A k \in 0 .. n - 1 : f[k + 1] = G[k][f[k]]
    BY <2>1
  <2>3. G[n][f[n]] \in S
    BY <2>2
  <2>4. g \in [0 .. n + 1 -> S] /\ g[0] = b
    BY <2>2, <2>3
  <2>5. ASSUME NEW k \in 0 .. n PROVE g[k + 1] = G[k][g[k]]
    <3>1. CASE k = n
      <4>1. g[n + 1] = G[n][f[n]] /\ g[n] = f[n]
        OBVIOUS
      <4> HIDE DEF g
      <4> QED
        BY <3>1, <4>1
    <3>2. CASE k # n
      <4>1. k \in 0 .. n - 1 /\ k + 1 # n + 1 /\ k # n + 1
        BY <3>2
      <4> QED
        BY <4>1, <2>2
    <3> QED
      BY <3>1, <3>2
  <2>6. (n + 1) - 1 = n
    OBVIOUS
  <2> HIDE DEF g
  <2>7. g \in Part(n + 1)
    BY <2>4, <2>5, <2>6
  <2> QED
    BY <2>7
<1>3. \A n \in Nat : Part(n) # {}
  <2> HIDE DEF Part
  <2>1. \A n \in Nat : n \in Has
    BY <1>1, <1>2, Induction
  <2> QED
    BY <2>1
<1> DEFINE part(n) == CHOOSE f \in Part(n) : TRUE
<1>4. ASSUME NEW n \in Nat PROVE part(n) \in Part(n)
    BY <1>3
<1> HIDE DEF part
<1>5. \A n \in Nat : part(n)[n] \in S
    BY <1>4
<1>6. ASSUME NEW m \in Nat, NEW n \in Nat, m <= n
      PROVE  part(n)[m] = part(m)[m]
  <2> DEFINE Same == {k \in Nat : k <= m => part(n)[k] = part(m)[k]}
  <2>1. part(m) \in Part(m) /\ part(n) \in Part(n)
    BY <1>4
  <2>2. 0 \in Same
    BY <2>1
  <2>3. ASSUME NEW k \in Nat, k \in Same PROVE k + 1 \in Same
    <3> SUFFICES ASSUME k + 1 <= m PROVE part(n)[k + 1] = part(m)[k + 1]
      OBVIOUS
    <3>1. k \in 0 .. m - 1 /\ k \in 0 .. n - 1 /\ k <= m
      BY <1>6
    <3>2. part(n)[k + 1] = G[k][part(n)[k]]
          /\ part(m)[k + 1] = G[k][part(m)[k]]
      BY <2>1, <3>1
    <3> QED
      BY <2>3, <3>1, <3>2
  <2> HIDE DEF Same
  <2>4. \A k \in Nat : k \in Same
    BY <2>2, <2>3, Induction
  <2> QED
    BY <2>4 DEF Same
<1> DEFINE f == [n \in Nat |-> part(n)[n]]
<1>7. f \in [Nat -> S]
    BY <1>5
<1>8. f[0] = b
    BY <1>4
<1>9. ASSUME NEW n \in Nat PROVE f[n + 1] = G[n][f[n]]
  <2>1. part(n + 1) \in Part(n + 1) /\ n \in 0 .. (n + 1) - 1
    BY <1>4
  <2>2. part(n + 1)[n + 1] = G[n][part(n + 1)[n]]
    BY <2>1
  <2>3. part(n + 1)[n] = part(n)[n]
    BY <1>6
  <2> QED
    BY <2>2, <2>3
<1> HIDE DEF f
<1>10. Follows(f, S, b, G)
    BY <1>7, <1>8, <1>9 DEF Follows
<1> QED
    BY <1>10

-----------------------------------------------------------------------------
(* The bits of a mask. *)

\* One more number to look at.
LEMMA BitsStep ==
    ASSUME NEW mask
    PROVE  /\ Bits(mask, 0) = <<>>
           /\ \A n \in Nat : Bits(mask, n) \in Seq(Nat)
           /\ \A n \in Nat : Bits(mask, n + 1) =
                IF n \in mask THEN Append(Bits(mask, n), n) ELSE Bits(mask, n)
<1> DEFINE G == [n \in Nat |-> [s \in Seq(Nat) |->
                    IF n \in mask THEN Append(s, n) ELSE s]]
<1>1. G \in [Nat -> [Seq(Nat) -> Seq(Nat)]]
  <2>1. \A n \in Nat, s \in Seq(Nat) : Append(s, n) \in Seq(Nat)
    BY AppendProperties
  <2> QED
    BY <2>1
<1>2. <<>> \in Seq(Nat)
    OBVIOUS
<1> HIDE DEF G
<1>3. PICK F \in [Nat -> Seq(Nat)] :
        F[0] = <<>> /\ \A n \in Nat : F[n + 1] = G[n][F[n]]
  <2>1. \E f : Follows(f, Seq(Nat), <<>>, G)
    BY <1>1, <1>2, Recursion
  <2> QED
    BY <2>1 DEF Follows
<1>4. ASSUME NEW n \in Nat
      PROVE  F[n + 1] = IF n \in mask THEN Append(F[n], n) ELSE F[n]
  <2>1. F[n] \in Seq(Nat)
    BY <1>3
  <2> QED
    BY <1>3, <2>1 DEF G
<1>5. ASSUME NEW n \in Nat PROVE Bits(mask, n) = F[n]
  <2> DEFINE E(f) == [k \in 0 .. n |->
            IF k = 0 THEN <<>>
            ELSE IF k - 1 \in mask THEN Append(f[k - 1], k - 1)
            ELSE f[k - 1]]
             g == [k \in 0 .. n |-> F[k]]
             bits == CHOOSE f : f = E(f)
  <2>1. g = E(g)
    <3>1. ASSUME NEW k \in 0 .. n PROVE g[k] = E(g)[k]
      <4>1. CASE k = 0
        BY <4>1, <1>3
      <4>2. CASE k # 0
        <5>1. k - 1 \in Nat /\ (k - 1) + 1 = k /\ k - 1 \in 0 .. n
          BY <4>2
        <5>2. F[k] = IF k - 1 \in mask THEN Append(F[k - 1], k - 1) ELSE F[k - 1]
          BY <5>1, <1>4
        <5> QED
          BY <4>2, <5>1, <5>2
      <4> QED
        BY <4>1, <4>2
    <3> QED
      BY <3>1
  <2>2. bits = E(bits)
    <3> HIDE DEF E, g
    <3> QED
      BY <2>1
  <2>3. Bits(mask, n) = bits[n]
    BY DEF Bits
  <2> HIDE DEF bits, g
  <2> DEFINE Same == {k \in Nat : k <= n => bits[k] = F[k]}
  <2>4. 0 \in Same
    BY <2>2, <1>3
  <2>5. ASSUME NEW k \in Nat, k \in Same PROVE k + 1 \in Same
    <3> SUFFICES ASSUME k + 1 <= n PROVE bits[k + 1] = F[k + 1]
      OBVIOUS
    <3>1. k + 1 \in 0 .. n /\ k + 1 # 0 /\ (k + 1) - 1 = k
      OBVIOUS
    <3>2. bits[k + 1] = IF k \in mask THEN Append(bits[k], k) ELSE bits[k]
      BY <2>2, <3>1
    <3>3. bits[k] = F[k]
      BY <2>5
    <3>4. F[k + 1] = IF k \in mask THEN Append(F[k], k) ELSE F[k]
      BY <1>4
    <3> QED
      BY <3>2, <3>3, <3>4
  <2> HIDE DEF Same
  <2>6. \A k \in Nat : k \in Same
    BY <2>4, <2>5, Induction
  <2> QED
    BY <2>3, <2>6 DEF Same
<1>6. \A n \in Nat : n + 1 \in Nat /\ F[n] \in Seq(Nat)
    BY <1>3
<1> QED
    BY <1>3, <1>4, <1>5, <1>6


\* How many are before a number of a mask.
Rank(mask, x) == Cardinality({i \in mask : i < x})

\* A rank counts those before.
LEMMA RankStep ==
    ASSUME NEW mask, mask \subseteq Nat
    PROVE  /\ Rank(mask, 0) = 0
           /\ \A n \in Nat : Rank(mask, n) \in Nat
           /\ \A n \in Nat : Rank(mask, n + 1) =
                IF n \in mask THEN Rank(mask, n) + 1 ELSE Rank(mask, n)
<1> DEFINE Below(n) == {i \in mask : i < n}
<1>0. \A i \in mask : i \in Nat
    OBVIOUS
<1>1. Below(0) = {}
  <2>1. \A i \in mask : ~(i < 0)
    BY <1>0
  <2> QED
    BY <2>1, Zenon
<1>2. ASSUME NEW n \in Nat PROVE IsFiniteSet(Below(n))
  <2>1. \A i \in mask : i < n => i \in 0 .. n - 1
    BY <1>0
  <2>2. Below(n) \subseteq 0 .. n - 1
    BY <2>1, Zenon
  <2>3. IsFiniteSet(0 .. n - 1)
    BY FS_Interval
  <2> QED
    BY <2>2, <2>3, FS_Subset
<1>a. ASSUME NEW n \in Nat
      PROVE  \A i \in mask : i < n + 1 <=> i < n \/ i = n
    BY <1>0
<1>b. \A n \in Nat : ~(n < n)
    OBVIOUS
<1>3. ASSUME NEW n \in Nat, n \in mask
      PROVE  Below(n + 1) = Below(n) \cup {n} /\ n \notin Below(n)
  <2>1. Below(n + 1) = Below(n) \cup {n}
    BY <1>a, <1>3, Zenon
  <2>2. n \notin Below(n)
    BY <1>b, Zenon
  <2> QED
    BY <2>1, <2>2
<1>4. ASSUME NEW n \in Nat, n \notin mask PROVE Below(n + 1) = Below(n)
    BY <1>a, <1>4, Zenon
<1>5. \A x : Rank(mask, x) = Cardinality(Below(x))
    BY DEF Rank
<1> HIDE DEF Below
<1>6. Rank(mask, 0) = 0
    BY <1>1, <1>5, FS_EmptySet
<1>7. \A n \in Nat : Rank(mask, n) \in Nat
    BY <1>2, <1>5, FS_CardinalityType
<1>8. ASSUME NEW n \in Nat
      PROVE  Rank(mask, n + 1) =
                IF n \in mask THEN Rank(mask, n) + 1 ELSE Rank(mask, n)
  <2>1. CASE n \in mask
    <3>1. Cardinality(Below(n) \cup {n}) = Cardinality(Below(n)) + 1
      BY <1>2, <1>3, <2>1, FS_AddElement
    <3> QED
      BY <1>3, <1>5, <2>1, <3>1
  <2>2. CASE n \notin mask
    BY <1>4, <1>5, <2>2
  <2> QED
    BY <2>1, <2>2
<1> QED
    BY <1>6, <1>7, <1>8

\* What a list of bits has: as many as there are, each at its rank.
BitsListed(mask, n, bits) ==
    /\ bits \in Seq(Nat)
    /\ Len(bits) = Rank(mask, n)
    /\ \A x \in mask : x < n =>
        Rank(mask, x) < Rank(mask, n) /\ bits[Rank(mask, x) + 1] = x
    /\ \A k \in 1 .. Rank(mask, n) :
        bits[k] \in mask /\ bits[k] < n /\ Rank(mask, bits[k]) = k - 1

\* Bits lists what is in the mask.
LEMMA BitsAreListed ==
    ASSUME NEW mask, mask \subseteq Nat
    PROVE  \A n \in Nat : BitsListed(mask, n, Bits(mask, n))
<1> DEFINE Good == {n \in Nat : BitsListed(mask, n, Bits(mask, n))}
<1>1. 0 \in Good
  <2>1. Bits(mask, 0) = <<>> /\ Rank(mask, 0) = 0
    BY BitsStep, RankStep
  <2>2. \A x \in mask : ~(x < 0)
    OBVIOUS
  <2>3. <<>> \in Seq(Nat) /\ Len(<<>>) = 0
    OBVIOUS
  <2>4. BitsListed(mask, 0, <<>>)
    BY <2>1, <2>2, <2>3 DEF BitsListed
  <2> QED
    BY <2>1, <2>4
<1>2. ASSUME NEW n \in Nat, n \in Good PROVE n + 1 \in Good
  <2> DEFINE b == Bits(mask, n)
             c == Bits(mask, n + 1)
             r == Rank(mask, n)
  <2>1. BitsListed(mask, n, b) /\ r \in Nat /\ b \in Seq(Nat) /\ c \in Seq(Nat)
    <3>1. n + 1 \in Nat /\ BitsListed(mask, n, b)
      BY <1>2
    <3>2. r \in Nat
      BY RankStep
    <3> QED
      BY <3>1, <3>2, BitsStep
  <2>2. CASE n \notin mask
    <3>1. c = b /\ Rank(mask, n + 1) = r
      BY <2>2, BitsStep, RankStep
    <3>2. \A x \in mask : x < n + 1 => x < n
      BY <2>2
    <3> HIDE DEF b, c, r
    <3>3. BitsListed(mask, n + 1, c)
      BY <2>1, <3>1, <3>2 DEF BitsListed, r
    <3> QED
      BY <3>3 DEF c
  <2>3. CASE n \in mask
    <3>1. c = Append(b, n) /\ Rank(mask, n + 1) = r + 1
      BY <2>3, BitsStep, RankStep
    <3> HIDE DEF b, c, r
    <3>2. Len(b) = r
      BY <2>1 DEF BitsListed, r
    <3>3. Len(c) = r + 1 /\ c[r + 1] = n /\ \A k \in 1 .. r : c[k] = b[k]
      BY <2>1, <3>1, <3>2, AppendProperties
    <3>4. ASSUME NEW x \in mask, x < n + 1
          PROVE  Rank(mask, x) < r + 1 /\ c[Rank(mask, x) + 1] = x
      <4>1. CASE x = n
        BY <4>1, <2>1, <3>3 DEF r
      <4>2. CASE x # n
        <5>1. x < n
          BY <3>4, <4>2
        <5>2. Rank(mask, x) < r /\ b[Rank(mask, x) + 1] = x /\ Rank(mask, x) \in Nat
          BY <5>1, <2>1, RankStep DEF BitsListed, r
        <5> QED
          BY <5>2, <2>1, <3>3
      <4> QED
        BY <4>1, <4>2
    <3>5. ASSUME NEW k \in 1 .. r + 1
          PROVE  c[k] \in mask /\ c[k] < n + 1 /\ Rank(mask, c[k]) = k - 1
      <4>1. CASE k = r + 1
        BY <4>1, <2>1, <2>3, <3>3 DEF r
      <4>2. CASE k # r + 1
        <5>1. k \in 1 .. r
          BY <4>2, <2>1
        <5>2. b[k] \in mask /\ b[k] < n /\ Rank(mask, b[k]) = k - 1
              /\ b[k] < n + 1
          <6>1. b[k] \in mask /\ b[k] < n /\ Rank(mask, b[k]) = k - 1
            BY <5>1, <2>1 DEF BitsListed, r
          <6>2. b[k] \in Nat
            BY <6>1
          <6> QED
            BY <6>1, <6>2
        <5>3. c[k] = b[k]
          BY <5>1, <3>3
        <5> QED
          BY <5>2, <5>3
      <4> QED
        BY <4>1, <4>2
    <3>6. BitsListed(mask, n + 1, c)
      BY <2>1, <3>1, <3>3, <3>4, <3>5 DEF BitsListed
    <3> QED
      BY <3>6 DEF c
  <2> QED
    BY <2>2, <2>3
<1> HIDE DEF Good
<1>3. \A n \in Nat : n \in Good
    BY <1>1, <1>2, Induction
<1> QED
    BY <1>3 DEF Good

-----------------------------------------------------------------------------
(* Sequences put together. *)

\* The first so many of them in one.
Concatenates(F, seqs, T) ==
    /\ F \in [Nat -> Seq(T)]
    /\ F[0] = <<>>
    /\ \A i \in Nat : i < Len(seqs) => F[i + 1] = F[i] \o seqs[i + 1]
    /\ FlattenSeq(seqs) = F[Len(seqs)]

\* FlattenSeq is the last of them.
LEMMA FlattenSteps ==
    ASSUME NEW T, NEW seqs \in Seq(Seq(T))
    PROVE  \E F : Concatenates(F, seqs, T)
<1> DEFINE n == Len(seqs)
           G == [i \in Nat |-> [s \in Seq(T) |->
                    IF i < n THEN s \o seqs[i + 1] ELSE s]]
<1>1. n \in Nat /\ \A i \in 1 .. n : seqs[i] \in Seq(T)
    OBVIOUS
<1> HIDE DEF n
<1>2. G \in [Nat -> [Seq(T) -> Seq(T)]]
  <2>1. ASSUME NEW i \in Nat, i < n, NEW s \in Seq(T)
        PROVE  s \o seqs[i + 1] \in Seq(T)
    <3>1. i + 1 \in 1 .. n
      BY <1>1, <2>1
    <3> QED
      BY <1>1, <3>1, ConcatProperties
  <2> QED
    BY <2>1
<1>3. <<>> \in Seq(T)
    OBVIOUS
<1> HIDE DEF G
<1>4. \E f : Follows(f, Seq(T), <<>>, G)
    BY <1>2, <1>3, Recursion
<1>5. PICK F \in [Nat -> Seq(T)] :
        F[0] = <<>> /\ \A i \in Nat : F[i + 1] = G[i][F[i]]
    BY <1>4 DEF Follows
<1>6. ASSUME NEW i \in Nat, i < n PROVE F[i + 1] = F[i] \o seqs[i + 1]
  <2>1. F[i] \in Seq(T)
    BY <1>5
  <2> QED
    BY <1>5, <1>6, <2>1 DEF G
<1>7. FlattenSeq(seqs) = F[n]
  <2>1. CASE n = 0
    <3>1. seqs = <<>>
      BY <2>1 DEF n
    <3>2. FlattenSeq(seqs) = seqs
      BY <2>1 DEF FlattenSeq, n
    <3> QED
      BY <3>1, <3>2, <2>1, <1>5
  <2>2. CASE n # 0
    <3> DEFINE E(f) == [i \in 1 .. n |->
                IF i = 1 THEN seqs[i] ELSE f[i - 1] \o seqs[i]]
               g == [i \in 1 .. n |-> F[i]]
               flatten == CHOOSE f : f = E(f)
    <3>1. ASSUME NEW i \in 1 .. n PROVE g[i] = E(g)[i]
      <4>1. CASE i = 1
        <5>0. \A k \in Nat : k < n => F[k + 1] = F[k] \o seqs[k + 1]
          BY <1>6
        <5>1. 0 < n /\ F[0 + 1] = F[0] \o seqs[0 + 1]
          <6>1. 0 < n /\ 0 \in Nat
            BY <1>1, <2>2
          <6> QED
            BY <5>0, <6>1, Zenon
        <5>2. F[1] = <<>> \o seqs[1] /\ seqs[1] \in Seq(T)
          <6>1. 0 + 1 = 1 /\ 1 \in 1 .. n
            BY <5>1, <1>1
          <6> QED
            BY <5>1, <6>1, <1>1, <1>5
        <5>3. F[1] = seqs[1]
          BY <5>2, ConcatEmptySeq
        <5> QED
          BY <4>1, <5>3
      <4>2. CASE i # 1
        <5>1. i - 1 \in Nat /\ i - 1 < n /\ (i - 1) + 1 = i /\ i - 1 \in 1 .. n
          BY <1>1, <4>2
        <5>2. F[i] = F[i - 1] \o seqs[i]
          BY <5>1, <1>6
        <5> QED
          BY <4>2, <5>1, <5>2
      <4> QED
        BY <4>1, <4>2
    <3>2. g = E(g)
      <4> QED
        BY <3>1
    <3>3. flatten = E(flatten)
      <4> HIDE DEF E, g
      <4> QED
        BY <3>2
    <3>4. FlattenSeq(seqs) = flatten[n]
      BY <2>2 DEF FlattenSeq, n
    <3> HIDE DEF flatten
    <3> DEFINE Same == {i \in Nat : i + 1 <= n => flatten[i + 1] = F[i + 1]}
    <3>5. 1 \in 1 .. n
      BY <1>1, <2>2
    <3>6. g[1] = E(g)[1] /\ g[1] = F[1]
      BY <3>1, <3>5
    <3>7. 0 \in Same
      BY <3>3, <3>5, <3>6
    <3>8. ASSUME NEW i \in Nat, i \in Same PROVE i + 1 \in Same
      <4> SUFFICES ASSUME (i + 1) + 1 <= n
                   PROVE  flatten[(i + 1) + 1] = F[(i + 1) + 1]
        OBVIOUS
      <4>1. (i + 1) + 1 \in 1 .. n /\ (i + 1) + 1 # 1 /\ ((i + 1) + 1) - 1 = i + 1
            /\ i + 1 < n /\ i + 1 <= n /\ i + 1 \in Nat
        BY <1>1
      <4>2. flatten[(i + 1) + 1] = flatten[i + 1] \o seqs[(i + 1) + 1]
        BY <3>3, <4>1
      <4>3. flatten[i + 1] = F[i + 1]
        BY <3>8, <4>1
      <4>4. F[(i + 1) + 1] = F[i + 1] \o seqs[(i + 1) + 1]
        BY <4>1, <1>6
      <4> QED
        BY <4>2, <4>3, <4>4
    <3> HIDE DEF Same
    <3>9. \A i \in Nat : i \in Same
      BY <3>7, <3>8, Induction
    <3>10. n - 1 \in Nat /\ (n - 1) + 1 = n
      BY <1>1, <2>2
    <3>11. flatten[n] = F[n]
      <4>1. n - 1 \in Same /\ (n - 1) + 1 <= n
        BY <1>1, <3>9, <3>10
      <4> QED
        BY <3>10, <4>1 DEF Same
    <3> QED
      BY <3>4, <3>11
  <2> QED
    BY <2>1, <2>2
<1> QED
    BY <1>5, <1>6, <1>7 DEF Concatenates, n

\* Where the entries are when all of them are as long.
LEMMA FlattenUniform ==
    ASSUME NEW T, NEW seqs \in Seq(Seq(T)), NEW c \in Nat,
           \A i \in 1 .. Len(seqs) : Len(seqs[i]) = c
    PROVE  /\ Len(FlattenSeq(seqs)) = c * Len(seqs)
           /\ \A i \in 1 .. Len(seqs), k \in 1 .. c :
                FlattenSeq(seqs)[c * (i - 1) + k] = seqs[i][k]
<1> DEFINE n == Len(seqs)
<1>1. n \in Nat /\ \A i \in 1 .. n : seqs[i] \in Seq(T)
    OBVIOUS
<1>2. \A i \in 1 .. n : Len(seqs[i]) = c
    OBVIOUS
<1>3. PICK F : Concatenates(F, seqs, T)
    BY FlattenSteps
<1>4. /\ F \in [Nat -> Seq(T)] /\ F[0] = <<>>
      /\ \A i \in Nat : i < n => F[i + 1] = F[i] \o seqs[i + 1]
      /\ FlattenSeq(seqs) = F[n]
    BY <1>3 DEF Concatenates
<1> HIDE DEF n
<1> DEFINE Good(i) == /\ Len(F[i]) = c * i
                      /\ \A j \in 1 .. i, k \in 1 .. c :
                            F[i][c * (j - 1) + k] = seqs[j][k]
           Goods == {i \in Nat : i <= n => Good(i)}
<1>5. 0 \in Goods
    BY <1>4
<1>6. ASSUME NEW i \in Nat, i \in Goods PROVE i + 1 \in Goods
  <2> SUFFICES ASSUME i + 1 <= n PROVE Good(i + 1)
    OBVIOUS
  <2>1. i < n /\ i <= n /\ i + 1 \in 1 .. n
    BY <1>1
  <2>2. Good(i)
    BY <1>6, <2>1
  <2>3. F[i + 1] = F[i] \o seqs[i + 1] /\ F[i] \in Seq(T)
        /\ seqs[i + 1] \in Seq(T) /\ Len(seqs[i + 1]) = c
    BY <1>1, <1>2, <1>4, <2>1
  <2> DEFINE s == F[i]
             t == seqs[i + 1]
             u == F[i + 1]
  <2>4. Len(s) = c * i
    BY <2>2
  <2>5. s \in Seq(T) /\ t \in Seq(T) /\ u = s \o t /\ Len(t) = c
    BY <2>3
  <2>6. c * i \in Nat /\ c * (i + 1) = c * i + c
    OBVIOUS
  <2>7. ASSUME NEW j \in 1 .. i, NEW k \in 1 .. c
        PROVE  u[c * (j - 1) + k] = seqs[j][k]
    <3>1. s[c * (j - 1) + k] = seqs[j][k]
      BY <2>2
    <3>2. \A a \in Nat, b \in Nat : a <= b => c * a <= c * b
      OBVIOUS
    <3>3. c * (j - 1) <= c * (i - 1) /\ c * (i - 1) = c * i - c
          /\ c * (j - 1) \in Nat
      BY <3>2
    <3>4. c * (j - 1) + k \in 1 .. c * i
      BY <3>3, <2>6
    <3> DEFINE p == c * (j - 1) + k
    <3>5. p \in 1 .. Len(s)
      BY <3>4, <2>4
    <3> HIDE DEF p, s, t, u
    <3>6. u[p] = s[p]
      BY <3>5, <2>5, ConcatProperties
    <3> QED
      BY <3>1, <3>6 DEF p, s, u
  <2>8. ASSUME NEW k \in 1 .. c PROVE u[c * ((i + 1) - 1) + k] = t[k]
    <3>1. c * ((i + 1) - 1) + k = c * i + k
      OBVIOUS
    <3> DEFINE l == c * i
               p == l + k
    <3>2. l \in Nat /\ Len(s) = l /\ (i + 1) - 1 = i
      BY <2>4, <2>6
    <3> HIDE DEF l, s, t, u
    <3>3. p \in Len(s) + 1 .. Len(s) + Len(t) /\ p - Len(s) = k
      BY <2>5, <3>2
    <3> HIDE DEF p
    <3>4. u[p] = t[k]
      BY <2>5, <3>3, ConcatProperties
    <3> QED
      BY <3>2, <3>4 DEF p, l
  <2>9. Len(u) = c * i + c
    <3> HIDE DEF s, t, u
    <3>1. Len(s \o t) = Len(s) + Len(t)
      BY <2>5, ConcatProperties
    <3> QED
      BY <2>4, <2>5, <3>1
  <2>10. Len(F[i + 1]) = c * (i + 1)
    BY <2>6, <2>9
  <2>11. ASSUME NEW j \in 1 .. i + 1, NEW k \in 1 .. c
         PROVE  F[i + 1][c * (j - 1) + k] = seqs[j][k]
    <3>1. CASE j = i + 1
      BY <2>8, <3>1
    <3>2. CASE j # i + 1
      <4>1. j \in 1 .. i
        BY <3>2
      <4> QED
        BY <2>7, <4>1
    <3> QED
      BY <3>1, <3>2
  <2> QED
    BY <2>10, <2>11
<1> HIDE DEF Goods
<1>7. \A i \in Nat : i \in Goods
    BY <1>5, <1>6, Induction
<1>8. Good(n)
  <2> HIDE DEF Good
  <2>1. n \in Goods /\ n <= n
    BY <1>1, <1>7
  <2> QED
    BY <2>1 DEF Goods
<1> QED
    BY <1>4, <1>8 DEF n

-----------------------------------------------------------------------------
(* Lines. *)

\* A mask of numbers below n has as many as its rank there.
LEMMA RankIsAll ==
    ASSUME NEW n \in Nat, NEW mask, mask \subseteq 0 .. n - 1
    PROVE  Cardinality(mask) = Rank(mask, n)
<1>1. \A i \in mask : i < n
    OBVIOUS
<1>2. {i \in mask : i < n} = mask
    BY <1>1, Zenon
<1> QED
    BY <1>2 DEF Rank

\* The column of an archived id.
LEMMA ColumnIsId ==
    ASSUME NEW x \in ArchiveMask
    PROVE  Column(Rank(ArchiveMask, x)) = x
<1>1. FaEntryCount \in Nat /\ x < FaEntryCount
    BY LinesAssumption
<1>2. ArchiveMask \subseteq Nat
    BY LinesAssumption
<1>3. BitsListed(ArchiveMask, FaEntryCount, Bits(ArchiveMask, FaEntryCount))
    BY <1>1, <1>2, BitsAreListed
<1>4. Bits(ArchiveMask, FaEntryCount)[Rank(ArchiveMask, x) + 1] = x
    BY <1>1, <1>3 DEF BitsListed
<1> QED
    BY <1>4 DEF Column

\* What the ids of a mask are, as a list.
LEMMA IdsAreListed ==
    ASSUME NEW mask, mask \subseteq 0 .. FaEntryCount - 1
    PROVE  /\ BitsListed(mask, FaEntryCount, compute_mask_ids(mask))
           /\ compute_mask_ids(mask) \in Seq(Nat)
           /\ Len(compute_mask_ids(mask)) = Cardinality(mask)
           /\ Cardinality(mask) \in Nat
           /\ \A n \in 1 .. Cardinality(mask) : compute_mask_ids(mask)[n] \in mask
<1>1. FaEntryCount \in Nat /\ mask \subseteq Nat
    BY LinesAssumption
<1>2. BitsListed(mask, FaEntryCount, compute_mask_ids(mask))
    BY <1>1, BitsAreListed DEF compute_mask_ids
<1>3. Cardinality(mask) = Rank(mask, FaEntryCount)
    BY <1>1, RankIsAll
<1>4. Rank(mask, FaEntryCount) \in Nat
    BY <1>1, RankStep
<1> QED
    BY <1>2, <1>3, <1>4 DEF BitsListed

\* The indexes of the ids in the archive are those of their columns.
LEMMA ArchivedIds ==
    ASSUME NEW mask, mask \subseteq 0 .. FaEntryCount - 1, InArchive(mask)
    PROVE  /\ DOMAIN mask_to_archive(mask) = 1 .. Cardinality(mask)
           /\ \A n \in 1 .. Cardinality(mask) :
                Column(mask_to_archive(mask)[n]) = compute_mask_ids(mask)[n]
<1> DEFINE ids == compute_mask_ids(mask)
<1>1. ids \in Seq(Nat) /\ Len(ids) = Cardinality(mask) /\ Cardinality(mask) \in Nat
    BY IdsAreListed
<1>2. DOMAIN ids = 1 .. Cardinality(mask)
    BY <1>1
<1>3. mask_to_archive(mask) =
        [n \in DOMAIN ids |-> Cardinality({i \in ArchiveMask : i < ids[n]})]
    BY DEF mask_to_archive, compute_mask_ids
<1>4. ASSUME NEW n \in 1 .. Cardinality(mask)
      PROVE  Column(mask_to_archive(mask)[n]) = ids[n]
  <2>1. ids[n] \in ArchiveMask
    BY IdsAreListed DEF InArchive
  <2>2. mask_to_archive(mask)[n] = Rank(ArchiveMask, ids[n])
    BY <1>2, <1>3 DEF Rank
  <2> QED
    BY <2>1, <2>2, ColumnIsId
<1> QED
    BY <1>2, <1>3, <1>4

\* A line of FA data from the archive.
LEMMA ArchiveLine ==
    ASSUME NEW mask, mask \subseteq 0 .. FaEntryCount - 1, InArchive(mask)
    PROVE  /\ Len(fa_write_lines(mask_to_archive(mask))) = Cardinality(mask)
           /\ \A n \in 1 .. Cardinality(mask) :
                fa_write_lines(mask_to_archive(mask))[n]
                    = <<0, compute_mask_ids(mask)[n]>>
<1> DEFINE iter == mask_to_archive(mask)
<1>1. Cardinality(mask) \in Nat
    BY IdsAreListed
<1>2. DOMAIN iter = 1 .. Cardinality(mask)
      /\ \A n \in 1 .. Cardinality(mask) :
            Column(iter[n]) = compute_mask_ids(mask)[n]
    BY ArchivedIds
<1> HIDE DEF iter
<1>3. fa_write_lines(iter) = [i \in 1 .. Cardinality(mask) |-> <<0, Column(iter[i])>>]
    BY <1>2 DEF fa_write_lines
<1>4. Len(fa_write_lines(iter)) = Cardinality(mask)
    BY <1>1, <1>3
<1>5. \A n \in 1 .. Cardinality(mask) :
        fa_write_lines(iter)[n] = <<0, compute_mask_ids(mask)[n]>>
    BY <1>2, <1>3
<1> QED
    BY <1>4, <1>5 DEF iter

\* A line of decimated data: for every id its fields.
LEMMA DecimatedLine ==
    ASSUME NEW mask, mask \subseteq 0 .. FaEntryCount - 1, InArchive(mask),
           NEW fields, fields \subseteq 0 .. 3
    PROVE  /\ Len(d_write_lines(mask_to_archive(mask), fields))
                = Cardinality(fields) * Cardinality(mask)
           /\ \A i \in 1 .. Cardinality(mask), f \in 1 .. Cardinality(fields) :
                d_write_lines(mask_to_archive(mask), fields)
                    [Cardinality(fields) * (i - 1) + f]
                    = <<Bits(fields, 4)[f], compute_mask_ids(mask)[i]>>
<1> DEFINE iter == mask_to_archive(mask)
           c == Cardinality(fields)
           n == Cardinality(mask)
           ids == compute_mask_ids(mask)
           bits == Bits(fields, 4)
           entries(i) == [k \in 1 .. c |-> <<bits[k], ids[i]>>]
           seqs == [i \in 1 .. n |-> entries(i)]
<1>1. n \in Nat /\ \A i \in 1 .. n : ids[i] \in Nat
  <2>1. \A i \in 1 .. n : ids[i] \in mask
    BY IdsAreListed
  <2>2. mask \subseteq Nat
    BY LinesAssumption
  <2> QED
    BY <2>1, <2>2, IdsAreListed
<1>2. c \in Nat /\ \A k \in 1 .. c : bits[k] \in Nat
  <2>1. fields \subseteq Nat /\ 4 \in Nat /\ fields \subseteq 0 .. 4 - 1
    OBVIOUS
  <2>a. BitsListed(fields, 4, bits)
    BY <2>1, BitsAreListed
  <2>b. c = Rank(fields, 4) /\ Rank(fields, 4) \in Nat
    <3>1. \A k \in Nat : Rank(fields, k) \in Nat
      BY <2>1, RankStep
    <3>2. c = Rank(fields, 4)
      BY <2>1, RankIsAll
    <3> QED
      BY <3>1, <3>2
  <2>2. BitsListed(fields, 4, bits) /\ c = Rank(fields, 4) /\ Rank(fields, 4) \in Nat
    BY <2>a, <2>b
  <2>3. \A k \in 1 .. Rank(fields, 4) : bits[k] \in fields
    BY <2>2 DEF BitsListed
  <2> QED
    BY <2>1, <2>2, <2>3
<1>3. DOMAIN iter = 1 .. n /\ \A i \in 1 .. n : Column(iter[i]) = ids[i]
    BY ArchivedIds
<1>4. d_write_lines(iter, fields) = FlattenSeq(seqs)
  <2>1. d_write_lines(iter, fields) =
        FlattenSeq([i \in DOMAIN iter |->
            [k \in 1 .. c |-> <<bits[k], Column(iter[i])>>]])
    BY DEF d_write_lines
  <2> HIDE DEF iter, c, n, ids, bits
  <2>2. [i \in DOMAIN iter |-> [k \in 1 .. c |-> <<bits[k], Column(iter[i])>>]]
        = seqs
    BY <1>3
  <2> QED
    BY <2>1, <2>2
<1> HIDE DEF iter, c, n, ids, bits
<1>5. \A i \in 1 .. n : entries(i) \in Seq(Nat \X Nat) /\ Len(entries(i)) = c
  <2> SUFFICES ASSUME NEW i \in 1 .. n
               PROVE  entries(i) \in Seq(Nat \X Nat) /\ Len(entries(i)) = c
    OBVIOUS
  <2>1. \A k \in 1 .. c : <<bits[k], ids[i]>> \in Nat \X Nat
    BY <1>1, <1>2
  <2> DEFINE T == Nat \X Nat
             e(k) == <<bits[k], ids[i]>>
  <2>2. \A k \in 1 .. c : e(k) \in T
    BY <2>1
  <2> HIDE DEF T, e
  <2>3. [k \in 1 .. c |-> e(k)] \in Seq(T) /\ Len([k \in 1 .. c |-> e(k)]) = c
    BY <1>2, <2>2
  <2> QED
    BY <2>3 DEF T, e
<1>6. \A i \in 1 .. n, k \in 1 .. c : entries(i)[k] = <<bits[k], ids[i]>>
    OBVIOUS
<1> HIDE DEF entries
<1> DEFINE T == Nat \X Nat
<1>7. \A i \in 1 .. n : entries(i) \in Seq(T)
    BY <1>5
<1> HIDE DEF T
<1>8. seqs \in Seq(Seq(T)) /\ Len(seqs) = n
      /\ \A i \in 1 .. n : seqs[i] = entries(i)
    BY <1>1, <1>7
<1> HIDE DEF seqs
<1>9. \A i \in 1 .. Len(seqs) : Len(seqs[i]) = c
    BY <1>5, <1>8
<1>10. /\ Len(FlattenSeq(seqs)) = c * Len(seqs)
       /\ \A i \in 1 .. Len(seqs), k \in 1 .. c :
            FlattenSeq(seqs)[c * (i - 1) + k] = seqs[i][k]
    BY <1>2, <1>8, <1>9, FlattenUniform
<1>11. /\ Len(FlattenSeq(seqs)) = c * n
       /\ \A i \in 1 .. n, k \in 1 .. c :
            FlattenSeq(seqs)[c * (i - 1) + k] = <<bits[k], ids[i]>>
    BY <1>6, <1>8, <1>10
<1> QED
    BY <1>4, <1>11 DEF iter, c, n, ids, bits

\* The bits of a mask from a number on, counted from there.
LEMMA RankShifts ==
    ASSUME NEW mask, mask \subseteq Nat, NEW a \in Nat
    PROVE  \A j \in Nat : j <= 8 =>
            Rank(mask, a + j)
                = Rank(mask, a) + Rank({i \in 0 .. 7 : a + i \in mask}, j)
<1> DEFINE m == {i \in 0 .. 7 : a + i \in mask}
           Good == {j \in Nat : j <= 8 =>
                        Rank(mask, a + j) = Rank(mask, a) + Rank(m, j)}
<1>1. m \subseteq Nat
    OBVIOUS
<1>2. 0 \in Good
  <2>1. Rank(m, 0) = 0 /\ a + 0 = a /\ Rank(mask, a) \in Nat
    <3>1. Rank(m, 0) = 0
      BY <1>1, RankStep
    <3>2. \A k \in Nat : Rank(mask, k) \in Nat
      BY RankStep
    <3> QED
      BY <3>1, <3>2
  <2> QED
    BY <2>1
<1>3. ASSUME NEW j \in Nat, j \in Good PROVE j + 1 \in Good
  <2> SUFFICES ASSUME j + 1 <= 8
               PROVE  Rank(mask, a + (j + 1)) = Rank(mask, a) + Rank(m, j + 1)
    OBVIOUS
  <2>1. j \in 0 .. 7 /\ a + (j + 1) = (a + j) + 1 /\ a + j \in Nat /\ j <= 8
    OBVIOUS
  <2>2. j \in m <=> a + j \in mask
    BY <2>1
  <2>3. Rank(mask, a + j) = Rank(mask, a) + Rank(m, j)
    BY <1>3, <2>1
  <2> HIDE DEF m
  <2>4. Rank(mask, (a + j) + 1) =
            IF a + j \in mask THEN Rank(mask, a + j) + 1 ELSE Rank(mask, a + j)
    BY <2>1, RankStep
  <2>5. Rank(m, j + 1) = IF j \in m THEN Rank(m, j) + 1 ELSE Rank(m, j)
    BY <1>1, RankStep
  <2>6. Rank(mask, a) \in Nat /\ Rank(m, j) \in Nat /\ Rank(mask, a + j) \in Nat
    BY <1>1, <2>1, RankStep
  <2> QED
    BY <2>1, <2>2, <2>3, <2>4, <2>5, <2>6
<1> HIDE DEF Good
<1>4. \A j \in Nat : j \in Good
    BY <1>2, <1>3, Induction
<1> QED
    BY <1>4 DEF Good

\* A line of live data, copied from the frame eight bits at a time.
LEMMA FrameLine ==
    ASSUME NEW mask, mask \subseteq 0 .. FaEntryCount - 1
    PROVE  /\ Len(copy_frame(mask)) = Cardinality(mask)
           /\ \A n \in 1 .. Cardinality(mask) :
                copy_frame(mask)[n] = <<0, compute_mask_ids(mask)[n]>>
<1> DEFINE ids == compute_mask_ids(mask)
           n == FaEntryCount \div 8
           M(i) == {j \in 0 .. 7 : 8 * (i - 1) + j \in mask}
           bytes(i) == [k \in 1 .. Cardinality(M(i)) |->
                            <<0, 8 * (i - 1) + Bits(M(i), 8)[k]>>]
           seqs == [i \in 1 .. n |-> bytes(i)]
           T == Nat \X Nat
<1>1. FaEntryCount \in Nat /\ n \in Nat /\ 8 * n = FaEntryCount
      /\ mask \subseteq Nat
    BY LinesAssumption
<1>2. ASSUME NEW i \in Nat, i < n
      PROVE  /\ bytes(i + 1) \in Seq(T)
             /\ Len(bytes(i + 1)) = Rank(mask, 8 * (i + 1)) - Rank(mask, 8 * i)
             /\ Rank(mask, 8 * i) \in Nat
             /\ Rank(mask, 8 * (i + 1)) \in Nat
             /\ Rank(mask, 8 * i) <= Rank(mask, 8 * (i + 1))
             /\ \A k \in 1 .. Rank(mask, 8 * (i + 1)) - Rank(mask, 8 * i) :
                    bytes(i + 1)[k] = <<0, ids[Rank(mask, 8 * i) + k]>>
  <2> DEFINE m == M(i + 1)
             r == Rank(mask, 8 * i)
             bits == Bits(m, 8)
             c == Cardinality(m)
  <2>1. (i + 1) - 1 = i /\ 8 * i \in Nat /\ 8 * (i + 1) = 8 * i + 8 /\ 8 \in Nat
    OBVIOUS
  <2>2. m = {j \in 0 .. 7 : 8 * i + j \in mask}
    BY <2>1
  <2>3. m \subseteq Nat /\ m \subseteq 0 .. 8 - 1
    OBVIOUS
  <2>4. bytes(i + 1) = [k \in 1 .. c |-> <<0, 8 * i + bits[k]>>]
    BY <2>1
  <2> HIDE DEF m, bytes, n
  <2>5. c = Rank(m, 8) /\ Rank(m, 8) \in Nat /\ BitsListed(m, 8, bits)
    <3>1. c = Rank(m, 8)
      BY <2>3, RankIsAll
    <3>2. Rank(m, 8) \in Nat
      <4>1. \A k \in Nat : Rank(m, k) \in Nat
        BY <2>3, RankStep
      <4> QED
        BY <4>1
    <3>3. BitsListed(m, 8, bits)
      BY <2>3, BitsAreListed
    <3> QED
      BY <3>1, <3>2, <3>3
  <2>6. \A j \in Nat : j <= 8 => Rank(mask, 8 * i + j) = r + Rank(m, j)
    BY <1>1, <2>1, <2>2, RankShifts
  <2>7. r \in Nat /\ Rank(mask, 8 * (i + 1)) = r + c
    <3>1. r \in Nat
      <4>1. \A k \in Nat : Rank(mask, k) \in Nat
        BY <1>1, RankStep
      <4> QED
        BY <2>1, <4>1
    <3> QED
      BY <3>1, <2>1, <2>5, <2>6
  <2>8. ASSUME NEW k \in 1 .. c
        PROVE  bits[k] \in Nat /\ 8 * i + bits[k] = ids[r + k]
    <3> DEFINE y == bits[k]
    <3>1. y \in m /\ y < 8 /\ Rank(m, y) = k - 1 /\ y \in Nat
      BY <2>3, <2>5 DEF BitsListed
    <3> HIDE DEF y, bits, r, c
    <3>2. 8 * i + y \in mask
      BY <2>2, <3>1
    <3>3. Rank(mask, 8 * i + y) = r + (k - 1)
      BY <2>6, <3>1
    <3>4. BitsListed(mask, FaEntryCount, ids)
      BY IdsAreListed
    <3>5. 8 * i + y < FaEntryCount
      <4>1. 8 * i + y \in 0 .. FaEntryCount - 1
        BY <3>2
      <4> QED
        BY <4>1, <1>1
    <3>6. ids[Rank(mask, 8 * i + y) + 1] = 8 * i + y
      BY <3>2, <3>4, <3>5 DEF BitsListed
    <3>7. (r + (k - 1)) + 1 = r + k
      BY <2>7, <2>5
    <3>8. ids[r + k] = 8 * i + y
      BY <3>3, <3>6, <3>7
    <3> QED
      BY <3>1, <3>8 DEF y
  <2> HIDE DEF bits, c, r
  <2>9. \A k \in 1 .. c : <<0, 8 * i + bits[k]>> \in Nat \X Nat
    BY <2>1, <2>8
  <2>10. bytes(i + 1) \in Seq(T) /\ Len(bytes(i + 1)) = c
    <3> DEFINE e(k) == <<0, 8 * i + bits[k]>>
    <3>1. \A k \in 1 .. c : e(k) \in T
      BY <2>9
    <3> HIDE DEF T, e
    <3>2. [k \in 1 .. c |-> e(k)] \in Seq(T) /\ Len([k \in 1 .. c |-> e(k)]) = c
      BY <2>5, <3>1
    <3> QED
      BY <3>2, <2>4 DEF e
  <2>11. Rank(mask, 8 * (i + 1)) - Rank(mask, 8 * i) = c
    BY <2>5, <2>7 DEF r
  <2>12. \A k \in 1 .. c : bytes(i + 1)[k] = <<0, ids[Rank(mask, 8 * i) + k]>>
    BY <2>4, <2>8 DEF r
  <2>13. r <= Rank(mask, 8 * (i + 1)) /\ Rank(mask, 8 * (i + 1)) \in Nat
    BY <2>5, <2>7
  <2> QED
    BY <2>7, <2>10, <2>11, <2>12, <2>13 DEF r
<1>3. copy_frame(mask) = FlattenSeq(seqs)
    BY DEF copy_frame
<1> HIDE DEF bytes, n, T
<1>4. \A i \in 1 .. n : bytes(i) \in Seq(T)
  <2> SUFFICES ASSUME NEW i \in 1 .. n PROVE bytes(i) \in Seq(T)
    OBVIOUS
  <2>1. i - 1 \in Nat /\ i - 1 < n /\ (i - 1) + 1 = i
    BY <1>1
  <2> QED
    BY <1>2, <2>1
<1>5. seqs \in Seq(Seq(T)) /\ Len(seqs) = n
      /\ \A i \in 1 .. n : seqs[i] = bytes(i)
    BY <1>1, <1>4
<1> HIDE DEF seqs
<1>6. PICK F : Concatenates(F, seqs, T)
    BY <1>5, FlattenSteps
<1>7. /\ F \in [Nat -> Seq(T)] /\ F[0] = <<>>
      /\ \A i \in Nat : i < n => F[i + 1] = F[i] \o bytes(i + 1)
      /\ FlattenSeq(seqs) = F[n]
  <2>1. \A i \in Nat : i < n => i + 1 \in 1 .. n
    BY <1>1
  <2> QED
    BY <1>5, <1>6, <2>1 DEF Concatenates
<1> DEFINE Good(i) == /\ Len(F[i]) = Rank(mask, 8 * i)
                      /\ \A k \in 1 .. Rank(mask, 8 * i) :
                            F[i][k] = <<0, ids[k]>>
           Goods == {i \in Nat : i <= n => Good(i)}
<1>8. 0 \in Goods
  <2>1. Rank(mask, 8 * 0) = 0
    <3>1. Rank(mask, 0) = 0
      BY <1>1, RankStep
    <3>2. 8 * 0 = 0
      OBVIOUS
    <3> QED
      BY <3>1, <3>2
  <2>2. Good(0)
    BY <1>7, <2>1
  <2> QED
    BY <2>2
<1>9. ASSUME NEW i \in Nat, i \in Goods PROVE i + 1 \in Goods
  <2> SUFFICES ASSUME i + 1 <= n PROVE Good(i + 1)
    OBVIOUS
  <2>1. i < n /\ i <= n
    BY <1>1
  <2> DEFINE s == F[i]
             t == bytes(i + 1)
             u == F[i + 1]
             a == Rank(mask, 8 * i)
             b == Rank(mask, 8 * (i + 1))
  <2>2. Len(s) = a /\ \A k \in 1 .. a : s[k] = <<0, ids[k]>>
    BY <1>9, <2>1
  <2>3. /\ t \in Seq(T) /\ Len(t) = b - a /\ a \in Nat /\ b \in Nat /\ a <= b
        /\ \A k \in 1 .. b - a : t[k] = <<0, ids[a + k]>>
    BY <1>2, <2>1
  <2>4. s \in Seq(T) /\ u = s \o t
    BY <1>7, <2>1
  <2> HIDE DEF s, t, u, a, b, Goods
  <2>5. Len(u) = b
    <3>1. Len(s \o t) = Len(s) + Len(t)
      BY <2>3, <2>4, ConcatProperties
    <3> QED
      BY <3>1, <2>2, <2>3, <2>4
  <2>6. ASSUME NEW k \in 1 .. b PROVE u[k] = <<0, ids[k]>>
    <3>1. CASE k <= a
      <4>1. k \in 1 .. a /\ k \in 1 .. Len(s)
        BY <2>2, <2>3, <3>1
      <4>2. u[k] = s[k]
        BY <2>3, <2>4, <4>1, ConcatProperties
      <4> QED
        BY <2>2, <4>1, <4>2
    <3>2. CASE ~(k <= a)
      <4>1. k - a \in 1 .. b - a /\ a + (k - a) = k
            /\ k \in Len(s) + 1 .. Len(s) + Len(t)
        BY <2>2, <2>3, <3>2
      <4>2. u[k] = t[k - Len(s)]
        BY <2>3, <2>4, <4>1, ConcatProperties
      <4>3. t[k - a] = <<0, ids[a + (k - a)]>>
        BY <2>3, <4>1
      <4> QED
        BY <2>2, <4>1, <4>2, <4>3
    <3> QED
      BY <3>1, <3>2
  <2> QED
    BY <2>5, <2>6 DEF u, b
<1> HIDE DEF Goods
<1>10. \A i \in Nat : i \in Goods
    BY <1>8, <1>9, Induction
<1>11. Good(n)
  <2> HIDE DEF Good
  <2>1. n \in Goods /\ n <= n
    BY <1>1, <1>10
  <2> QED
    BY <2>1 DEF Goods
<1>12. Cardinality(mask) = Rank(mask, 8 * n)
    BY <1>1, RankIsAll
<1> QED
    BY <1>3, <1>7, <1>11, <1>12

\* Short sequences, one number longer.
LEMMA AppendToPair ==
    /\ \A x \in Nat : Append(<<>>, x) = <<x>>
    /\ \A x \in Nat, y \in Nat : Append(<<x>>, y) = <<x, y>>
    /\ \A x \in Nat, y \in Nat, z \in Nat : Append(<<x, y>>, z) = <<x, y, z>>
<1>1. \A x \in Nat : Append(<<>>, x) = <<x>>
    OBVIOUS
<1>2. ASSUME NEW x \in Nat, NEW y \in Nat PROVE Append(<<x>>, y) = <<x, y>>
  <2> DEFINE s == Append(<<x>>, y)
  <2>1. <<x>> \in Seq(Nat) /\ Len(<<x>>) = 1 /\ <<x>>[1] = x
    OBVIOUS
  <2>2. s \in Seq(Nat) /\ Len(s) = 2 /\ s[1] = x /\ s[2] = y
    BY <2>1, AppendProperties
  <2> HIDE DEF s
  <2>3. s = <<x, y>>
    BY <2>2
  <2> QED
    BY <2>3 DEF s
<1>3. ASSUME NEW x \in Nat, NEW y \in Nat, NEW z \in Nat
      PROVE  Append(<<x, y>>, z) = <<x, y, z>>
  <2> DEFINE s == Append(<<x, y>>, z)
  <2>1. <<x, y>> \in Seq(Nat) /\ Len(<<x, y>>) = 2
        /\ <<x, y>>[1] = x /\ <<x, y>>[2] = y
    OBVIOUS
  <2>2. s \in Seq(Nat) /\ Len(s) = 3 /\ s[1] = x /\ s[2] = y /\ s[3] = z
    BY <2>1, AppendProperties
  <2> HIDE DEF s
  <2>3. s = <<x, y, z>>
    BY <2>2
  <2> QED
    BY <2>3 DEF s
<1> QED
    BY <1>1, <1>2, <1>3

\* Four dimensions, of which the second is left out, and the third if a single
\* id is to be squeezed.
LEMMA DimsOfFA ==
    ASSUME NEW mask, NEW fields, Cardinality(fields) = 1,
           NEW rows, NEW squeeze_matlab \in BOOLEAN
    PROVE  Dims(mask, fields, rows, TRUE, squeeze_matlab) =
            IF squeeze_matlab /\ Cardinality(mask) = 1
            THEN <<2, rows>> ELSE <<2, Cardinality(mask), rows>>
<1> DEFINE c == Cardinality(mask)
           dims == <<2, Cardinality(fields), c, rows>>
           squeeze == <<FALSE, TRUE \/ squeeze_matlab, squeeze_matlab, FALSE>>
           K == {i \in 1 .. 4 : ~(dims[i] = 1 /\ squeeze[i])}
           bits == Bits(K, 5)
<1>1. Dims(mask, fields, rows, TRUE, squeeze_matlab)
        = [i \in DOMAIN bits |-> dims[bits[i]]]
    BY DEF Dims
<1>2. dims[1] = 2 /\ dims[2] = 1 /\ dims[3] = c /\ dims[4] = rows
    OBVIOUS
<1>3. /\ squeeze[1] = FALSE /\ squeeze[2] = TRUE
      /\ squeeze[3] = squeeze_matlab /\ squeeze[4] = FALSE
    OBVIOUS
<1> HIDE DEF c, dims, squeeze
<1>4. /\ 0 \notin K /\ 1 \in K /\ 2 \notin K /\ 4 \in K
      /\ 3 \in K <=> ~(c = 1 /\ squeeze_matlab)
    BY <1>2, <1>3
<1> HIDE DEF K
<1>5. bits = IF 3 \in K THEN <<1, 3, 4>> ELSE <<1, 4>>
  <2>1. /\ Bits(K, 0) = <<>>
        /\ Bits(K, 0 + 1) = IF 0 \in K THEN Append(Bits(K, 0), 0) ELSE Bits(K, 0)
        /\ Bits(K, 1 + 1) = IF 1 \in K THEN Append(Bits(K, 1), 1) ELSE Bits(K, 1)
        /\ Bits(K, 2 + 1) = IF 2 \in K THEN Append(Bits(K, 2), 2) ELSE Bits(K, 2)
        /\ Bits(K, 3 + 1) = IF 3 \in K THEN Append(Bits(K, 3), 3) ELSE Bits(K, 3)
        /\ Bits(K, 4 + 1) = IF 4 \in K THEN Append(Bits(K, 4), 4) ELSE Bits(K, 4)
    <3>1. {0, 1, 2, 3, 4} \subseteq Nat
      OBVIOUS
    <3> QED
      BY <3>1, BitsStep
  <2>2. /\ Append(<<>>, 1) = <<1>> /\ Append(<<1>>, 4) = <<1, 4>>
        /\ Append(<<1>>, 3) = <<1, 3>> /\ Append(<<1, 3>>, 4) = <<1, 3, 4>>
    BY AppendToPair
  <2>3. 0 + 1 = 1 /\ 1 + 1 = 2 /\ 2 + 1 = 3 /\ 3 + 1 = 4 /\ 4 + 1 = 5
    OBVIOUS
  <2>4. Bits(K, 1) = <<>>
    BY <1>4, <2>1, <2>3, Zenon
  <2>5. Bits(K, 2) = <<1>>
    BY <1>4, <2>1, <2>2, <2>3, <2>4, Zenon
  <2>6. Bits(K, 3) = <<1>>
    BY <1>4, <2>1, <2>3, <2>5, Zenon
  <2>7. CASE 3 \in K
    <3>1. Bits(K, 4) = <<1, 3>>
      BY <2>1, <2>2, <2>3, <2>6, <2>7, Zenon
    <3>2. Bits(K, 5) = <<1, 3, 4>>
      BY <1>4, <2>1, <2>2, <2>3, <3>1, Zenon
    <3> QED
      BY <2>7, <3>2
  <2>8. CASE 3 \notin K
    <3>1. Bits(K, 4) = <<1>>
      BY <2>1, <2>3, <2>6, <2>8, Zenon
    <3>2. Bits(K, 5) = <<1, 4>>
      BY <1>4, <2>1, <2>2, <2>3, <3>1, Zenon
    <3> QED
      BY <2>8, <3>2
  <2> QED
    BY <2>7, <2>8
<1> HIDE DEF bits
<1>6. CASE c = 1 /\ squeeze_matlab
  <2>1. bits = <<1, 4>>
    BY <1>4, <1>5, <1>6
  <2>2. [i \in DOMAIN bits |-> dims[bits[i]]] = <<dims[1], dims[4]>>
    BY <2>1
  <2> QED
    BY <1>1, <1>2, <1>6, <2>2 DEF c
<1>7. CASE ~(c = 1 /\ squeeze_matlab)
  <2>1. bits = <<1, 3, 4>>
    BY <1>4, <1>5, <1>7
  <2>2. [i \in DOMAIN bits |-> dims[bits[i]]] = <<dims[1], dims[3], dims[4]>>
    BY <2>1
  <2> QED
    BY <1>1, <1>2, <1>7, <2>2 DEF c
<1> QED
    BY <1>6, <1>7

-----------------------------------------------------------------------------
(* The ids that were accepted. *)

\* The server does not send historical data of ids that are not archived.
ArchivedInv ==
    cpc \notin {"parsed", "requested", "failed"} /\ ~opts.continuous =>
        InArchive(opts.mask)

\* It is decided when the server answers, and stays so.
LEMMA ArchivedStep ==
    ASSUME CaptureInv, ArchivedInv, [Next]_vars
    PROVE  ArchivedInv'
<1> USE DEF ArchivedInv
<1>1. CASE check_response
  <2> SUFFICES ASSUME ~opts.continuous PROVE InArchive(opts.mask)'
    BY <1>1 DEF check_response
  <2>1. TypeInv /\ RequestInv /\ cpc = "requested" /\ cpc # "parsed"
    BY <1>1 DEF CaptureInv, check_response
  <2>2. parse.mask = opts.mask
    BY <2>1, RequestSurvives
  <2>3. request.command = "R"
    BY <2>1 DEF RequestInv, request_data
  <2>4. InArchive(opts.mask) /\ opts' = opts
    BY <1>1, <2>2, <2>3 DEF check_response
  <2> QED
    BY <2>4 DEF InArchive
<1>2. CASE send_request
    BY <1>2 DEF send_request
<1>3. CASE \/ check_response_fails \/ read_fails \/ write_fails
    BY <1>3 DEF check_response_fails, read_fails, write_fails, finish
<1>4. ASSUME cpc \notin {"parsed", "requested", "failed"}, opts' = opts
      PROVE  ArchivedInv'
    BY <1>4 DEF InArchive
<1>5. CASE read_sample_count \/ read_header \/ read_timestamp_block \/ read_lines
           \/ end_of_input \/ finish_raw \/ finish_matlab \/ interrupt_capture
    BY <1>4, <1>5 DEF read_sample_count, read_header, read_timestamp_block,
        read_lines, end_of_input, finish_raw, finish_matlab, interrupt_capture
<1>6. CASE disconnect
    BY <1>6 DEF disconnect, InArchive
<1>7. CASE UNCHANGED vars
    BY <1>7 DEF vars, InArchive
<1> QED
    BY <1>1, <1>2, <1>3, <1>5, <1>6, <1>7 DEF Next

\* Whatever the ids and fields, archived or live, the lines have the length and
\* the order that the client gives them in the header.
LEMMA LinesAreInOrder ==
    ASSUME CaptureInv, ArchivedInv
    PROVE  LinesAreAsLabelled
<1> SUFFICES ASSUME cpc = "header" PROVE LinesAreAsLabelled
    BY DEF LinesAreAsLabelled
<1> DEFINE mask == opts.mask
           fields == opts.fields
           ids == compute_mask_ids(mask)
           bits == Bits(fields, 4)
           c == Cardinality(fields)
           n == Cardinality(mask)
<1>1. /\ TypeInv /\ RequestInv /\ cpc # "parsed" /\ validate_args(opts)
      /\ request = request_data(opts)
    BY DEF CaptureInv, RequestInv
<1>2. /\ mask \subseteq 0 .. FaEntryCount - 1 /\ fields \subseteq 0 .. 3
      /\ opts.continuous \in BOOLEAN
      /\ opts.source = "F" => fields = {0}
      /\ opts.continuous => opts.source = "F"
  <2>1. /\ opts.fields \in Fields /\ opts.mask \in Masks
        /\ opts.continuous \in BOOLEAN
        /\ opts.continuous => opts.source = "F"
        /\ opts.source = "F" => opts.fields = {0}
    BY <1>1, OptionTypes DEF TypeInv
  <2> QED
    BY <2>1, CaptureAssumption
<1>3. parse.mask = mask /\ parse.reader = opts.source /\ parse.data_mask = fields
    BY <1>1, RequestSurvives
<1>4. request.command = IF opts.continuous THEN "S" ELSE "R"
    BY <1>1, <1>2 DEF request_data
<1>5. ids \in Seq(Nat) /\ Len(ids) = n /\ n \in Nat
    BY <1>2, IdsAreListed
<1>6. bits \in Seq(Nat) /\ Len(bits) = c /\ c \in Nat
  <2>1. fields \subseteq Nat /\ fields \subseteq 0 .. 4 - 1 /\ 4 \in Nat
    BY <1>2
  <2> HIDE DEF fields
  <2>2. BitsListed(fields, 4, bits) /\ c = Rank(fields, 4)
    BY <2>1, BitsAreListed, RankIsAll
  <2>3. \A k \in Nat : Rank(fields, k) \in Nat
    BY <2>1, RankStep
  <2> QED
    BY <2>2, <2>3 DEF BitsListed
<1>7. fields = {0} => c = 1 /\ bits[1] = 0
  <2> SUFFICES ASSUME fields = {0} PROVE c = 1 /\ bits[1] = 0
    OBVIOUS
  <2>1. c = 1
    BY FS_Singleton
  <2>2. {0} \subseteq Nat /\ 0 < 4 /\ 4 \in Nat
    OBVIOUS
  <2>3. BitsListed({0}, 4, Bits({0}, 4)) /\ Rank({0}, 0) = 0
    BY <2>2, BitsAreListed, RankStep
  <2>4. Bits({0}, 4)[Rank({0}, 0) + 1] = 0
    BY <2>2, <2>3 DEF BitsListed
  <2> QED
    BY <2>1, <2>3, <2>4
<1>8. ~opts.continuous => InArchive(mask)
    BY DEF ArchivedInv
<1> HIDE DEF ids, bits, c, n
<1>9. Len(line) = c * n
      /\ \A i \in 1 .. n, f \in 1 .. c : line[c * (i - 1) + f] = <<bits[f], ids[i]>>
  <2>1. CASE opts.source = "F"
    <3>1. line = IF opts.continuous THEN copy_frame(mask)
                 ELSE fa_write_lines(mask_to_archive(mask))
      BY <1>2, <1>3, <1>4, <2>1 DEF line
    <3>2. Len(line) = n /\ \A i \in 1 .. n : line[i] = <<0, ids[i]>>
      <4>1. CASE opts.continuous
        BY <1>2, <3>1, <4>1, FrameLine DEF n, ids
      <4>2. CASE ~opts.continuous
        BY <1>2, <1>8, <3>1, <4>2, ArchiveLine DEF n, ids
      <4> QED
        BY <4>1, <4>2
    <3>3. c = 1 /\ bits[1] = 0
      BY <1>2, <1>7, <2>1
    <3>4. \A i \in 1 .. n, f \in 1 .. c : c * (i - 1) + f = i /\ f = 1
      BY <1>5, <3>3
    <3>5. Len(line) = c * n
      BY <1>5, <3>2, <3>3
    <3> QED
      BY <3>2, <3>3, <3>4, <3>5
  <2>2. CASE opts.source # "F"
    <3>1. line = d_write_lines(mask_to_archive(mask), fields)
      BY <1>2, <1>3, <1>4, <2>2 DEF line
    <3>2. InArchive(mask)
      BY <1>2, <1>8, <2>2
    <3> QED
      BY <1>2, <3>1, <3>2, DecimatedLine DEF n, ids, c, bits
  <2> QED
    BY <2>1, <2>2
<1>10. Len(line) = line_size(mask, fields)
    BY <1>9 DEF line_size, c, n
<1>11. ASSUME NEW i \in DOMAIN ids, NEW f \in DOMAIN bits
       PROVE  line[Place(mask, fields, f, i, 1) + 1] = <<bits[f], ids[i]>>
  <2>1. i \in 1 .. n /\ f \in 1 .. c
    BY <1>5, <1>6
  <2>2. Place(mask, fields, f, i, 1) = (f - 1) + c * ((i - 1) + n * (1 - 1))
    BY DEF Place, c, n
  <2>3. n * (1 - 1) = 0 /\ (i - 1) + 0 = i - 1
    BY <1>5, <2>1
  <2>4. c * (i - 1) \in Int /\ f \in Int
    BY <1>6, <2>1
  <2>5. Place(mask, fields, f, i, 1) + 1 = c * (i - 1) + f
    BY <2>2, <2>3, <2>4
  <2> QED
    BY <1>9, <2>1, <2>5
<1>12. ASSUME opts.source = "F", NEW squeeze_matlab \in BOOLEAN
       PROVE  LET dims == Dims(mask, fields, sample_count, TRUE, squeeze_matlab)
              IN /\ Len(dims) \in 2 .. 3
                 /\ replay_columns(dims) = Len(ids)
                 /\ replay_row_count(dims) = sample_count
  <2> DEFINE dims == Dims(mask, fields, sample_count, TRUE, squeeze_matlab)
  <2>1. Cardinality(fields) = 1
    BY <1>2, <1>7, <1>12 DEF c
  <2>2. dims = IF squeeze_matlab /\ n = 1 THEN <<2, sample_count>>
               ELSE <<2, n, sample_count>>
    BY <2>1, DimsOfFA DEF n
  <2> HIDE DEF dims
  <2> SUFFICES /\ Len(dims) \in 2 .. 3
               /\ replay_columns(dims) = Len(ids)
               /\ replay_row_count(dims) = sample_count
    BY DEF dims
  <2>3. CASE squeeze_matlab /\ n = 1
    <3>1. dims = <<2, sample_count>>
      BY <2>2, <2>3
    <3>2. Len(dims) = 2 /\ dims[2] = sample_count /\ ~(Len(dims) > 2)
      BY <3>1
    <3> QED
      BY <3>2, <2>3, <1>5 DEF replay_columns, replay_row_count
  <2>4. CASE ~(squeeze_matlab /\ n = 1)
    <3>1. dims = <<2, n, sample_count>>
      BY <2>2, <2>4
    <3>2. Len(dims) = 3 /\ dims[2] = n /\ dims[3] = sample_count /\ Len(dims) > 2
      BY <3>1
    <3> QED
      BY <3>2, <1>5 DEF replay_columns, replay_row_count
  <2> QED
    BY <2>3, <2>4
<1> QED
    BY <1>10, <1>11, <1>12 DEF LinesAreAsLabelled, ids, bits

-----------------------------------------------------------------------------
(* Theorems. *)

\* The client's counters always say where in the stream it is.
THEOREM CaptureInvariance == Spec => []CaptureInv
<1>1. CaptureInv /\ [Next]_vars => CaptureInv'
  <2> SUFFICES ASSUME CaptureInv, [Next]_vars
               PROVE  CaptureInv'
      OBVIOUS
  <2>1. CASE send_request
      BY <2>1, SendRequestStep
  <2>2. CASE check_response
      BY <2>2, CheckResponseStep
  <2>3. CASE check_response_fails
      BY <2>3, ResponseFailsStep
  <2>4. CASE read_sample_count
      BY <2>4, ReadSampleCountStep
  <2>5. CASE read_header
      BY <2>5, ReadHeaderStep
  <2>6. CASE read_fails
      BY <2>6, ReadFailsStep
  <2>7. CASE read_timestamp_block
      BY <2>7, ReadTimestampStep
  <2>8. CASE read_lines
      BY <2>8, ReadLinesStep
  <2>9. CASE end_of_input
      BY <2>9, EndOfInputStep
  <2>10. CASE write_fails
      BY <2>10, WriteFailsStep
  <2>11. CASE finish_raw
      BY <2>11, FinishRawStep
  <2>12. CASE finish_matlab
      BY <2>12, FinishMatlabStep
  <2>13. CASE disconnect
      BY <2>13, DisconnectStep
  <2>14. CASE interrupt_capture
      BY <2>14, InterruptStep
  <2>15. CASE UNCHANGED vars
      BY <2>15, CaptureStutters
  <2> QED
      BY <2>1, <2>2, <2>3, <2>4, <2>5, <2>6, <2>7, <2>8, <2>9, <2>10, <2>11,
         <2>12, <2>13, <2>14, <2>15 DEF Next
<1> QED
    BY <1>1, InitCapture, PTL DEF Spec

\* For every set of options that validate_args lets pass and every mask, in
\* either form, the server reads from a request that fits its buffer what the
\* command line meant.
THEOREM RequestsAreUnderstood == Spec => []RequestIsUnderstood
<1>1. CaptureInv => RequestIsUnderstood
  <2> SUFFICES ASSUME CaptureInv, cpc # "parsed", RequestFits
               PROVE  RequestIsUnderstood
      BY DEF RequestIsUnderstood
  <2>1. TypeInv /\ RequestInv
      BY DEF CaptureInv
  <2> QED
      BY <2>1, RequestSurvives, Zenon DEF RequestIsUnderstood
<1> QED
    BY <1>1, CaptureInvariance, PTL

\* Client and server agree on what comes next, for every size of block and
\* buffer and wherever the stream breaks.
THEOREM InStep == Spec => []ReadsStayInStep
<1>1. CaptureInv => ReadsStayInStep
    BY DEF CaptureInv
<1> QED
    BY <1>1, CaptureInvariance, PTL

\* Every sample written has the time of its own block and place, as far as there
\* are times: the footer counts them in 32 bits.
THEOREM TimesAreRight == Spec => []FramesAreStamped
<1>1. CaptureInv => FramesAreStamped
  <2> SUFFICES ASSUME CaptureInv
               PROVE  FramesAreStamped
      OBVIOUS
  <2>1. /\ frames_written = sent /\ frames = [k \in 1 .. sent |-> first + k - 1]
        /\ sent \in Nat /\ first \in 0 .. BlockSize - 1
      BY DEF CaptureInv, FramesInv, TypeInv
  <2>2. ASSUME opts.matlab
        PROVE  /\ \A k \in DOMAIN WrittenTimes : WrittenTimes[k] = frames[k]
               /\ sent < 2 ^ Width => DOMAIN WrittenTimes = DOMAIN frames
    <3> DEFINE w == 2 ^ Width
               at(k) == (first % BlockSize) + k - 1
               time(k) == timestamps_array[at(k) \div BlockSize + 1] * BlockSize
                            + (at(k) % BlockSize)
               blocks == BlockOf(first + sent) + (IF stamped THEN 1 ELSE 0)
    <3>1. WrittenTimes = [k \in 1 .. sent % w |-> time(k)]
        BY <2>1 DEF WrittenTimes
    <3>2. /\ timestamps_array = [b \in 1 .. blocks |-> b - 1]
          /\ ~stamped => sent = 0 \/ (first + sent) % BlockSize = 0
        BY <2>2 DEF CaptureInv, TimestampsInv, Next_sample
    <3>3. ASSUME NEW k \in 1 .. sent
          PROVE  time(k) = first + k - 1
      <4> DEFINE B == BlockSize
                 n == first + k - 1
                 m == first + sent
      <4>1. B \in Nat /\ B > 0
          BY Constants
      <4>2. n \in Nat /\ m \in Nat /\ n < m /\ sent > 0
          BY <2>1
      <4>3. at(k) = n
          BY <2>1, BlockOfSmall
      <4> HIDE DEF B, n, m, at
      <4>4. /\ n \div B \in Nat /\ n % B \in 0 .. B - 1
            /\ n = B * (n \div B) + (n % B)
          BY <4>1, <4>2
      <4>5. /\ m \div B \in Nat /\ m % B \in 0 .. B - 1
            /\ m = B * (m \div B) + (m % B)
          BY <4>1, <4>2
      <4>6. blocks = m \div B + (IF stamped THEN 1 ELSE 0)
          BY DEF BlockOf, m, B
      <4> HIDE DEF blocks
      <4>7. n \div B <= m \div B
          BY <4>1, <4>2
      <4>8. ~stamped => n \div B < m \div B
        <5>1. ~stamped => m % B = 0
            BY <3>2, <4>2 DEF m, B
        <5>2. m % B = 0 => n \div B < m \div B
            BY <4>1, <4>2
        <5> QED
            BY <5>1, <5>2
      <4> DEFINE q == n \div B
                 r == n % B
      <4>9. q \in Nat /\ r \in Nat /\ n = B * q + r
          BY <4>4
      <4>10. q + 1 \in 1 .. blocks
          BY <4>4, <4>5, <4>6, <4>7, <4>8
      <4> HIDE DEF q, r
      <4>11. timestamps_array[q + 1] = q
          BY <3>2, <4>9, <4>10
      <4>12. time(k) = q * B + r
          BY <4>3, <4>11 DEF q, r, B
      <4>13. q * B = B * q
          BY <4>1, <4>9
      <4> QED
          BY <4>9, <4>12, <4>13 DEF n
    <3> HIDE DEF time, w
    <3>4. /\ sent % w \in 0 .. sent
          /\ sent < w => sent % w = sent
      <4>1. w \in Nat /\ w > 0
          BY CaptureAssumption DEF w
      <4> QED
          BY <2>1, <4>1
    <3>5. ASSUME NEW k \in 1 .. sent % w
          PROVE  k \in 1 .. sent /\ WrittenTimes[k] = frames[k]
        BY <2>1, <3>1, <3>3, <3>4
    <3>6. DOMAIN WrittenTimes = 1 .. sent % w /\ DOMAIN frames = 1 .. sent
        BY <2>1, <3>1
    <3> QED
        BY <3>4, <3>5, <3>6 DEF w
  <2> QED
      BY <2>1, <2>2 DEF FramesAreStamped
<1> QED
    BY <1>1, CaptureInvariance, PTL

\* The header of a capture that succeeds says how many samples follow, no more
\* than were asked for; a capture in raw format is complete.
THEOREM HeaderIsRight == Spec => []OutputIsAsReported
<1>1. CaptureInv => OutputIsAsReported
  <2> SUFFICES ASSUME CaptureInv, cpc = "ok"
               PROVE  OutputIsAsReported
      BY DEF OutputIsAsReported
  <2>1. /\ TypeInv /\ CountInv /\ RequestInv
        /\ sent \in Nat /\ sample_count \in Nat /\ count \in Nat
      BY DEF CaptureInv, TypeInv
  <2>2. Len(frames) = sent
      BY <2>1 DEF CaptureInv, FramesInv
  <2>3. opts.matlab \in BOOLEAN /\ opts.continuous \in BOOLEAN /\ opts.count \in Nat
      BY <2>1, OptionTypes DEF TypeInv, RequestInv
  <2> DEFINE w == 2 ^ Width
             l == Len(frames)
  <2>4. w \in Nat
      BY Constants
  <2> HIDE DEF l
  <2>5. /\ opts.continuous => sample_count = opts.count
        /\ ~opts.continuous =>
            /\ count > 0 /\ sample_count = count
            /\ opts.count > 0 => count <= opts.count
        /\ sample_count > 0 => sent <= sample_count
        /\ opts.matlab => (sent < w /\ sample_count < w => head_count = sent)
        /\ ~opts.matlab => opts.continuous \/ sent = sample_count
      BY <2>1 DEF CountInv
  <2>6. l = sent
      BY <2>2 DEF l
  <2> HIDE DEF w
  <2>7. /\ opts.count > 0 => l <= opts.count
        /\ opts.matlab /\ l < w /\ sample_count < w => head_count = l
        /\ ~opts.matlab /\ ~opts.continuous => l = count
      BY <2>1, <2>3, <2>5, <2>6
  <2> QED
      BY <2>7 DEF OutputIsAsReported, l, w
<1> QED
    BY <1>1, CaptureInvariance, PTL

\* For every mask, every set of fields and every set of archived ids: the line
\* the server sends is the one the client describes.
THEOREM LinesAreRight == Spec => []LinesAreAsLabelled
<1>1. Init => ArchivedInv
    BY DEF Init, ArchivedInv
<1>2. CaptureInv /\ ArchivedInv /\ [Next]_vars => ArchivedInv'
    BY ArchivedStep
<1>3. CaptureInv /\ ArchivedInv => LinesAreAsLabelled
    BY LinesAreInOrder
<1> QED
    BY <1>1, <1>2, <1>3, CaptureInvariance, PTL DEF Spec

=============================================================================
