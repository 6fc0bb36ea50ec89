---------------------------- MODULE RequestProofs ----------------------------
(***************************************************************************)
(* Proofs about ArchiveIndex and ReadRequest: binary_search finds the      *)
(* block, and a request is sent what the index promised it.                *)
(*                                                                         *)
(* Blocks are numbered from 0 in the order they were completed; block n is *)
(* in slot n % MajorBlocks of the ring, and the ring holds the last        *)
(* MajorBlocks of them.  The proofs are about these numbers.               *)
(***************************************************************************)
EXTENDS ReadRequest, WellFoundedInduction, SequenceTheorems, TLAPS

-----------------------------------------------------------------------------
(* Arithmetic. *)

\* Every set of numbers has a least one.
LEMMA LeastNumber ==
    ASSUME NEW S, S \subseteq Nat, S # {}
    PROVE  \E n \in S : \A m \in S : n <= m
<1> DEFINE less == OpToRel(<, Nat)
<1>1. IsWellFoundedOn(less, Nat)
    BY NatLessThanWellFounded
<1>2. \A x \in Nat, y \in Nat : y < x => <<y, x>> \in less
    BY DEF OpToRel
<1> HIDE DEF less
<1>3. PICK x \in S : \A y \in S : ~(<<y, x>> \in less)
    BY <1>1, WFMin
<1>4. ASSUME NEW y \in S PROVE x <= y
  <2>1. x \in Nat /\ y \in Nat
    OBVIOUS
  <2>2. ~(y < x)
    BY <1>2, <1>3, <2>1, Zenon
  <2> QED
    BY <2>1, <2>2
<1> QED
    BY <1>4

\* Induction, over a set instead of a predicate.
LEMMA SetInduction ==
    ASSUME NEW S, 0 \in S, \A n \in Nat : n \in S => n + 1 \in S
    PROVE  \A n \in Nat : n \in S
<1> SUFFICES ASSUME NEW k \in Nat, k \notin S PROVE FALSE
    OBVIOUS
<1> DEFINE rest == {n \in Nat : n \notin S}
<1>1. PICK n \in rest : \A m \in rest : n <= m
    BY LeastNumber
<1>2. n # 0 /\ n - 1 \in Nat
    OBVIOUS
<1>3. n - 1 \in S
    BY <1>1, <1>2
<1> QED
    BY <1>2, <1>3

LEMMA Ring == MajorBlocks \in Nat /\ MajorBlocks > 1
    BY IndexAssumption

LEMMA Distribute ==
    \A a, b, c \in Int :
        /\ a * (b - c) = (a * b) - (a * c)
        /\ a * (b + c) = (a * b) + (a * c)
        /\ a * b \in Int
    OBVIOUS

LEMMA Slot ==
    ASSUME NEW n \in Int
    PROVE  /\ n % MajorBlocks \in Blocks
           /\ n \div MajorBlocks \in Int
           /\ n = MajorBlocks * (n \div MajorBlocks) + (n % MajorBlocks)
    BY Ring DEF Blocks

\* Two numbers less than a round apart have different slots.
LEMMA SlotUnique ==
    ASSUME NEW m \in Int, NEW n \in Int, m % MajorBlocks = n % MajorBlocks,
           m - n < MajorBlocks, n - m < MajorBlocks
    PROVE  m = n
<1> DEFINE p == m \div MajorBlocks
           q == n \div MajorBlocks
           r == m % MajorBlocks
<1>1. /\ p \in Int /\ q \in Int /\ r \in Int
      /\ m = MajorBlocks * p + r /\ n = MajorBlocks * q + r
    BY Slot, Ring DEF Blocks
<1> HIDE DEF p, q, r
<1>2. m - n = MajorBlocks * (p - q)
    BY <1>1, Ring, Distribute
<1>3. p - q >= 1 => MajorBlocks * (p - q) >= MajorBlocks
    BY <1>1, Ring
<1>4. p - q <= -1 => MajorBlocks * (p - q) <= -MajorBlocks
    BY <1>1, Ring
<1>5. p - q = 0 => MajorBlocks * (p - q) = 0
    BY <1>1, Ring
<1> QED
    BY <1>1, <1>2, <1>3, <1>4, <1>5, Ring

LEMMA SlotIs ==
    ASSUME NEW r \in Blocks, NEW q \in Int
    PROVE  (MajorBlocks * q + r) % MajorBlocks = r
<1> DEFINE x == MajorBlocks * q + r
           p == x \div MajorBlocks
           s == x % MajorBlocks
<1>1. x \in Int /\ r \in Int /\ r >= 0 /\ r < MajorBlocks
    BY Ring DEF Blocks
<1>2. /\ p \in Int /\ s \in Int /\ s >= 0 /\ s < MajorBlocks
      /\ MajorBlocks * q + r = MajorBlocks * p + s
    BY <1>1, Slot, Ring DEF Blocks
<1> HIDE DEF x, p, s
<1>3. MajorBlocks * (p - q) = r - s
    BY <1>1, <1>2, Ring, Distribute
<1>4. p - q >= 1 => MajorBlocks * (p - q) >= MajorBlocks
    BY <1>2, Ring
<1>5. p - q <= -1 => MajorBlocks * (p - q) <= -MajorBlocks
    BY <1>2, Ring
<1>6. p = q
    BY <1>1, <1>2, <1>3, <1>4, <1>5, Ring
<1> QED
    BY <1>1, <1>2, <1>6, Ring DEF s, x

LEMMA SlotShift ==
    ASSUME NEW n \in Int, NEW k \in Int
    PROVE  ((n % MajorBlocks) + k) % MajorBlocks = (n + k) % MajorBlocks
<1> DEFINE p == n \div MajorBlocks
           r == n % MajorBlocks
           q == (r + k) \div MajorBlocks
           s == (r + k) % MajorBlocks
<1>1. p \in Int /\ r \in Int /\ n = MajorBlocks * p + r
    BY Slot, Ring DEF Blocks
<1>2. q \in Int /\ s \in Blocks /\ r + k = MajorBlocks * q + s
    BY <1>1, Slot
<1> HIDE DEF p, q, r, s
<1>3. s \in Int
    BY <1>2, Ring DEF Blocks
<1>4. n + k = MajorBlocks * (p + q) + s
    BY <1>1, <1>2, <1>3, Ring, Distribute
<1>5. p + q \in Int
    BY <1>1, <1>2
<1>6. (n + k) % MajorBlocks = s
    BY <1>2, <1>4, <1>5, SlotIs
<1> QED
    BY <1>6 DEF r, s

\* The slots of the first round.
LEMMA SlotSmall ==
    ASSUME NEW b \in Blocks PROVE b % MajorBlocks = b
<1>1. 0 \in Int /\ MajorBlocks * 0 + b = b
    BY Ring DEF Blocks
<1> QED
    BY <1>1, SlotIs

LEMMA NextSlot ==
    ASSUME NEW n \in Int
    PROVE  NextBlock(n % MajorBlocks) = (n + 1) % MajorBlocks
    BY SlotShift DEF NextBlock

-----------------------------------------------------------------------------
(* The bisection. *)

Pairs == Blocks \X Blocks

\* What search makes of a range, given what it makes of smaller ones.
SearchStep(t, f, range) ==
    LET low == range[1]
        high == range[2]
        mid == Midpoint(low, high)
    IN IF NextBlock(low) = high THEN low
       ELSE IF BeforeBlock(t, mid) THEN f[<<low, mid>>] ELSE f[<<mid, high>>]

\* Blocks from low on to high; a whole round if they are the same.
Span(low, high) ==
    IF low < high THEN high - low ELSE high - low + MajorBlocks

LEMMA SpanType ==
    ASSUME NEW low \in Blocks, NEW high \in Blocks
    PROVE  Span(low, high) \in 1 .. MajorBlocks
    BY Ring DEF Span, Blocks

\* Both parts of a range are smaller than the range.
LEMMA SpanShrinks ==
    ASSUME NEW low \in Blocks, NEW high \in Blocks, NextBlock(low) # high
    PROVE  /\ Midpoint(low, high) \in Blocks
           /\ Span(low, Midpoint(low, high)) < Span(low, high)
           /\ Span(Midpoint(low, high), high) < Span(low, high)
<1> DEFINE mid == Midpoint(low, high)
<1>1. low \in Int /\ high \in Int /\ 0 <= low /\ low < MajorBlocks
      /\ 0 <= high /\ high < MajorBlocks
    BY Ring DEF Blocks
<1>2. Span(low, high) # 1
  <2>1. SUFFICES ASSUME Span(low, high) = 1 PROVE FALSE
    OBVIOUS
  <2>2. CASE low < high
    <3>1. high = low + 1 /\ low + 1 \in Blocks
        BY <1>1, <2>1, <2>2, Ring DEF Span, Blocks
    <3> QED
        BY <3>1, SlotSmall DEF NextBlock
  <2>3. CASE ~(low < high)
    <3>1. high = 0 /\ low + 1 = MajorBlocks * 1 + 0 /\ 0 \in Blocks /\ 1 \in Int
        BY <1>1, <2>1, <2>3, Ring DEF Span, Blocks
    <3> QED
        BY <3>1, SlotIs DEF NextBlock
  <2> QED
    BY <2>2, <2>3
<1>3. CASE low < high
  <2>1. mid = (low + high) \div 2
    BY <1>3 DEF Midpoint
  <2> HIDE DEF mid
  <2>2. low + 1 < high
    BY <1>1, <1>2, <1>3 DEF Span
  <2>3. mid \in Int /\ low < mid /\ mid < high
    BY <1>1, <2>1, <2>2
  <2> QED
    BY <1>1, <1>3, <2>3, Ring DEF Span, mid, Blocks
<1>4. CASE ~(low < high)
  <2> DEFINE x == (low + high + MajorBlocks) \div 2
  <2>1. mid = x % MajorBlocks
    BY <1>4 DEF Midpoint
  <2>2. high - low + MajorBlocks >= 2
    BY <1>1, <1>2, <1>4, Ring DEF Span
  <2>3. x \in Int /\ low < x /\ x < high + MajorBlocks
    BY <1>1, <1>4, <2>2, Ring
  <2> HIDE DEF mid, x
  <2>4. IF x < MajorBlocks THEN mid = x ELSE mid = x - MajorBlocks
    <3>1. CASE x < MajorBlocks
        BY <1>1, <2>1, <2>3, <3>1, SlotSmall, Ring DEF Blocks
    <3>2. CASE ~(x < MajorBlocks)
      <4>1. x = MajorBlocks * 1 + (x - MajorBlocks)
            /\ x - MajorBlocks \in Blocks /\ 1 \in Int
        BY <1>1, <2>3, <3>2, Ring DEF Blocks
      <4> QED
        BY <2>1, <3>2, <4>1, SlotIs
    <3> QED
        BY <3>1, <3>2
  <2>5. mid \in Int /\ 0 <= mid /\ mid < MajorBlocks
    BY <1>1, <2>3, <2>4, Ring
  <2> QED
    BY <1>1, <1>4, <2>3, <2>4, <2>5, Ring DEF Span, mid, Blocks
<1> QED
    BY <1>3, <1>4

\* The recursion of Bisect is well-founded: there is such a function.
LEMMA SearchExists ==
    ASSUME NEW t
    PROVE  \E f : f = [range \in Pairs |-> SearchStep(t, f, range)]
<1> DEFINE Good(f, n) ==
            \A low \in Blocks, high \in Blocks :
                Span(low, high) <= n =>
                    f[<<low, high>>] = SearchStep(t, f, <<low, high>>)
           S == {n \in Nat : \E f \in [Pairs -> Blocks] : Good(f, n)}
<1>1. 0 \in S
  <2> DEFINE f == [range \in Pairs |-> 0]
  <2>1. f \in [Pairs -> Blocks]
    BY Ring DEF Blocks
  <2>2. Good(f, 0)
    BY SpanType
  <2> QED
    BY <2>1, <2>2
<1>2. ASSUME NEW n \in Nat, n \in S PROVE n + 1 \in S
  <2>1. PICK f \in [Pairs -> Blocks] : Good(f, n)
    BY <1>2
  <2> DEFINE g == [range \in Pairs |-> SearchStep(t, f, range)]
  <2>2. ASSUME NEW low \in Blocks, NEW high \in Blocks
        PROVE  SearchStep(t, f, <<low, high>>) \in Blocks
    <3>1. <<low, high>>[1] = low /\ <<low, high>>[2] = high
        OBVIOUS
    <3>2. NextBlock(low) # high =>
            /\ <<low, Midpoint(low, high)>> \in Pairs
            /\ <<Midpoint(low, high), high>> \in Pairs
        BY SpanShrinks DEF Pairs
    <3> QED
        BY <3>1, <3>2 DEF SearchStep
  <2>3. \A low \in Blocks, high \in Blocks :
            g[<<low, high>>] = SearchStep(t, f, <<low, high>>)
    BY DEF Pairs
  <2>4. g \in [Pairs -> Blocks]
    BY <2>2 DEF Pairs
  <2> HIDE DEF g
  <2>5. ASSUME NEW low \in Blocks, NEW high \in Blocks,
               Span(low, high) <= n + 1
        PROVE  g[<<low, high>>] = SearchStep(t, g, <<low, high>>)
    <3> DEFINE mid == Midpoint(low, high)
    <3>1. CASE NextBlock(low) = high
        BY <2>3, <3>1 DEF SearchStep
    <3>2. CASE NextBlock(low) # high
      <4>1. mid \in Blocks /\ Span(low, mid) < Span(low, high)
            /\ Span(mid, high) < Span(low, high)
        BY <3>2, SpanShrinks
      <4> HIDE DEF mid
      <4>2. Span(low, mid) <= n /\ Span(mid, high) <= n
        BY <2>5, <4>1, SpanType DEF Blocks
      <4>3. /\ g[<<low, mid>>] = f[<<low, mid>>]
            /\ g[<<mid, high>>] = f[<<mid, high>>]
        BY <2>1, <2>3, <4>1, <4>2
      <4> QED
        BY <2>3, <3>2, <4>3 DEF SearchStep, mid
    <3> QED
        BY <3>1, <3>2
  <2> QED
    BY <2>4, <2>5
<1>3. MajorBlocks \in S
    BY <1>1, <1>2, SetInduction, Ring
<1>4. PICK f \in [Pairs -> Blocks] : Good(f, MajorBlocks)
    BY <1>3
<1>5. \A range \in Pairs : f[range] = SearchStep(t, f, range)
    BY <1>4, SpanType DEF Pairs
<1> QED
    BY <1>5

Searching(t) ==
    CHOOSE f : f = [range \in Pairs |-> SearchStep(t, f, range)]

LEMMA SearchDef ==
    ASSUME NEW t
    PROVE  /\ Bisect(t) = Searching(t)[<<Start, current>>]
           /\ \A low \in Blocks, high \in Blocks :
                Searching(t)[<<low, high>>] =
                    SearchStep(t, Searching(t), <<low, high>>)
<1>1. Searching(t) = [range \in Pairs |-> SearchStep(t, Searching(t), range)]
    BY SearchExists DEF Searching
<1>2. Bisect(t) = Searching(t)[<<Start, current>>]
    BY DEF Bisect, Searching, Pairs, SearchStep
<1> QED
    BY <1>1, <1>2 DEF Pairs

-----------------------------------------------------------------------------
(* The index. *)

Entry(n) == index[n % MajorBlocks]

\* The blocks in the ring, the one about to be overwritten included; those
\* before block 0 have never been written.
InRing == completed - MajorBlocks .. completed - 1

\* Later blocks begin later, by all but what a gap may take back.
Follows(m, n) ==
    \E g \in Gaps : Entry(n).timestamp >= Entry(m).timestamp + Duration + g[1]

IndexTypes ==
    /\ completed \in Nat
    /\ clock \in Int /\ id \in Nat
    /\ index \in [Blocks -> [timestamp : Int, duration : Nat, id_zero : Nat]]

\* The inductive invariant of the index.
IndexInv ==
    /\ IndexTypes
    /\ current = completed % MajorBlocks
    /\ \A n \in InRing :
        /\ n < 0 => Entry(n).timestamp = 0 /\ Entry(n).duration = 0
        /\ n >= 0 => Entry(n).duration = Duration
                     /\ Entry(n).timestamp + Duration <= clock
    /\ \A m, n \in InRing : 0 <= m /\ m < n => Follows(m, n)

LEMMA GapTypes ==
    ASSUME NEW g \in Gaps
    PROVE  g[1] \in Int /\ g[1] > -Duration /\ g[2] \in Nat
    BY IndexAssumption

LEMMA DurationType == Duration \in Nat /\ Duration > 0 /\ SampleCount \in Nat
    BY IndexAssumption

LEMMA EntryType ==
    ASSUME IndexTypes, NEW n \in Int
    PROVE  Entry(n) \in [timestamp : Int, duration : Nat, id_zero : Nat]
    BY Slot DEF Entry, IndexTypes

LEMMA Later ==
    ASSUME IndexInv, NEW m \in InRing, NEW n \in InRing, 0 <= m, m < n
    PROVE  Entry(m).timestamp < Entry(n).timestamp
<1>1. IndexTypes /\ m \in Int /\ n \in Int
    BY Ring DEF IndexInv, IndexTypes, InRing
<1>2. PICK g \in Gaps :
        Entry(n).timestamp >= Entry(m).timestamp + Duration + g[1]
    BY DEF IndexInv, Follows
<1>3. Entry(m).timestamp \in Int /\ Entry(n).timestamp \in Int
    BY <1>1, EntryType
<1> QED
    BY <1>2, <1>3, GapTypes, DurationType

LEMMA IndexInit == InitIndex => IndexInv
<1> SUFFICES ASSUME InitIndex PROVE IndexInv
    OBVIOUS
<1>1. 0 % MajorBlocks = 0
    BY SlotSmall, Ring DEF Blocks
<1>2. IndexTypes /\ current = completed % MajorBlocks
    BY <1>1 DEF InitIndex, IndexTypes
<1>3. ASSUME NEW n \in InRing
      PROVE  n < 0 /\ Entry(n).timestamp = 0 /\ Entry(n).duration = 0
  <2>1. n \in Int /\ n < 0
    BY <1>3, Ring DEF InRing, InitIndex
  <2>2. n % MajorBlocks \in Blocks
    BY <2>1, Slot
  <2> QED
    BY <2>1, <2>2 DEF Entry, InitIndex
<1>4. \A m, n \in InRing : 0 <= m /\ m < n => Follows(m, n)
    BY <1>3, Ring DEF InRing, InitIndex
<1> QED
    BY <1>2, <1>3, <1>4, Ring DEF IndexInv, InRing, InitIndex

\* A block is completed: the ring loses its oldest block and keeps the rest.
LEMMA IndexStep ==
    ASSUME IndexInv, AdvanceIndex
    PROVE  /\ IndexInv'
           /\ completed' = completed + 1
           /\ \A n \in InRing \ {completed - MajorBlocks} :
                Entry(n)' = Entry(n)
<1> USE DEF IndexInv
<1>1. PICK g \in Gaps : advance_index(g[1], g[2])
    BY DEF AdvanceIndex
<1>2. g[1] \in Int /\ g[1] > -Duration /\ g[2] \in Nat
    BY <1>1, GapTypes
<1>3. completed \in Nat /\ clock \in Int /\ id \in Nat /\ completed \in Int
    BY DEF IndexTypes
<1>4. current \in Blocks /\ current = completed % MajorBlocks
    BY <1>3, Slot
<1>5. /\ completed' = completed + 1
      /\ clock' = clock + g[1] + Duration
      /\ id' = id + g[2] + SampleCount
      /\ current' = NextBlock(current)
    BY <1>1 DEF advance_index
<1> DEFINE new == [timestamp |-> clock + g[1], duration |-> Duration,
                   id_zero |-> id + g[2]]
<1>6. new \in [timestamp : Int, duration : Nat, id_zero : Nat]
    BY <1>2, <1>3, DurationType
<1>7. index' = [index EXCEPT ![current] = new]
    BY <1>1 DEF advance_index
<1> HIDE DEF new
<1>8. IndexTypes'
    BY <1>2, <1>3, <1>4, <1>5, <1>6, <1>7, DurationType DEF IndexTypes
<1>9. current' = completed' % MajorBlocks
    BY <1>3, <1>4, <1>5, NextSlot
<1>10. index'[completed % MajorBlocks] = new
    BY <1>4, <1>7 DEF IndexTypes
<1>11. ASSUME NEW n \in InRing \ {completed - MajorBlocks}
       PROVE  Entry(n)' = Entry(n)
  <2>1. /\ n \in Int /\ n < completed /\ n > completed - MajorBlocks
    BY <1>3, Ring DEF InRing
  <2>2. n % MajorBlocks # current /\ n % MajorBlocks \in Blocks
    <3>1. n - completed < MajorBlocks /\ completed - n < MajorBlocks
        BY <1>3, <2>1, Ring
    <3>2. n % MajorBlocks # completed % MajorBlocks
        BY <1>3, <2>1, <3>1, SlotUnique
    <3> QED
        BY <1>4, <2>1, <3>2, Slot
  <2> QED
    BY <1>7, <2>2 DEF Entry, IndexTypes
<1>12. \A n \in InRing' : n = completed
                          \/ n \in InRing \ {completed - MajorBlocks}
    BY <1>3, <1>5, Ring DEF InRing
<1>13. clock \in Int /\ clock' \in Int /\ clock <= clock'
    BY <1>2, <1>3, <1>5, DurationType
<1>14. ASSUME NEW n \in InRing'
       PROVE  /\ n < 0 => Entry(n)'.timestamp = 0 /\ Entry(n)'.duration = 0
              /\ n >= 0 => Entry(n)'.duration = Duration
                           /\ Entry(n)'.timestamp + Duration <= clock'
  <2>1. CASE n = completed
    <3>1. Entry(n)' = new
        BY <1>10, <2>1 DEF Entry
    <3> QED
        BY <1>2, <1>3, <1>5, <2>1, <3>1, DurationType DEF new
  <2>2. CASE n \in InRing \ {completed - MajorBlocks}
    <3>1. n \in Int /\ Entry(n)' = Entry(n)
        BY <1>3, <1>11, <2>2, Ring DEF InRing
    <3>2. Entry(n).timestamp \in Int
        BY <3>1, EntryType
    <3> QED
        BY <1>13, <2>2, <3>1, <3>2, DurationType
  <2> QED
    BY <1>12, <2>1, <2>2
<1>15. ASSUME NEW m \in InRing', NEW n \in InRing', 0 <= m, m < n
       PROVE  Follows(m, n)'
  <2>1. m \in Int /\ n \in Int /\ m \in InRing \ {completed - MajorBlocks}
    BY <1>3, <1>5, <1>12, <1>15, Ring DEF InRing
  <2>2. Entry(m)' = Entry(m) /\ Entry(m).timestamp \in Int
        /\ Entry(m).timestamp + Duration <= clock
    BY <1>11, <1>15, <2>1, EntryType
  <2>3. CASE n = completed
    <3>1. Entry(n)'.timestamp = clock + g[1]
        BY <1>10, <2>3 DEF Entry, new
    <3>2. Entry(n)'.timestamp >= Entry(m)'.timestamp + Duration + g[1]
        BY <1>2, <1>3, <2>2, <3>1, DurationType
    <3> QED
        BY <3>2 DEF Follows
  <2>4. CASE n \in InRing \ {completed - MajorBlocks}
    <3>1. Entry(n)' = Entry(n) /\ Follows(m, n)
        BY <1>11, <1>15, <2>1, <2>4
    <3> QED
        BY <2>2, <3>1 DEF Follows
  <2> QED
    BY <1>12, <2>3, <2>4
<1> QED
    BY <1>5, <1>8, <1>9, <1>11, <1>14, <1>15

-----------------------------------------------------------------------------
(* What the bisection finds. *)

\* A range of numbers shorter than a round, in terms of slots.
LEMMA Splits ==
    ASSUME NEW l \in Int, NEW h \in Int, l < h, h - l < MajorBlocks
    PROVE  /\ NextBlock(l % MajorBlocks) = h % MajorBlocks <=> h - l = 1
           /\ Midpoint(l % MajorBlocks, h % MajorBlocks)
                = (l + ((h - l) \div 2)) % MajorBlocks
<1> DEFINE a == l % MajorBlocks
           b == h % MajorBlocks
           k == h - l
           half == k \div 2
<1>1. k \in Int /\ 1 <= k /\ k < MajorBlocks /\ half \in Int /\ 0 <= half
      /\ half < k
    BY Ring
<1>2. /\ a \in Blocks /\ b \in Blocks /\ a \in Int /\ b \in Int
      /\ 0 <= a /\ a < MajorBlocks
    BY Slot, Ring DEF Blocks
<1>3. NextBlock(a) = b <=> k = 1
  <2>1. NextBlock(a) = (l + 1) % MajorBlocks
    BY NextSlot
  <2>2. k = 1 => l + 1 = h
    BY <1>1
  <2>3. ASSUME (l + 1) % MajorBlocks = h % MajorBlocks PROVE l + 1 = h
    <3>1. l + 1 \in Int /\ (l + 1) - h < MajorBlocks
          /\ h - (l + 1) < MajorBlocks
        BY Ring
    <3> QED
        BY <2>3, <3>1, SlotUnique
  <2> QED
    BY <1>1, <2>1, <2>2, <2>3
<1>4. b = (a + k) % MajorBlocks /\ (a + half) % MajorBlocks
                                        = (l + half) % MajorBlocks
  <2>1. l + k = h
    OBVIOUS
  <2> QED
    BY <1>1, <2>1, SlotShift
<1> HIDE DEF a, b, k, half
<1>5. CASE a + k < MajorBlocks
  <2>1. a + k \in Blocks /\ a + half \in Blocks
    BY <1>1, <1>2, <1>5, Ring DEF Blocks
  <2>2. b = a + k /\ (a + half) % MajorBlocks = a + half
    BY <1>4, <2>1, SlotSmall
  <2>3. a < b /\ (a + b) \div 2 = a + half
    BY <1>1, <1>2, <2>2 DEF half
  <2> QED
    BY <1>3, <1>4, <2>2, <2>3 DEF Midpoint, a, b, k, half
<1>6. CASE ~(a + k < MajorBlocks)
  <2> DEFINE c == (a + k) - MajorBlocks
  <2>1. c \in Blocks /\ 1 \in Int /\ MajorBlocks * 1 + c = a + k
    BY <1>1, <1>2, <1>6, Ring DEF Blocks
  <2>2. b = c
    BY <1>4, <2>1, SlotIs
  <2>3. ~(a < b) /\ (a + b + MajorBlocks) \div 2 = a + half
    BY <1>1, <1>2, <2>2, Ring DEF half
  <2> QED
    BY <1>3, <1>4, <2>3 DEF Midpoint, a, b, k, half
<1> QED
    BY <1>5, <1>6

\* The time is before block n begins.
Before(t, n) == BeforeBlock(t, n % MajorBlocks)

\* The bisection of l .. h ends at the last block before a change from not
\* before to before; the ends count as such.
Boundary(t, l, h, n) ==
    /\ n \in l .. h - 1
    /\ n = l \/ ~Before(t, n)
    /\ n + 1 = h \/ Before(t, n + 1)

LEMMA SearchFinds ==
    ASSUME NEW t, NEW l \in Int, NEW h \in Int, l < h, h - l < MajorBlocks
    PROVE  \E n \in Int :
            /\ Searching(t)[<<l % MajorBlocks, h % MajorBlocks>>]
                = n % MajorBlocks
            /\ Boundary(t, l, h, n)
<1> DEFINE At(i, j) == Searching(t)[<<i % MajorBlocks, j % MajorBlocks>>]
           Found(i, j) == \E n \in Int : At(i, j) = n % MajorBlocks
                                        /\ Boundary(t, i, j, n)
           S == {k \in Nat : \A i, j \in Int :
                    i < j /\ j - i <= k /\ j - i < MajorBlocks => Found(i, j)}
<1> HIDE DEF Found
<1>1. 0 \in S
    OBVIOUS
<1>2. ASSUME NEW k \in Nat, k \in S PROVE k + 1 \in S
  <2> SUFFICES ASSUME NEW i \in Int, NEW j \in Int, i < j, j - i <= k + 1,
                      j - i < MajorBlocks
               PROVE  Found(i, j)
    OBVIOUS
  <2> DEFINE m == i + ((j - i) \div 2)
             a == i % MajorBlocks
             b == j % MajorBlocks
  <2>1. a \in Blocks /\ b \in Blocks
    BY Slot
  <2>2. Searching(t)[<<a, b>>] = SearchStep(t, Searching(t), <<a, b>>)
    BY <2>1, SearchDef
  <2>3. NextBlock(a) = b <=> j - i = 1
    BY Splits
  <2>4. Midpoint(a, b) = m % MajorBlocks /\ m \in Int
    BY Splits
  <2>5. CASE j - i = 1
    <3>1. At(i, j) = i % MajorBlocks
        BY <2>2, <2>3, <2>5 DEF SearchStep
    <3>2. Boundary(t, i, j, i)
        BY <2>5 DEF Boundary
    <3> QED
        BY <3>1, <3>2 DEF Found
  <2>6. CASE j - i # 1
    <3>1. i < m /\ m < j /\ m - i <= k /\ j - m <= k
          /\ m - i < MajorBlocks /\ j - m < MajorBlocks
        BY <2>6, Ring
    <3>2. At(i, j) = IF Before(t, m) THEN At(i, m) ELSE At(m, j)
        BY <2>2, <2>3, <2>4, <2>6 DEF SearchStep, Before
    <3> HIDE DEF m
    <3>3. Found(i, m) /\ Found(m, j)
        BY <1>2, <2>4, <3>1
    <3>4. CASE Before(t, m)
      <4>1. PICK n \in Int : At(i, m) = n % MajorBlocks
                             /\ Boundary(t, i, m, n)
        BY <3>3 DEF Found
      <4>2. Boundary(t, i, j, n)
        BY <2>4, <3>1, <3>4, <4>1 DEF Boundary
      <4> QED
        BY <3>2, <3>4, <4>1, <4>2 DEF Found
    <3>5. CASE ~Before(t, m)
      <4>1. PICK n \in Int : At(m, j) = n % MajorBlocks
                             /\ Boundary(t, m, j, n)
        BY <3>3 DEF Found
      <4>2. Boundary(t, i, j, n)
        BY <2>4, <3>1, <3>5, <4>1 DEF Boundary
      <4> QED
        BY <3>2, <3>5, <4>1, <4>2 DEF Found
    <3> QED
        BY <3>4, <3>5
  <2> QED
    BY <2>5, <2>6
<1>3. \A k \in Nat : k \in S
  <2> HIDE DEF S
  <2> QED
    BY <1>1, <1>2, SetInduction
<1>4. h - l \in Nat
    OBVIOUS
<1>5. Found(l, h)
    BY <1>3, <1>4
<1> QED
    BY <1>5 DEF Found

-----------------------------------------------------------------------------
(* binary_search. *)

\* What the code takes for granted of the size of the archive: blocks are left
\* to search when the oldest are skipped.
SkipLeavesBlocks == IndexSkip + 1 < MajorBlocks

\* The first block searched.
First == completed + 1 + IndexSkip - MajorBlocks

\* Block n is the one to return for time t: the last one not after t, or else
\* the first there is.  In an empty archive that is block 0, the current one.
Found(t, n) ==
    /\ n >= 0 /\ First <= n /\ n <= completed
    /\ completed > 0 => n < completed
    /\ n = 0 \/ n = First \/ Entry(n).timestamp <= t
    /\ n + 1 < completed => t < Entry(n + 1).timestamp

LEMMA SkipType ==
    ASSUME IndexInv, SkipLeavesBlocks
    PROVE  /\ IndexSkip \in Nat /\ completed \in Nat /\ First \in Int
           /\ First < completed /\ completed - First < MajorBlocks
           /\ completed - MajorBlocks < First
    BY IndexAssumption DEF IndexInv, IndexTypes, SkipLeavesBlocks, First

LEMMA NextRound ==
    ASSUME NEW n \in Int
    PROVE  (n + MajorBlocks) % MajorBlocks = n % MajorBlocks
<1> DEFINE q == n \div MajorBlocks
           r == n % MajorBlocks
<1>1. q \in Int /\ r \in Blocks /\ r \in Int /\ n = MajorBlocks * q + r
    BY Slot, Ring DEF Blocks
<1> HIDE DEF q, r
<1>2. q + 1 \in Int /\ n + MajorBlocks = MajorBlocks * (q + 1) + r
    BY <1>1, Ring, Distribute
<1>3. (n + MajorBlocks) % MajorBlocks = r
    BY <1>1, <1>2, SlotIs
<1> QED
    BY <1>3 DEF r

LEMMA StartSlot ==
    ASSUME IndexInv, SkipLeavesBlocks
    PROVE  Start = First % MajorBlocks
<1>1. First \in Int /\ completed \in Int /\ 1 + IndexSkip \in Int
    BY SkipType
<1>2. Start = ((completed % MajorBlocks) + (1 + IndexSkip)) % MajorBlocks
  <2>0. current \in Int
    BY <1>1, Slot, Ring DEF IndexInv, Blocks
  <2>1. current + 1 + IndexSkip = current + (1 + IndexSkip)
    BY <2>0, SkipType
  <2> QED
    BY <2>1 DEF Start, IndexInv
<1>3. Start = (completed + (1 + IndexSkip)) % MajorBlocks
    BY <1>1, <1>2, SlotShift
<1>4. completed + (1 + IndexSkip) = First + MajorBlocks
    BY <1>1, Ring, SkipType DEF First
<1> QED
    BY <1>1, <1>3, <1>4, NextRound

LEMMA BinarySearch ==
    ASSUME IndexInv, SkipLeavesBlocks, NEW t \in Nat, t > 0
    PROVE  \E n \in Int : binary_search(t) = n % MajorBlocks /\ Found(t, n)
<1>1. /\ First \in Int /\ completed \in Nat /\ completed \in Int
      /\ First < completed /\ completed - First < MajorBlocks
      /\ completed - MajorBlocks < First
    BY SkipType
<1>2. Bisect(t) = Searching(t)[<<First % MajorBlocks, completed % MajorBlocks>>]
    BY SearchDef, StartSlot DEF IndexInv
<1>3. PICK n \in Int : /\ Bisect(t) = n % MajorBlocks
                       /\ Boundary(t, First, completed, n)
    BY <1>1, <1>2, SearchFinds
<1>4. /\ First <= n /\ n < completed
      /\ n = First \/ ~Before(t, n)
      /\ n + 1 = completed \/ Before(t, n + 1)
    BY <1>1, <1>3 DEF Boundary
<1>5. \A m \in First .. completed - 1 : m \in InRing
    BY <1>1, Ring DEF InRing
<1>6. \A m \in Int : Before(t, m) <=> t < Entry(m).timestamp
    BY DEF Before, BeforeBlock, Entry
<1>7. \A m \in First .. completed - 1 :
        /\ Entry(m).timestamp \in Int
        /\ Empty(m % MajorBlocks) <=> m < 0
        /\ m < 0 => ~Before(t, m)
  <2> SUFFICES ASSUME NEW m \in First .. completed - 1
               PROVE  /\ Entry(m).timestamp \in Int
                      /\ Empty(m % MajorBlocks) <=> m < 0
                      /\ m < 0 => ~Before(t, m)
    OBVIOUS
  <2>1. m \in Int /\ m \in InRing
    BY <1>1, <1>5
  <2>2. Entry(m).timestamp \in Int
    BY <2>1, EntryType DEF IndexInv
  <2>3. /\ m < 0 => Entry(m).timestamp = 0 /\ Entry(m).duration = 0
        /\ m >= 0 => Entry(m).duration = Duration
    BY <2>1 DEF IndexInv
  <2>4. Empty(m % MajorBlocks) <=> Entry(m).duration = 0
    BY DEF Empty, Entry
  <2> QED
    BY <1>6, <2>1, <2>2, <2>3, <2>4, DurationType
<1>8. CASE n >= 0
  <2>1. binary_search(t) = n % MajorBlocks
    BY <1>1, <1>3, <1>4, <1>7, <1>8 DEF binary_search
  <2>2. Found(t, n)
    BY <1>1, <1>4, <1>6, <1>7, <1>8 DEF Found
  <2> QED
    BY <2>1, <2>2
<1>9. CASE n < 0
  <2>1. n + 1 = 0
    BY <1>1, <1>4, <1>7, <1>9
  <2>2. binary_search(t) = 0 % MajorBlocks
    BY <1>1, <1>3, <1>4, <1>7, <1>9, <2>1, NextSlot DEF binary_search
  <2>3. 1 < completed => t < Entry(1).timestamp
    <3>1. SUFFICES ASSUME 1 < completed PROVE t < Entry(1).timestamp
        OBVIOUS
    <3>2. 0 \in First .. completed - 1 /\ 1 \in First .. completed - 1
        BY <1>1, <1>4, <2>1, <3>1
    <3>3. t < Entry(0).timestamp
        BY <1>4, <1>6, <2>1, <3>1
    <3>4. Entry(0).timestamp < Entry(1).timestamp
        BY <1>5, <3>2, Later
    <3> QED
        BY <1>7, <3>2, <3>3, <3>4
  <2>4. Found(t, 0)
    BY <1>1, <1>4, <2>1, <2>3 DEF Found
  <2> QED
    BY <2>2, <2>4
<1> QED
    BY <1>3, <1>8, <1>9

-----------------------------------------------------------------------------
(* The promise of binary_search. *)

LEMMA PlaceOf ==
    ASSUME IndexInv, SkipLeavesBlocks, NEW n \in First .. completed
    PROVE  Place(n % MajorBlocks) = n - First
<1> DEFINE s == First % MajorBlocks
           q == First \div MajorBlocks
<1>1. /\ n \in Int /\ First \in Int /\ n - First \in Blocks
    BY SkipType, Ring DEF Blocks
<1>2. /\ s \in Int /\ q \in Int /\ First = MajorBlocks * q + s
      /\ n % MajorBlocks \in Int
    BY <1>1, Slot, Ring DEF Blocks
<1>3. Place(n % MajorBlocks)
        = ((n % MajorBlocks) + (MajorBlocks - s)) % MajorBlocks
  <2>1. Start = s
    BY StartSlot
  <2>2. (n % MajorBlocks) - s + MajorBlocks = (n % MajorBlocks) + (MajorBlocks - s)
    BY <1>2, Ring
  <2> QED
    BY <2>1, <2>2 DEF Place
<1> HIDE DEF s, q
<1>4. Place(n % MajorBlocks) = (n + (MajorBlocks - s)) % MajorBlocks
  <2>1. MajorBlocks - s \in Int
    BY <1>2, Ring
  <2> QED
    BY <1>1, <1>3, <2>1, SlotShift
<1>5. n + (MajorBlocks - s) = MajorBlocks * (q + 1) + (n - First)
    BY <1>1, <1>2, Ring, Distribute
<1>6. q + 1 \in Int
    BY <1>2
<1> QED
    BY <1>1, <1>4, <1>5, <1>6, SlotIs

LEMMA OfPlace ==
    ASSUME IndexInv, SkipLeavesBlocks, NEW b \in Blocks
    PROVE  Place(b) \in Nat /\ (First + Place(b)) % MajorBlocks = b
<1> DEFINE x == b - Start + MajorBlocks
<1>1. b \in Int /\ Start \in Int /\ x \in Int /\ First \in Int
    BY StartSlot, SkipType, Slot, Ring DEF Blocks
<1>2. Place(b) = x % MajorBlocks /\ Place(b) \in Nat
    BY <1>1, Slot, Ring DEF Place, Blocks
<1>3. (First + Place(b)) % MajorBlocks = (Start + Place(b)) % MajorBlocks
    BY <1>1, <1>2, StartSlot, SlotShift
<1>4. (Start + Place(b)) % MajorBlocks = (x + Start) % MajorBlocks
    BY <1>1, <1>2, SlotShift
<1>5. x + Start = b + MajorBlocks
    BY <1>1, Ring
<1> QED
    BY <1>1, <1>2, <1>3, <1>4, <1>5, NextRound, SlotSmall

\* The blocks that are searched are those from First on that were written.
LEMMA SearchedAre ==
    ASSUME IndexInv, SkipLeavesBlocks
    PROVE  /\ \A b \in Searched : /\ First + Place(b) >= 0
                                  /\ First + Place(b) < completed
           /\ \A n \in First .. completed - 1 :
                n >= 0 => n % MajorBlocks \in Searched
<1>1. /\ First \in Int /\ completed \in Nat /\ First < completed
      /\ completed - MajorBlocks < First
    BY SkipType
<1>2. Place(current) = completed - First
    BY <1>1, PlaceOf DEF IndexInv
<1>3. ASSUME NEW n \in Int, First <= n, n < completed
      PROVE  Empty(n % MajorBlocks) <=> n < 0
  <2>1. n \in InRing
    BY <1>1, <1>3, Ring DEF InRing
  <2>2. /\ n < 0 => Entry(n).duration = 0
        /\ n >= 0 => Entry(n).duration = Duration
    BY <2>1 DEF IndexInv
  <2> QED
    BY <1>3, <2>2, DurationType DEF Empty, Entry
<1>4. ASSUME NEW b \in Searched
      PROVE  First + Place(b) >= 0 /\ First + Place(b) < completed
  <2> DEFINE n == First + Place(b)
  <2>1. b \in Blocks /\ Place(b) < Place(current) /\ ~Empty(b)
    BY DEF Searched
  <2>2. n \in Int /\ n % MajorBlocks = b /\ First <= n /\ n < completed
    BY <1>1, <1>2, <2>1, OfPlace
  <2> HIDE DEF n
  <2>3. n >= 0
    BY <1>3, <2>1, <2>2
  <2> QED
    BY <2>2, <2>3 DEF n
<1>5. ASSUME NEW n \in First .. completed - 1, n >= 0
      PROVE  n % MajorBlocks \in Searched
  <2>1. n \in Int /\ First <= n /\ n < completed /\ n \in First .. completed
    BY <1>1
  <2>2. Place(n % MajorBlocks) = n - First
    BY <2>1, PlaceOf
  <2>3. ~Empty(n % MajorBlocks) /\ n % MajorBlocks \in Blocks
    BY <1>3, <1>5, <2>1, Slot
  <2> QED
    BY <1>1, <1>2, <2>1, <2>2, <2>3 DEF Searched
<1> QED
    BY <1>4, <1>5

LEMMA SearchIsCorrect ==
    ASSUME IndexInv, SkipLeavesBlocks
    PROVE  SearchFindsBlock
<1> SUFFICES ASSUME NEW t \in Times
             PROVE  LET early == {b \in Searched : index[b].timestamp <= t} IN
                    binary_search(t) =
                        IF Searched = {} THEN current
                        ELSE IF early = {} THEN Earliest(Searched)
                                           ELSE Latest(early)
    BY DEF SearchFindsBlock
<1> DEFINE early == {b \in Searched : index[b].timestamp <= t}
<1>1. t \in Nat /\ t > 0
    BY DEF Times, IndexInv, IndexTypes
<1>2. PICK n \in Int : binary_search(t) = n % MajorBlocks /\ Found(t, n)
    BY <1>1, BinarySearch
<1>3. /\ First \in Int /\ completed \in Nat /\ First < completed
      /\ completed - MajorBlocks < First
    BY SkipType
<1>4. \A b \in Searched :
        /\ b \in Blocks /\ Place(b) \in Nat
        /\ First + Place(b) >= 0 /\ First + Place(b) < completed
        /\ b = (First + Place(b)) % MajorBlocks
    BY OfPlace, SearchedAre DEF Searched
<1>5. \A b, c \in Searched : Place(b) = Place(c) => b = c
    BY <1>4
<1>6. \A b \in Searched : index[b].timestamp = Entry(First + Place(b)).timestamp
    BY <1>4 DEF Entry
<1>7. CASE completed = 0
  <2>1. Searched = {}
    BY <1>3, <1>4, <1>7
  <2>2. n = completed
    BY <1>2, <1>7 DEF Found
  <2> QED
    BY <1>2, <2>1, <2>2 DEF IndexInv
<1>8. CASE completed > 0
  <2> DEFINE low == n % MajorBlocks
  <2>1. /\ n >= 0 /\ First <= n /\ n < completed
        /\ n = 0 \/ n = First \/ Entry(n).timestamp <= t
        /\ n + 1 < completed => t < Entry(n + 1).timestamp
    BY <1>2, <1>8 DEF Found
  <2>2. low \in Searched /\ Place(low) = n - First
    BY <1>3, <2>1, SearchedAre, PlaceOf
  <2>3. \A m \in First .. completed - 1 : Entry(m).timestamp \in Int
                                          /\ m \in InRing
    BY <1>3, EntryType, Ring DEF IndexInv, InRing
  <2>4. \A m \in Int : n < m /\ m < completed => t < Entry(m).timestamp
    <3> SUFFICES ASSUME NEW m \in Int, n < m, m < completed
                 PROVE  t < Entry(m).timestamp
        OBVIOUS
    <3>1. n + 1 \in First .. completed - 1 /\ m \in First .. completed - 1
          /\ n + 1 < completed
        BY <1>3, <2>1
    <3>2. n + 1 < m => Entry(n + 1).timestamp < Entry(m).timestamp
        BY <2>1, <2>3, <3>1, Later
    <3>3. CASE n + 1 = m
        BY <2>1, <3>1, <3>3
    <3>4. CASE n + 1 < m
        BY <1>1, <2>1, <2>3, <3>1, <3>2, <3>4
    <3> QED
        BY <3>3, <3>4
  <2>5. \A b \in early : Place(b) <= Place(low)
    <3> SUFFICES ASSUME NEW b \in Searched, index[b].timestamp <= t,
                        Place(b) > Place(low)
                 PROVE  FALSE
        BY <1>4, <2>2, <1>3
    <3> DEFINE m == First + Place(b)
    <3>1. m \in Int /\ n < m /\ m < completed /\ Entry(m).timestamp <= t
        BY <1>3, <1>4, <1>6, <2>2
    <3>2. m \in First .. completed - 1
        BY <1>3, <2>1, <3>1
    <3> HIDE DEF m
    <3> QED
        BY <1>1, <2>3, <2>4, <3>1, <3>2
  <2>6. CASE Entry(n).timestamp <= t
    <3>1. low \in early
        BY <2>2, <2>6 DEF Entry
    <3> HIDE DEF early, low
    <3>2. \A c \in early : c \in Searched
        BY DEF early
    <3>3. Latest(early) = low
      <4>1. \A c \in early : Place(c) <= Place(low)
        BY <2>5
      <4>2. ASSUME NEW b \in early, \A c \in early : Place(c) <= Place(b)
            PROVE  b = low
        BY <1>4, <1>5, <3>1, <3>2, <4>1, <4>2
      <4> QED
        BY <3>1, <4>1, <4>2 DEF Latest
    <3> QED
        BY <1>2, <2>2, <3>1, <3>3 DEF early, low
  <2>7. CASE ~(Entry(n).timestamp <= t)
    <3>1. n = 0 \/ n = First
        BY <2>1, <2>7
    <3>2. \A b \in Searched : Place(low) <= Place(b)
        BY <1>3, <1>4, <2>1, <2>2, <3>1
    <3>3. early = {}
      <4> SUFFICES ASSUME NEW b \in Searched, index[b].timestamp <= t
                   PROVE  FALSE
        OBVIOUS
      <4>1. Place(b) = Place(low)
        BY <1>3, <1>4, <2>2, <2>5, <3>2
      <4>2. b = low
        BY <1>5, <2>2, <4>1
      <4> QED
        BY <2>7, <4>2 DEF Entry
    <3> HIDE DEF low
    <3>4. Earliest(Searched) = low
      <4>1. ASSUME NEW b \in Searched, \A c \in Searched : Place(b) <= Place(c)
            PROVE  b = low
        BY <1>4, <1>5, <2>2, <3>2, <4>1
      <4> QED
        BY <2>2, <3>2, <4>1 DEF Earliest
    <3> QED
        BY <1>2, <2>2, <3>3, <3>4 DEF low
  <2> QED
    BY <2>6, <2>7
<1> QED
    BY <1>3, <1>7, <1>8

-----------------------------------------------------------------------------
(* Samples and times. *)

LEMMA Division ==
    ASSUME NEW a \in Int, NEW b \in Nat, b > 0
    PROVE  /\ a \div b \in Int
           /\ b * (a \div b) <= a /\ a < b * (a \div b) + b
    OBVIOUS

LEMMA DivAtLeast ==
    ASSUME NEW a \in Int, NEW b \in Nat, b > 0, NEW q \in Int, b * q <= a
    PROVE  q <= a \div b
<1> DEFINE p == a \div b
<1>1. p \in Int /\ a < b * p + b
    BY Division
<1> HIDE DEF p
<1>2. b * (q - p) < b
    BY <1>1, Distribute
<1>3. q - p >= 1 => b * (q - p) >= b
    BY <1>1
<1>4. q <= p
    BY <1>1, <1>2, <1>3, Distribute
<1> QED
    BY <1>4 DEF p

LEMMA DivAtMost ==
    ASSUME NEW a \in Int, NEW b \in Nat, b > 0, NEW q \in Int, a < b * q + b
    PROVE  a \div b <= q
<1> DEFINE p == a \div b
<1>1. p \in Int /\ b * p <= a
    BY Division
<1> HIDE DEF p
<1>2. b * (p - q) < b
    BY <1>1, Distribute
<1>3. p - q >= 1 => b * (p - q) >= b
    BY <1>1
<1>4. p <= q
    BY <1>1, <1>2, <1>3, Distribute
<1> QED
    BY <1>4 DEF p

LEMMA DivLater ==
    ASSUME NEW a \in Int, NEW c \in Int, a <= c, NEW b \in Nat, b > 0
    PROVE  a \div b <= c \div b
<1>1. a \div b \in Int /\ b * (a \div b) <= c
    BY Division
<1> QED
    BY <1>1, DivAtLeast

\* The number of samples that make one of what is asked for.
Factor == 2 ^ DecimationLog2

LEMMA Units ==
    /\ Factor \in Nat /\ Factor > 0
    /\ SampleCount \in Nat /\ SampleCount > 0
    /\ SamplesPerBlock \in Nat /\ SamplesPerBlock > 0
    /\ SampleCount = Factor * SamplesPerBlock
<1> DEFINE d == Factor
           s == SampleCount \div d
<1>1. d \in Nat /\ d > 0 /\ SampleCount % d = 0
    BY RequestAssumption DEF Factor
<1>2. SampleCount \in Nat /\ SampleCount > 0
    BY IndexAssumption
<1> HIDE DEF d
<1>3. SampleCount = d * (SampleCount \div d) + (SampleCount % d)
      /\ s \in Int
    BY <1>1, <1>2
<1>4. SamplesPerBlock = s
    BY DEF SamplesPerBlock, Decimated, Factor, d
<1> HIDE DEF s
<1>5. SampleCount = d * s
    BY <1>1, <1>3, <1>2 DEF s
<1>6. s > 0
    BY <1>1, <1>2, <1>3, <1>5
<1> QED
    BY <1>1, <1>2, <1>3, <1>4, <1>5, <1>6 DEF d

LEMMA DecimatedBounds ==
    ASSUME NEW n \in Int
    PROVE  /\ Decimated(n) \in Int
           /\ Factor * Decimated(n) <= n
           /\ n < Factor * Decimated(n) + Factor
           /\ \A q \in Int : Factor * q <= n => q <= Decimated(n)
           /\ \A q \in Int : n < Factor * q + Factor => Decimated(n) <= q
<1>1. Decimated(n) = n \div Factor
    BY DEF Decimated, Factor
<1> QED
    BY <1>1, Units, Division, DivAtLeast, DivAtMost

LEMMA DecimatedNat ==
    ASSUME NEW n \in Nat
    PROVE  Decimated(n) \in Nat
<1>1. Factor * 0 <= n
    BY Units
<1> QED
    BY <1>1, DecimatedBounds

\* Rounding down twice loses no less than rounding down once.
LEMMA DecimatedSum ==
    ASSUME NEW m \in Int, NEW n \in Int
    PROVE  Decimated(m) + Decimated(n) <= Decimated(m + n)
<1> DEFINE p == Decimated(m)
           q == Decimated(n)
<1>1. p \in Int /\ q \in Int /\ Factor * p <= m /\ Factor * q <= n
    BY DecimatedBounds
<1> HIDE DEF p, q
<1>2. Factor * (p + q) <= m + n
    BY <1>1, Units, Distribute
<1>3. m + n \in Int /\ p + q \in Int
    BY <1>1
<1> QED
    BY <1>2, <1>3, DecimatedBounds DEF p, q

LEMMA DecimatedBlocks ==
    ASSUME NEW k \in Int
    PROVE  Decimated(k * SampleCount) = k * SamplesPerBlock
<1> DEFINE s == SamplesPerBlock
           n == k * s
<1>1. n \in Int /\ k * SampleCount \in Int
    BY Units, Distribute
<1>2. k * SampleCount = Factor * n
    BY Units
<1> HIDE DEF n
<1>3. Factor * n <= k * SampleCount /\ k * SampleCount < Factor * n + Factor
    BY <1>1, <1>2, Units, Distribute
<1>4. n <= Decimated(k * SampleCount) /\ Decimated(k * SampleCount) <= n
    BY <1>1, <1>3, DecimatedBounds
<1> QED
    BY <1>1, <1>4, DecimatedBounds DEF n

\* What is left of k blocks from an offset into the first.
LEMMA DecimatedRest ==
    ASSUME NEW k \in Int, NEW o \in Int
    PROVE  Decimated(o) + Decimated(k * SampleCount - o) <= k * SamplesPerBlock
<1>1. k * SampleCount \in Int
    BY Units, Distribute
<1> DEFINE x == k * SampleCount
<1>2. x \in Int /\ x - o \in Int
    BY <1>1
<1> HIDE DEF x
<1>3. Decimated(o) + Decimated(x - o) <= Decimated(o + (x - o))
    BY <1>2, DecimatedSum
<1>4. o + (x - o) = x
    BY <1>2
<1> QED
    BY <1>3, <1>4, DecimatedBlocks DEF x

LEMMA DecimatedInBlock ==
    ASSUME NEW o \in Nat, o < SampleCount
    PROVE  Decimated(o) \in Nat /\ Decimated(o) < SamplesPerBlock
<1> DEFINE s == SamplesPerBlock
<1>1. s \in Int /\ s - 1 \in Int /\ Factor \in Int
    BY Units
<1>2. SampleCount = Factor * s
    BY Units
<1> HIDE DEF s
<1>3. Factor * (s - 1) = Factor * s - Factor
    BY <1>1, Distribute
<1>4. o < Factor * (s - 1) + Factor
    BY <1>1, <1>2, <1>3, Distribute
<1>5. Decimated(o) <= s - 1
    BY <1>1, <1>4, DecimatedBounds
<1> QED
    BY <1>1, <1>5, DecimatedNat DEF s

-----------------------------------------------------------------------------
(* The lookups of a request. *)

LEMMA AfterType ==
    ASSUME NEW s \in Int
    PROVE  /\ After(s) \in Int
           /\ \A k \in Int : (s * Factor) * Duration < SampleCount * k + SampleCount
                                => After(s) <= k
           /\ \A r \in Int : s <= r => After(s) <= After(r)
<1> DEFINE d == Duration
           f == Factor
           x == (s * f) * d
<1>1. d \in Int /\ d > 0 /\ f \in Int /\ f > 0
    BY DurationType, Units
<1>2. After(s) = x \div SampleCount /\ x \in Int
    BY <1>1 DEF After, Factor
<1>3. \A r \in Int : After(r) = ((r * f) * d) \div SampleCount
    BY DEF After, Factor
<1> HIDE DEF d, f
<1>4. ASSUME NEW r \in Int, s <= r
      PROVE  x <= (r * f) * d /\ (r * f) * d \in Int
  <2>1. s * f <= r * f /\ s * f \in Int /\ r * f \in Int
    BY <1>1, <1>4
  <2> DEFINE u == s * f
             v == r * f
  <2> HIDE DEF u, v
  <2>2. u * d <= v * d /\ v * d \in Int
    BY <1>1, <2>1 DEF u, v
  <2> QED
    BY <2>2 DEF u, v
<1> HIDE DEF x
<1>5. /\ After(s) \in Int
      /\ \A k \in Int : x < SampleCount * k + SampleCount => After(s) <= k
    BY <1>2, Units, Division, DivAtMost
<1>6. ASSUME NEW r \in Int, s <= r PROVE After(s) <= After(r)
    BY <1>2, <1>3, <1>4, <1>6, Units, DivLater
<1> QED
    BY <1>5, <1>6 DEF x, d, f

\* A sample of a block is taken before the block ends.
LEMMA AfterInBlock ==
    ASSUME NEW s \in Int, s < SamplesPerBlock
    PROVE  After(s) <= Duration
<1> DEFINE d == Duration
           c == SampleCount
           x == s * Factor
<1>1. d \in Int /\ d > 0 /\ c \in Int /\ Factor \in Int /\ x \in Int
    BY DurationType, Units
<1>2. x <= c
  <2> DEFINE n == SamplesPerBlock
  <2>1. n \in Int /\ s <= n /\ c = Factor * n /\ Factor > 0
    BY Units
  <2> HIDE DEF n
  <2> QED
    BY <1>1, <2>1
<1> HIDE DEF x, c, d
<1>3. x * d <= c * d
    BY <1>1, <1>2
<1>4. x * d < c * d + c
    BY <1>1, <1>3, Units DEF c
<1> QED
    BY <1>1, <1>4, AfterType DEF x, c, d

\* The offset that stands for a time within a block of the given duration.
Into(time, duration) == (time * SampleCount) \div duration

LEMMA IntoType ==
    ASSUME NEW time \in Nat, NEW duration \in Nat, time < duration
    PROVE  Into(time, duration) \in 0 .. SampleCount - 1
<1> DEFINE c == SampleCount
           x == time * c
<1>1. c \in Nat /\ c > 0 /\ x \in Nat /\ duration > 0
    BY Units
<1>2. x <= (duration - 1) * c
    BY <1>1
<1>3. (duration - 1) * c = duration * c - c /\ duration * c \in Int
    BY <1>1, Distribute
<1>4. duration * (c - 1) + duration = duration * c /\ c - 1 \in Int
    BY <1>1, Distribute
<1> HIDE DEF c, x
<1>5. x < duration * (c - 1) + duration
    BY <1>1, <1>2, <1>3, <1>4
<1>6. x \div duration <= c - 1
    BY <1>1, <1>4, <1>5, DivAtMost
<1>7. duration * 0 <= x
    BY <1>1
<1>8. 0 <= x \div duration /\ x \div duration \in Int
    BY <1>1, <1>7, DivAtLeast, Division
<1> QED
    BY <1>1, <1>6, <1>8 DEF Into, x, c

\* There and back: what comes before the offset was taken before the time.
LEMMA IntoAfter ==
    ASSUME NEW time \in Nat, time < Duration,
           NEW s \in Int, s * Factor <= Into(time, Duration)
    PROVE  After(s) <= time
<1> DEFINE c == SampleCount
           d == Duration
           o == Into(time, d)
           f == Factor
<1>1. c \in Nat /\ c > 0 /\ d \in Nat /\ d > 0 /\ f \in Int /\ s * f \in Int
      /\ time * c \in Int
    BY Units, DurationType
<1>2. o \in Int /\ d * o <= time * c
    BY <1>1, Division DEF Into
<1> HIDE DEF c, d, o, f
<1>3. (s * f) * d <= o * d
    BY <1>1, <1>2 DEF o, d, f
<1>4. (s * f) * d < c * time + c /\ (s * f) * d \in Int
    BY <1>1, <1>2, <1>3
<1> QED
    BY <1>4, AfterType DEF c, d, f

\* What FindOffset is, between the blocks and within them.
LEMMA OffsetFound ==
    ASSUME IndexInv, NEW t \in Nat, NEW skip \in BOOLEAN, NEW n \in Int,
           binary_search(t) = n % MajorBlocks
    PROVE  LET into == t - Entry(n).timestamp IN
           FindOffset(t, skip) =
                IF into < 0 THEN 0
                ELSE IF into < Entry(n).duration
                     THEN Into(into, Entry(n).duration)
                ELSE IF skip THEN 0 ELSE SampleCount - 1
    BY DEF FindOffset, Into, Entry

LEMMA OffsetType ==
    ASSUME IndexInv, SkipLeavesBlocks, NEW t \in Nat, t > 0,
           NEW skip \in BOOLEAN
    PROVE  /\ FindOffset(t, skip) \in 0 .. SampleCount - 1
           /\ FindBlock(t, skip) \in Blocks
<1>1. PICK n \in Int : binary_search(t) = n % MajorBlocks
    BY BinarySearch
<1>2. Entry(n) \in [timestamp : Int, duration : Nat, id_zero : Nat]
    BY EntryType DEF IndexInv
<1> DEFINE into == t - Entry(n).timestamp
<1>3. into \in Int /\ Entry(n).duration \in Nat
    BY <1>2
<1>4. FindOffset(t, skip) =
        IF into < 0 THEN 0
        ELSE IF into < Entry(n).duration THEN Into(into, Entry(n).duration)
        ELSE IF skip THEN 0 ELSE SampleCount - 1
    BY <1>1, OffsetFound
<1> HIDE DEF into
<1>5. FindOffset(t, skip) \in 0 .. SampleCount - 1
  <2>1. CASE into < 0
    BY <1>4, <2>1, Units
  <2>2. CASE ~(into < 0) /\ into < Entry(n).duration
    BY <1>3, <1>4, <2>2, IntoType
  <2>3. CASE ~(into < 0) /\ ~(into < Entry(n).duration)
    BY <1>4, <2>3, Units
  <2> QED
    BY <2>1, <2>2, <2>3
<1>6. binary_search(t) \in Blocks /\ NextBlock(binary_search(t)) \in Blocks
    BY <1>1, Slot, NextSlot
<1>7. FindBlock(t, skip) \in {binary_search(t), NextBlock(binary_search(t))}
    BY DEF FindBlock
<1> QED
    BY <1>5, <1>6, <1>7

\* The start of a request, in an archive that is not empty: a block that has
\* been written and is not the current one, and unless it begins later than
\* the time asked for, an offset into it that is no later.
LEMMA StartFound ==
    ASSUME IndexInv, SkipLeavesBlocks, NEW t \in Nat, t > 0, completed > 0,
           FindBlock(t, TRUE) # current
    PROVE  \E n \in Int :
            /\ FindBlock(t, TRUE) = n % MajorBlocks
            /\ 0 <= n /\ First <= n /\ n < completed
            /\ Entry(n).timestamp <= t =>
                Entry(n).timestamp + After(Decimated(FindOffset(t, TRUE))) <= t
<1> DEFINE o == FindOffset(t, TRUE)
<1>1. PICK m \in Int : binary_search(t) = m % MajorBlocks /\ Found(t, m)
    BY BinarySearch
<1>2. 0 <= m /\ First <= m /\ m < completed /\ completed \in Nat /\ First \in Int
    BY <1>1, SkipType DEF Found
<1>3. m \in InRing
    BY <1>2, SkipType, Ring DEF InRing
<1>4. Entry(m).duration = Duration /\ Entry(m).timestamp \in Int
    BY <1>2, <1>3, EntryType DEF IndexInv
<1> DEFINE into == t - Entry(m).timestamp
<1>5. into \in Int
    BY <1>4
<1>6. o = IF into < 0 THEN 0
          ELSE IF into < Duration THEN Into(into, Duration) ELSE 0
    BY <1>1, <1>4, OffsetFound
<1>7. FindBlock(t, TRUE) = IF into >= Duration THEN NextBlock(m % MajorBlocks)
                                               ELSE m % MajorBlocks
  <2>1. t >= Entry(m).timestamp + Entry(m).duration <=> into >= Duration
    BY <1>4, DurationType
  <2> QED
    BY <1>1, <2>1 DEF FindBlock, Entry
<1>o. o \in 0 .. SampleCount - 1
    BY OffsetType, Zenon
<1> HIDE DEF o, into
<1>p. o \in Int
    BY <1>o, Units
<1>8. Decimated(0) = 0 /\ After(0) <= 0 /\ After(0) \in Int
  <2>1. Factor * 0 <= 0 /\ 0 < Factor * 0 + Factor /\ 0 \in Int
    BY Units
  <2>2. Decimated(0) = 0
    BY <2>1, DecimatedBounds
  <2>3. (0 * Factor) * Duration < SampleCount * 0 + SampleCount
    BY Units, DurationType
  <2> QED
    BY <2>2, <2>3, AfterType
<1>9. CASE into >= Duration
  <2>1. o = 0
    BY <1>5, <1>6, <1>9, DurationType
  <2>2. FindBlock(t, TRUE) = (m + 1) % MajorBlocks
    BY <1>7, <1>9, NextSlot
  <2>3. m + 1 # completed
    BY <2>2 DEF IndexInv
  <2>4. 0 <= m + 1 /\ First <= m + 1 /\ m + 1 < completed /\ m + 1 \in Int
    BY <1>2, <2>3
  <2>5. m + 1 \in InRing
    BY <1>2, <2>4, SkipType, Ring DEF InRing
  <2>6. Entry(m + 1).timestamp \in Int
    BY <2>4, EntryType DEF IndexInv
  <2>7. Entry(m + 1).timestamp <= t =>
            Entry(m + 1).timestamp + After(Decimated(o)) <= t
    <3>1. Decimated(o) = 0
        BY <1>8, <2>1
    <3> QED
        BY <1>8, <2>6, <3>1
  <2> QED
    BY <2>2, <2>4, <2>7 DEF o
<1>10. CASE ~(into >= Duration)
  <2>1. FindBlock(t, TRUE) = m % MajorBlocks
    BY <1>7, <1>10
  <2>2. ASSUME Entry(m).timestamp <= t
        PROVE  Entry(m).timestamp + After(Decimated(o)) <= t
    <3>1. into \in Nat /\ into < Duration
        BY <1>4, <1>5, <1>10, <2>2, DurationType DEF into
    <3>2. o = Into(into, Duration)
        BY <1>6, <3>1
    <3>3. Decimated(o) \in Int /\ Decimated(o) * Factor <= o
      <4>1. Decimated(o) \in Int /\ Factor * Decimated(o) <= o
        BY <1>p, DecimatedBounds
      <4> QED
        BY <4>1, Units
    <3>4. After(Decimated(o)) <= into /\ After(Decimated(o)) \in Int
        BY <3>1, <3>2, <3>3, IntoAfter, AfterType
    <3> QED
        BY <1>4, <3>4 DEF into
  <2> QED
    BY <1>2, <2>1, <2>2 DEF o
<1> QED
    BY <1>5, <1>9, <1>10, DurationType

\* The end of a request: the samples of the block before the offset were taken
\* before the time.
LEMMA EndFound ==
    ASSUME IndexInv, SkipLeavesBlocks, NEW t \in Nat, t > 0, completed > 0,
           NEW n \in Int, binary_search(t) = n % MajorBlocks, Found(t, n),
           NEW s \in Int, s < Decimated(FindOffset(t, FALSE))
    PROVE  Entry(n).timestamp + After(s) <= t \/ s < 0
<1> SUFFICES ASSUME s >= 0 PROVE Entry(n).timestamp + After(s) <= t
    BY AfterType
<1> DEFINE o == FindOffset(t, FALSE)
<1>2. 0 <= n /\ First <= n /\ n < completed /\ completed \in Nat /\ First \in Int
    BY SkipType DEF Found
<1>3. n \in InRing
    BY <1>2, SkipType, Ring DEF InRing
<1>4. Entry(n).duration = Duration /\ Entry(n).timestamp \in Int
    BY <1>2, <1>3, EntryType DEF IndexInv
<1> DEFINE into == t - Entry(n).timestamp
<1>5. into \in Int
    BY <1>4
<1>6. o = IF into < 0 THEN 0
          ELSE IF into < Duration THEN Into(into, Duration)
          ELSE SampleCount - 1
    BY <1>4, OffsetFound
<1>o. o \in 0 .. SampleCount - 1
    BY OffsetType, Zenon
<1> HIDE DEF o, into
<1>7. o \in Nat /\ o < SampleCount
    BY <1>o, Units
<1>8. /\ Decimated(o) \in Int /\ Factor * Decimated(o) <= o
      /\ Decimated(o) < SamplesPerBlock /\ SamplesPerBlock \in Int
  <2>1. o \in Int
    BY <1>7
  <2>2. Decimated(o) \in Int /\ Factor * Decimated(o) <= o
    BY <2>1, DecimatedBounds
  <2>3. Decimated(o) < SamplesPerBlock
    BY <1>7, DecimatedInBlock
  <2> QED
    BY <2>2, <2>3, Units
<1>9. s < Decimated(o)
    BY DEF o
<1>10. s * Factor <= o
  <2> DEFINE p == Decimated(o)
  <2>1. p \in Int /\ Factor * p <= o /\ s <= p
    BY <1>8, <1>9
  <2> HIDE DEF p
  <2> QED
    BY <1>7, <2>1, Units
<1>11. After(s) \in Int
    BY AfterType
<1>12. After(s) <= into
  <2>1. CASE into < 0
    <3>1. o = 0
        BY <1>6, <2>1
    <3> QED
        BY <1>8, <1>9, <3>1, Units
  <2>2. CASE into \in Nat /\ into < Duration
    <3>1. s * Factor <= Into(into, Duration)
        BY <1>6, <1>10, <2>2
    <3> QED
        BY <2>2, <3>1, IntoAfter
  <2>3. CASE into >= Duration
    <3>1. After(s) <= Duration
        BY <1>8, <1>9, AfterInBlock
    <3> QED
        BY <1>5, <1>11, <2>3, <3>1, DurationType
  <2> QED
    BY <1>5, <2>1, <2>2, <2>3, DurationType
<1> QED
    BY <1>4, <1>11, <1>12 DEF into

-----------------------------------------------------------------------------
(* Where a request is. *)

\* Numbers less than a round apart are as far apart as their slots, going
\* round.
LEMMA SlotDistance ==
    ASSUME NEW l \in Int, NEW h \in Int, l <= h, h - l < MajorBlocks
    PROVE  /\ l % MajorBlocks \in Blocks /\ h % MajorBlocks \in Blocks
           /\ IF h % MajorBlocks >= l % MajorBlocks
              THEN (h % MajorBlocks) - (l % MajorBlocks) = h - l
              ELSE (h % MajorBlocks) + MajorBlocks - (l % MajorBlocks) = h - l
<1> DEFINE r == l % MajorBlocks
           q == l \div MajorBlocks
           s == h % MajorBlocks
           p == h \div MajorBlocks
<1>1. /\ r \in Blocks /\ s \in Blocks /\ q \in Int /\ p \in Int
      /\ l = MajorBlocks * q + r /\ h = MajorBlocks * p + s
    BY Slot
<1> HIDE DEF r, q, s, p
<1>2. /\ MajorBlocks \in Nat /\ r \in 0 .. MajorBlocks - 1
      /\ s \in 0 .. MajorBlocks - 1
    BY <1>1, Ring DEF Blocks
<1>3. /\ MajorBlocks * p - MajorBlocks * q = h - l - s + r
      /\ MajorBlocks * p \in Int /\ MajorBlocks * q \in Int
  <2>1. MajorBlocks * p \in Int /\ MajorBlocks * q \in Int
    BY <1>1, <1>2, Distribute
  <2> QED
    BY <1>1, <1>2, <2>1
<1>4. MajorBlocks * (p - q) = h - l - s + r
    BY <1>1, <1>2, <1>3, Distribute
<1>5. p - q = 0 \/ p - q = 1
  <2>1. MajorBlocks * (p - q) > -MajorBlocks
        /\ MajorBlocks * (p - q) < 2 * MajorBlocks
    BY <1>2, <1>4
  <2>2. p - q > -1
    <3>1. SUFFICES ASSUME p - q <= -1 PROVE FALSE
        BY <1>1
    <3>2. MajorBlocks * (p - q) <= -MajorBlocks
        BY <1>1, <1>2, <3>1
    <3> QED
        BY <1>1, <1>2, <1>4, <2>1, <3>2
  <2>3. p - q < 2
    <3>1. SUFFICES ASSUME p - q >= 2 PROVE FALSE
        BY <1>1
    <3>2. MajorBlocks * (p - q) >= 2 * MajorBlocks
        BY <1>1, <1>2, <3>1
    <3> QED
        BY <1>1, <1>2, <1>4, <2>1, <3>2
  <2> QED
    BY <1>1, <2>2, <2>3
<1>6. \/ h - l = s - r
      \/ h - l = s - r + MajorBlocks
  <2>1. CASE p - q = 0
    BY <1>2, <1>4, <2>1
  <2>2. CASE p - q = 1
    BY <1>2, <1>4, <2>2
  <2> QED
    BY <1>5, <2>1, <2>2
<1>7. IF s >= r THEN s - r = h - l ELSE s + MajorBlocks - r = h - l
    BY <1>2, <1>6
<1> QED
    BY <1>1, <1>7 DEF r, s

\* The way back from a block to a number at most a round ahead of it.
LEMMA LeftIs ==
    ASSUME NEW s \in Int, NEW n \in Int, n <= s, s - n < MajorBlocks
    PROVE  (s - (n % MajorBlocks)) % MajorBlocks = s - n
<1> DEFINE r == n % MajorBlocks
           q == n \div MajorBlocks
<1>1. r \in Blocks /\ q \in Int /\ n = MajorBlocks * q + r
    BY Slot
<1> HIDE DEF r, q
<1>2. s - n \in Blocks /\ MajorBlocks * q \in Int
    BY <1>1, Ring, Distribute DEF Blocks
<1>3. s - r = MajorBlocks * q + (s - n)
    BY <1>1, <1>2, Ring DEF Blocks
<1>4. (s - r) % MajorBlocks = s - n
    BY <1>1, <1>2, <1>3, SlotIs
<1> QED
    BY <1>4 DEF r

\* The number of blocks from the one the request is at to the end of the
\* archive as it was when the start was looked up, and the number of that one.
Left == (since - block) % MajorBlocks
At == since - Left

Serving == rpc # "idle" /\ since > 0

\* Block n, which the request has yet to come to, will be sent before it can
\* have been overwritten, as far as can be told now.
Fresh(n) == completed - since < IndexSkip + Len(sent) + 1 + (n - At)

\* Some of what is asked for is in block n.
Needed(n) == (n - At) * SamplesPerBlock < offset + samples

Piece == [stamp : Int, data : Int, id : Nat, first : Nat, count : Int,
          lag : Int]

RequestTypes ==
    /\ rpc \in {"idle", "end", "check", "find", "stamp", "read"}
    /\ request.start \in Nat /\ request.end \in Int
    /\ rpc # "idle" => request.start > 0 /\ request.options \in Options
    /\ block \in Blocks
    /\ offset \in Nat /\ available \in Nat /\ samples \in Nat
    /\ stamp \in Int
    /\ sent \in Seq(Piece)
    /\ since \in 0 .. completed
    /\ raced \in BOOLEAN

\* The request stays within the blocks that had been completed when it began
\* and were not among the oldest.
Position ==
    /\ Serving => /\ At >= 0
                  /\ Left + Len(sent) < MajorBlocks - IndexSkip
    /\ rpc = "end" => /\ offset < SampleCount
                      /\ sent = <<>>
                      /\ Serving => available = Left * SampleCount - offset
    /\ rpc \in {"check", "find"} => sent = <<>>
    /\ rpc \in {"check", "find", "stamp", "read"} =>
            /\ offset < SamplesPerBlock
            /\ Serving => offset + samples <= Left * SamplesPerBlock
    /\ rpc = "read" => samples > 0
    /\ rpc = "idle" => sent = <<>> /\ request = NoRequest

\* The inductive invariant that the others rest on.
PosInv == IndexInv /\ RequestTypes /\ Position

LEMMA LeftType ==
    ASSUME RequestTypes, IndexTypes
    PROVE  /\ Left \in 0 .. MajorBlocks - 1 /\ At \in Int /\ since \in Nat
           /\ At + Left = since
           /\ block = At % MajorBlocks
<1>1. since \in Nat /\ block \in Blocks
    BY DEF RequestTypes, IndexTypes
<1>2. since - block \in Int /\ block \in Int
    BY <1>1, Ring DEF Blocks
<1> DEFINE q == (since - block) \div MajorBlocks
<1>3. /\ Left \in Blocks /\ q \in Int
      /\ since - block = MajorBlocks * q + Left
    BY <1>2, Slot DEF Left
<1> HIDE DEF q
<1>4. Left \in 0 .. MajorBlocks - 1 /\ Left \in Int
    BY <1>3, Ring DEF Blocks
<1>5. At \in Int /\ At + Left = since
    BY <1>1, <1>4 DEF At
<1>6. block = At % MajorBlocks
  <2>1. At = MajorBlocks * q + block
    BY <1>1, <1>2, <1>3, <1>4, Ring, Distribute DEF At
  <2> QED
    BY <1>1, <1>3, <2>1, SlotIs
<1> QED
    BY <1>1, <1>4, <1>5, <1>6

\* A block that will not be overwritten too soon is in the ring now, and is not
\* the current block.
LEMMA FreshStored ==
    ASSUME PosInv, Serving, NEW n \in At .. since - 1, Fresh(n)
    PROVE  /\ n \in InRing /\ n >= 0 /\ n > completed - MajorBlocks
           /\ n % MajorBlocks # current
           /\ Entry(n).duration = Duration
           /\ Entry(n) \in [timestamp : Int, duration : Nat, id_zero : Nat]
<1>1. /\ Left \in Int /\ At \in Int /\ At + Left = since /\ since \in Nat
      /\ At >= 0 /\ completed \in Nat /\ since <= completed
      /\ Left + Len(sent) < MajorBlocks - IndexSkip
      /\ Len(sent) \in Nat /\ IndexSkip \in Nat /\ MajorBlocks \in Nat
  <2>1. IndexTypes /\ RequestTypes
    BY DEF PosInv, IndexInv
  <2>2. Len(sent) \in Nat /\ IndexSkip \in Nat
    BY <2>1, IndexAssumption DEF RequestTypes
  <2> QED
    BY <2>1, <2>2, LeftType, Ring DEF PosInv, Position, RequestTypes, IndexTypes
<1>2. n \in Int /\ n >= At /\ n < since
    BY <1>1
<1>3. n > completed - MajorBlocks /\ n < completed
    BY <1>1, <1>2 DEF Fresh
<1>4. n \in InRing /\ n >= 0
    BY <1>1, <1>2, <1>3 DEF InRing
<1>5. n % MajorBlocks # current
  <2>1. current = completed % MajorBlocks
    BY DEF PosInv, IndexInv
  <2>2. n - completed < MajorBlocks /\ completed - n < MajorBlocks
    BY <1>1, <1>2, <1>3
  <2>3. completed \in Int
    BY <1>1
  <2>4. n % MajorBlocks # completed % MajorBlocks
    <3>1. SUFFICES ASSUME n % MajorBlocks = completed % MajorBlocks
                   PROVE  FALSE
        OBVIOUS
    <3>2. n = completed
        BY <1>2, <2>2, <2>3, <3>1, SlotUnique
    <3> QED
        BY <1>1, <1>2, <3>2
  <2> QED
    BY <2>1, <2>4
<1>6. Entry(n).duration = Duration
    BY <1>4 DEF PosInv, IndexInv
<1>7. Entry(n) \in [timestamp : Int, duration : Nat, id_zero : Nat]
    BY <1>2, EntryType DEF PosInv, IndexInv
<1> QED
    BY <1>3, <1>4, <1>5, <1>6, <1>7

\* What a step of the archive does to a request.
LEMMA ArchiveStep ==
    ASSUME PosInv, AdvanceIndex, UNCHANGED <<rpc, locals, gapcheck, output>>
    PROVE  /\ Serving' = Serving /\ Left' = Left /\ At' = At
           /\ \A n \in Int : Fresh(n)' => Fresh(n)
           /\ Serving => \A n \in At .. since - 1 :
                Fresh(n)' => index'[n % MajorBlocks] = Entry(n)
<1>1. Left' = Left /\ At' = At /\ Serving' = Serving
    BY DEF Left, At, Serving, locals, output
<1>2. /\ completed' = completed + 1
      /\ \A n \in InRing \ {completed - MajorBlocks} : Entry(n)' = Entry(n)
    BY IndexStep DEF PosInv
<1>3. /\ At \in Int /\ since \in Nat /\ completed \in Nat
      /\ Len(sent) \in Nat /\ IndexSkip \in Nat
  <2>1. IndexTypes /\ RequestTypes
    BY DEF PosInv, IndexInv
  <2>2. Len(sent) \in Nat /\ IndexSkip \in Nat
    BY <2>1, IndexAssumption DEF RequestTypes
  <2> QED
    BY <2>1, <2>2, LeftType DEF IndexTypes
<1>4. since' = since /\ sent' = sent
    BY DEF output
<1>5. \A n \in Int : Fresh(n)' => Fresh(n)
  <2> TAKE n \in Int
  <2>1. Fresh(n)' <=> completed' - since' < IndexSkip + Len(sent') + 1 + (n - At')
    BY DEF Fresh
  <2> QED
    BY <1>1, <1>2, <1>3, <1>4, <2>1 DEF Fresh
<1>6. ASSUME Serving, NEW n \in At .. since - 1, Fresh(n)'
      PROVE  index'[n % MajorBlocks] = Entry(n)
  <2>1. n \in InRing /\ n > completed - MajorBlocks
    <3>1. Fresh(n)
        BY <1>3, <1>5, <1>6
    <3> QED
        BY <1>6, <3>1, FreshStored
  <2>2. n # completed - MajorBlocks
    BY <1>3, <2>1, Ring
  <2>3. Entry(n)' = Entry(n)
    BY <1>2, <2>1, <2>2
  <2> QED
    BY <2>3 DEF Entry
<1> QED
    BY <1>1, <1>5, <1>6

-----------------------------------------------------------------------------
(* A request stays where it may be: PosInv is inductive. *)

LEMMA IndexStutter ==
    ASSUME IndexInv, UNCHANGED archive
    PROVE  IndexInv'
    BY DEF IndexInv, IndexTypes, InRing, Entry, Follows, archive

LEMMA PosInit == Init => PosInv
<1> SUFFICES ASSUME Init PROVE PosInv
    OBVIOUS
<1>1. IndexInv
    BY IndexInit DEF Init
<1>2. RequestTypes
  <2>1. completed = 0 /\ 0 \in Blocks
    BY Ring DEF Init, InitIndex, Blocks
  <2>2. sent \in Seq(Piece)
    BY DEF Init
  <2>3. request.start \in Nat /\ request.end \in Int
    BY DEF Init, NoRequest
  <2>4. since = 0 /\ since \in 0 .. completed
    BY <2>1 DEF Init
  <2>5. rpc = "idle" /\ raced \in BOOLEAN
    BY DEF Init
  <2> QED
    BY <2>1, <2>2, <2>3, <2>4, <2>5 DEF Init, RequestTypes
<1>3. Position
    BY DEF Init, Position, Serving
<1> QED
    BY <1>1, <1>2, <1>3 DEF PosInv

LEMMA PosIdle ==
    ASSUME PosInv, UNCHANGED archive, Idle
    PROVE  PosInv'
<1>1. IndexInv'
    BY IndexStutter DEF PosInv
<1>2. RequestTypes'
  <2>1. completed' \in Nat /\ 0 \in Blocks
    BY <1>1, Ring DEF IndexInv, IndexTypes, Blocks
  <2>2. sent' \in Seq(Piece)
    BY DEF Idle
  <2>3. request'.start \in Nat /\ request'.end \in Int
    BY DEF Idle, NoRequest
  <2>4. since' = 0 /\ since' \in 0 .. completed'
    BY <2>1 DEF Idle
  <2>5. rpc' = "idle" /\ raced' \in BOOLEAN
    BY DEF Idle
  <2> QED
    BY <2>1, <2>2, <2>3, <2>4, <2>5 DEF Idle, RequestTypes
<1>3. Position'
    BY DEF Idle, Position, Serving
<1> QED
    BY <1>1, <1>2, <1>3 DEF PosInv

LEMMA PosArchive ==
    ASSUME PosInv, AdvanceIndex, UNCHANGED <<rpc, locals, gapcheck, output>>
    PROVE  PosInv'
<1>1. IndexInv' /\ completed' = completed + 1 /\ completed \in Nat
    BY IndexStep DEF PosInv, IndexInv, IndexTypes
<1>2. Serving' = Serving /\ Left' = Left /\ At' = At
    BY ArchiveStep
<1>3. RequestTypes'
  <2>1. since' \in 0 .. completed'
    BY <1>1 DEF output, PosInv, RequestTypes
  <2> QED
    BY <2>1 DEF PosInv, RequestTypes, locals, output
<1>4. Position'
    BY <1>2 DEF PosInv, Position, locals, output
<1> QED
    BY <1>1, <1>3, <1>4 DEF PosInv

LEMMA SamplesAhead ==
    ASSUME IndexInv, NEW b \in Blocks, NEW o \in 0 .. SampleCount - 1,
           b # current
    PROVE  /\ compute_samples(b, o) \in Nat
           /\ \A n \in Int :
                b = n % MajorBlocks /\ n < completed
                /\ completed - n < MajorBlocks
                => compute_samples(b, o) = (completed - n) * SampleCount - o
<1> DEFINE count == IF current >= b THEN current - b
                                    ELSE MajorBlocks - b + current
<1>1. /\ MajorBlocks \in Nat /\ b \in 0 .. MajorBlocks - 1
      /\ completed \in Nat /\ current = completed % MajorBlocks
    BY Ring DEF IndexInv, IndexTypes, Blocks
<1>2. current \in 0 .. MajorBlocks - 1
    BY <1>1, Slot DEF Blocks
<1>3. count \in Nat /\ count >= 1
    BY <1>1, <1>2
<1>4. compute_samples(b, o) = count * SampleCount - o
    BY DEF compute_samples
<1>5. ASSUME NEW n \in Int, b = n % MajorBlocks, n < completed,
             completed - n < MajorBlocks
      PROVE  count = completed - n
  <2> DEFINE c == completed % MajorBlocks
  <2>1. IF c >= b THEN c - b = completed - n
                  ELSE c + MajorBlocks - b = completed - n
    <3>1. completed \in Int /\ n <= completed
        BY <1>1, <1>5
    <3> QED
        BY <1>5, <3>1, SlotDistance
  <2>2. c = current
    BY <1>1
  <2> HIDE DEF c
  <2> QED
    BY <1>1, <1>2, <2>1, <2>2
<1> HIDE DEF count
<1>6. count * SampleCount - o \in Nat
  <2>1. count * SampleCount >= SampleCount /\ count * SampleCount \in Nat
    BY <1>3, Units
  <2> QED
    BY <2>1, Units
<1> QED
    BY <1>4, <1>5, <1>6

\* Where a request begins.
LEMMA Begins ==
    ASSUME PosInv, SkipLeavesBlocks, NEW start \in Times, NEW end \in Int,
           NEW options \in Options, timestamp_to_start(start, end, options)
    PROVE  \E b \in Blocks, o \in 0 .. SampleCount - 1, m \in Nat :
            /\ rpc = "idle" /\ sent = <<>> /\ b # current
            /\ m = compute_samples(b, o)
            /\ request' = [start |-> start, end |-> end, options |-> options]
            /\ block' = b /\ since' = completed
            /\ UNCHANGED <<archive, gapcheck, stamp, sent, raced>>
            /\ \/ /\ end = 0
                  /\ rpc' \in {"check", "stamp"}
                  /\ options.only_contiguous => rpc' = "check"
                  /\ offset' = Decimated(o) /\ available' = Decimated(m)
                  /\ samples' \in Nat /\ samples' <= Decimated(m)
               \/ /\ end # 0
                  /\ rpc' = "end"
                  /\ offset' = o /\ available' = m /\ samples' = samples
            /\ completed > 0 => \E n \in Int :
                /\ b = n % MajorBlocks
                /\ 0 <= n /\ First <= n /\ n < completed
                /\ m = (completed - n) * SampleCount - o
                /\ ~options.all_data =>
                    Entry(n).timestamp + After(Decimated(o)) <= start
<1> DEFINE b == FindBlock(start, TRUE)
           o == FindOffset(start, TRUE)
           m == compute_samples(b, o)
<1>1. start \in Nat /\ start > 0
    BY DEF Times, PosInv, IndexInv, IndexTypes
<1>2. b \in Blocks /\ o \in 0 .. SampleCount - 1
    BY <1>1, OffsetType, Zenon DEF PosInv
<1>3. /\ rpc = "idle" /\ b # current
      /\ options.all_data \/ StartsInBlock(start, b)
      /\ request' = [start |-> start, end |-> end, options |-> options]
      /\ block' = b /\ since' = completed
      /\ UNCHANGED <<archive, gapcheck, stamp, sent, raced>>
      /\ IF end = 0
         THEN \E n \in 1 .. MaxSamples :
                /\ samples' = Truncated(n, Decimated(m))
                /\ available' = Decimated(m)
                /\ offset' = Decimated(o)
                /\ rpc' = AfterStart(options.only_contiguous)
         ELSE /\ available' = m /\ offset' = o /\ rpc' = "end"
              /\ UNCHANGED samples
    BY Zenon DEF timestamp_to_start
<1>4. completed > 0 =>
        \E n \in Int :
            /\ b = n % MajorBlocks
            /\ 0 <= n /\ First <= n /\ n < completed
            /\ Entry(n).timestamp <= start =>
                Entry(n).timestamp + After(Decimated(o)) <= start
    BY <1>1, <1>3, StartFound, Zenon DEF PosInv
<1> HIDE DEF b, o
<1>5. sent = <<>>
    BY <1>3 DEF PosInv, Position
<1>6. /\ m \in Nat
      /\ \A n \in Int :
            b = n % MajorBlocks /\ n < completed /\ completed - n < MajorBlocks
            => m = (completed - n) * SampleCount - o
    BY <1>2, <1>3, SamplesAhead DEF PosInv
<1> HIDE DEF m
<1>7. \/ /\ end = 0
         /\ rpc' \in {"check", "stamp"}
         /\ options.only_contiguous => rpc' = "check"
         /\ offset' = Decimated(o) /\ available' = Decimated(m)
         /\ samples' \in Nat /\ samples' <= Decimated(m)
      \/ /\ end # 0
         /\ rpc' = "end"
         /\ offset' = o /\ available' = m /\ samples' = samples
  <2>1. CASE end = 0
    <3>1. PICK n \in 1 .. MaxSamples :
            /\ samples' = Truncated(n, Decimated(m))
            /\ available' = Decimated(m)
            /\ offset' = Decimated(o)
            /\ rpc' = AfterStart(options.only_contiguous)
        BY <1>3, <2>1
    <3>2. Decimated(m) \in Nat
        BY <1>6, DecimatedNat
    <3>3. n \in Nat
        BY RequestAssumption
    <3>4. samples' \in Nat /\ samples' <= Decimated(m)
        BY <3>1, <3>2, <3>3 DEF Truncated
    <3>5. /\ rpc' \in {"check", "stamp"}
          /\ options.only_contiguous => rpc' = "check"
        BY <3>1 DEF AfterStart
    <3> QED
        BY <2>1, <3>1, <3>4, <3>5
  <2>2. CASE end # 0
    BY <1>3, <2>2
  <2> QED
    BY <2>1, <2>2
<1>8. completed > 0 => \E n \in Int :
        /\ b = n % MajorBlocks
        /\ 0 <= n /\ First <= n /\ n < completed
        /\ m = (completed - n) * SampleCount - o
        /\ ~options.all_data =>
            Entry(n).timestamp + After(Decimated(o)) <= start
  <2> SUFFICES ASSUME completed > 0
               PROVE  \E n \in Int :
                        /\ b = n % MajorBlocks
                        /\ 0 <= n /\ First <= n /\ n < completed
                        /\ m = (completed - n) * SampleCount - o
                        /\ ~options.all_data =>
                            Entry(n).timestamp + After(Decimated(o)) <= start
    OBVIOUS
  <2>1. PICK n \in Int :
            /\ b = n % MajorBlocks
            /\ 0 <= n /\ First <= n /\ n < completed
            /\ Entry(n).timestamp <= start =>
                Entry(n).timestamp + After(Decimated(o)) <= start
    BY <1>4
  <2>2. completed - n < MajorBlocks
    <3>1. completed \in Nat /\ First \in Int /\ completed - First < MajorBlocks
        BY SkipType DEF PosInv
    <3> QED
        BY <2>1, <3>1, Ring
  <2>3. m = (completed - n) * SampleCount - o
    BY <1>6, <2>1, <2>2
  <2>4. ~options.all_data => Entry(n).timestamp <= start
    BY <1>3, <2>1 DEF StartsInBlock, Entry
  <2> QED
    BY <2>1, <2>3, <2>4
<1>9. b \in Blocks /\ o \in 0 .. SampleCount - 1 /\ m \in Nat
    BY <1>2, <1>6
<1>10. m = compute_samples(b, o)
    BY DEF m
<1> USE <1>9
<1> WITNESS b \in Blocks, o \in 0 .. SampleCount - 1, m \in Nat
<1> QED
    BY <1>3, <1>5, <1>7, <1>8, <1>10

LEMMA Factors ==
    ASSUME NEW a \in Int, NEW b \in Int, NEW c \in Int, a = b
    PROVE  a * c = b * c
    OBVIOUS

LEMMA BeginsAt ==
    ASSUME PosInv, SkipLeavesBlocks, NEW n \in Int, First <= n, n < completed,
           block' = n % MajorBlocks, since' = completed
    PROVE  Left' = completed - n /\ At' = n
<1>1. /\ completed \in Int /\ First \in Int /\ completed - First < MajorBlocks
      /\ MajorBlocks \in Int
    BY SkipType, Ring DEF PosInv
<1>2. n <= completed /\ completed - n < MajorBlocks
    BY <1>1
<1>3. (completed - (n % MajorBlocks)) % MajorBlocks = completed - n
    BY <1>1, <1>2, LeftIs
<1>4. Left' = completed - n
    BY <1>3 DEF Left
<1> QED
    BY <1>1, <1>4 DEF At

LEMMA PosBegin ==
    ASSUME PosInv, SkipLeavesBlocks, NEW start \in Times, NEW end \in Int,
           NEW options \in Options, timestamp_to_start(start, end, options)
    PROVE  PosInv'
<1>1. PICK b \in Blocks, o \in 0 .. SampleCount - 1, m \in Nat :
        /\ rpc = "idle" /\ sent = <<>> /\ b # current
        /\ m = compute_samples(b, o)
        /\ request' = [start |-> start, end |-> end, options |-> options]
        /\ block' = b /\ since' = completed
        /\ UNCHANGED <<archive, gapcheck, stamp, sent, raced>>
        /\ \/ /\ end = 0
              /\ rpc' \in {"check", "stamp"}
              /\ options.only_contiguous => rpc' = "check"
              /\ offset' = Decimated(o) /\ available' = Decimated(m)
              /\ samples' \in Nat /\ samples' <= Decimated(m)
           \/ /\ end # 0
              /\ rpc' = "end"
              /\ offset' = o /\ available' = m /\ samples' = samples
        /\ completed > 0 => \E n \in Int :
            /\ b = n % MajorBlocks
            /\ 0 <= n /\ First <= n /\ n < completed
            /\ m = (completed - n) * SampleCount - o
            /\ ~options.all_data =>
                Entry(n).timestamp + After(Decimated(o)) <= start
    BY Begins
<1>2. IndexInv'
    BY <1>1, IndexStutter DEF PosInv
<1>3. /\ completed' = completed /\ completed \in Nat
      /\ sent' = <<>> /\ Len(sent') = 0
    BY <1>1 DEF archive, PosInv, IndexInv, IndexTypes
<1>4. /\ Decimated(o) \in Nat /\ Decimated(o) < SamplesPerBlock
      /\ Decimated(m) \in Nat
      /\ o \in Nat /\ o < SampleCount
    BY DecimatedInBlock, DecimatedNat, Units
<1>5. RequestTypes'
  <2>1. request'.start \in Nat /\ request'.start > 0 /\ request'.end \in Int
        /\ request'.options \in Options
    <3>1. start \in Nat /\ start > 0
        BY DEF Times, PosInv, IndexInv, IndexTypes
    <3> QED
        BY <1>1, <3>1
  <2>2. rpc' \in {"idle", "end", "check", "find", "stamp", "read"}
    BY <1>1
  <2>3. offset' \in Nat /\ available' \in Nat /\ samples' \in Nat
    BY <1>1, <1>4 DEF PosInv, RequestTypes
  <2>4. stamp' \in Int /\ sent' \in Seq(Piece) /\ since' \in 0 .. completed'
    BY <1>1, <1>3 DEF PosInv, RequestTypes
  <2>5. raced' \in BOOLEAN
    BY <1>1, Zenon DEF PosInv, RequestTypes
  <2>6. block' \in Blocks
    BY <1>1
  <2> QED
    BY <2>1, <2>2, <2>3, <2>4, <2>5, <2>6 DEF RequestTypes
<1>6. ASSUME Serving'
      PROVE  /\ At' >= 0 /\ Left' < MajorBlocks - IndexSkip /\ Left' \in Int
             /\ rpc' = "end" => available' = Left' * SampleCount - offset'
             /\ rpc' # "end" => offset' + samples' <= Left' * SamplesPerBlock
  <2>1. completed > 0
    BY <1>1, <1>6 DEF Serving
  <2>2. PICK n \in Int :
            /\ b = n % MajorBlocks
            /\ 0 <= n /\ First <= n /\ n < completed
            /\ m = (completed - n) * SampleCount - o
    BY <1>1, <2>1
  <2>3. /\ First = completed + 1 + IndexSkip - MajorBlocks
        /\ IndexSkip \in Nat /\ MajorBlocks \in Nat
    BY SkipType, Ring DEF First, PosInv
  <2>4. completed - n < MajorBlocks - IndexSkip /\ completed - n < MajorBlocks
    BY <1>3, <2>2, <2>3
  <2>5. Left' = completed - n /\ At' = n
    BY <1>1, <2>2, BeginsAt
  <2>7. rpc' = "end" => available' = Left' * SampleCount - offset'
    BY <1>1, <2>2, <2>5
  <2>8. rpc' # "end" => offset' + samples' <= Left' * SamplesPerBlock
    <3>1. Decimated(o) + Decimated(m) <= (completed - n) * SamplesPerBlock
        <4>1. completed - n \in Int /\ o \in Int
            BY <1>3, <1>4
        <4> QED
            BY <2>2, <4>1, DecimatedRest
    <3>2. (completed - n) * SamplesPerBlock \in Int
        BY <1>3, Units
    <3> QED
        BY <1>1, <1>4, <2>5, <3>1, <3>2
  <2> QED
    BY <1>3, <2>2, <2>4, <2>5, <2>7, <2>8
<1>7. Position'
  <2>1. Serving' => Left' + Len(sent') < MajorBlocks - IndexSkip
    BY <1>3, <1>6
  <2>2. rpc' = "end" => offset' < SampleCount
    BY <1>1, <1>4
  <2>3. rpc' # "end" => offset' < SamplesPerBlock
    BY <1>1, <1>4
  <2>4. rpc' \in {"end", "check", "stamp"}
    BY <1>1
  <2> QED
    BY <1>3, <1>6, <2>1, <2>2, <2>3, <2>4 DEF Position
<1> QED
    BY <1>2, <1>5, <1>7 DEF PosInv

\* What the lookup of the end leaves when it succeeds.
LEMMA Ends ==
    ASSUME PosInv, SkipLeavesBlocks, timestamp_to_end, rpc' # "idle"
    PROVE  \E o \in 0 .. SampleCount - 1 :
            /\ rpc = "end" /\ sent = <<>>
            /\ UNCHANGED <<archive, request, block, gapcheck, stamp, sent, since>>
            /\ request.end \in Nat /\ request.start < request.end
            /\ request.start \in Nat
            /\ o = FindOffset(request.end, FALSE)
            /\ rpc' \in {"check", "stamp"}
            /\ request.options.only_contiguous => rpc' = "check"
            /\ offset' = Decimated(offset) /\ available' = Decimated(available)
            /\ samples' \in Nat /\ samples' <= Decimated(available)
            /\ samples' <= RangeSamples(binary_search(request.end), o)
            /\ RangeSamples(binary_search(request.end), o) \in Int
            /\ raced' = (completed # since)
<1> DEFINE e == FindBlock(request.end, FALSE)
           o == FindOffset(request.end, FALSE)
           n == RangeSamples(e, o)
           m == Decimated(available)
<1>1. e = binary_search(request.end)
    BY Zenon DEF FindBlock
<1>2. /\ rpc = "end"
      /\ UNCHANGED <<archive, request>>
      /\ request.start < request.end
      /\ n > 0
      /\ samples' = Truncated(n, m)
      /\ available' = m
      /\ offset' = Decimated(offset)
      /\ rpc' = AfterStart(request.options.only_contiguous)
      /\ raced' = (completed # since)
      /\ UNCHANGED <<block, gapcheck, stamp, sent, since>>
  <2>1. ~Idle
    BY DEF Idle
  <2> QED
    BY <2>1, Zenon DEF timestamp_to_end
<1>3. /\ request.start \in Nat /\ request.end \in Int /\ request.start > 0
      /\ offset \in Nat /\ available \in Nat /\ sent = <<>>
    BY <1>2 DEF PosInv, RequestTypes, Position
<1>4. request.end \in Nat /\ request.end > 0
    BY <1>2, <1>3
<1>5. e \in Blocks /\ o \in 0 .. SampleCount - 1
    BY <1>4, OffsetType, Zenon DEF PosInv
<1>6. n = RangeSamples(binary_search(request.end), o)
    BY <1>1
<1> HIDE DEF e, o
<1>7. n \in Int
  <2> DEFINE last == IF e < block THEN e + MajorBlocks ELSE e
  <2>1. e \in Int /\ block \in Int /\ last \in Int
    BY <1>5, Ring DEF PosInv, RequestTypes, Blocks
  <2>2. n = Decimated(SampleCount * (last - block) + o - offset)
    BY DEF RangeSamples
  <2> HIDE DEF last, n
  <2>3. SampleCount * (last - block) \in Int
    BY <2>1, Units
  <2>4. SampleCount * (last - block) + o - offset \in Int
    BY <1>3, <1>5, <2>3, Units
  <2> QED
    BY <2>2, <2>4, DecimatedBounds
<1>8. m \in Nat
    BY <1>3, DecimatedNat
<1> HIDE DEF n, m
<1>9. samples' \in Nat /\ samples' <= m /\ samples' <= n
    BY <1>2, <1>7, <1>8 DEF Truncated
<1>10. /\ rpc' \in {"check", "stamp"}
       /\ request.options.only_contiguous => rpc' = "check"
    BY <1>2 DEF AfterStart
<1>11. m = Decimated(available) /\ o = FindOffset(request.end, FALSE)
    BY Zenon DEF m, o
<1> USE <1>5
<1> WITNESS o \in 0 .. SampleCount - 1
<1> QED
    BY <1>2, <1>3, <1>4, <1>6, <1>7, <1>9, <1>10, <1>11

LEMMA PosEnd ==
    ASSUME PosInv, SkipLeavesBlocks, timestamp_to_end
    PROVE  PosInv'
<1>1. CASE rpc' = "idle"
  <2>1. Idle
    BY <1>1 DEF timestamp_to_end, AfterStart
  <2>2. UNCHANGED archive
    BY DEF timestamp_to_end
  <2> QED
    BY <2>1, <2>2, PosIdle
<1>2. CASE rpc' # "idle"
  <2>1. /\ rpc = "end" /\ sent = <<>>
        /\ UNCHANGED <<archive, request, block, gapcheck, stamp, sent, since>>
        /\ rpc' \in {"check", "stamp"}
        /\ offset' = Decimated(offset) /\ available' = Decimated(available)
        /\ samples' \in Nat /\ samples' <= Decimated(available)
        /\ raced' = (completed # since)
    BY <1>2, Ends
  <2>2. /\ offset \in Nat /\ available \in Nat /\ offset < SampleCount
        /\ Serving => /\ At >= 0
                      /\ Left + Len(sent) < MajorBlocks - IndexSkip
                      /\ available = Left * SampleCount - offset
    BY <2>1 DEF PosInv, RequestTypes, Position
  <2>3. /\ Decimated(offset) \in Nat /\ Decimated(offset) < SamplesPerBlock
        /\ Decimated(available) \in Nat
    BY <2>2, DecimatedInBlock, DecimatedNat
  <2>4. IndexInv' /\ completed' = completed
    BY <2>1, IndexStutter DEF PosInv, archive
  <2>5. RequestTypes'
    <3>1. raced' \in BOOLEAN
        BY <2>1, Zenon
    <3> QED
        BY <2>1, <2>3, <2>4, <3>1 DEF PosInv, RequestTypes
  <2>6. Left' = Left /\ At' = At /\ (Serving' <=> Serving)
    BY <2>1 DEF Left, At, Serving
  <2>7. Serving' => offset' + samples' <= Left' * SamplesPerBlock
    <3> SUFFICES ASSUME Serving PROVE offset' + samples' <= Left * SamplesPerBlock
        BY <2>6
    <3>1. Left \in Int
        BY LeftType DEF PosInv, IndexInv
    <3>2. Decimated(offset) + Decimated(Left * SampleCount - offset)
            <= Left * SamplesPerBlock
        BY <2>2, <3>1, DecimatedRest
    <3>3. Left * SamplesPerBlock \in Int
        BY <3>1, Units
    <3> QED
        BY <2>1, <2>2, <2>3, <3>2, <3>3
  <2>8. Position'
    BY <2>1, <2>2, <2>3, <2>6, <2>7 DEF Position
  <2> QED
    BY <2>4, <2>5, <2>8 DEF PosInv
<1> QED
    BY <1>1, <1>2

LEMMA PosCheck ==
    ASSUME PosInv, check_run
    PROVE  PosInv'
<1>1. IndexInv' /\ completed' = completed
    BY IndexStutter DEF check_run, PosInv, archive
<1>2. RequestTypes'
    BY <1>1 DEF check_run, PosInv, RequestTypes, locals, output
<1>3. Position'
  <2>1. Left' = Left /\ At' = At /\ (Serving' <=> Serving)
    BY DEF check_run, locals, output, Left, At, Serving
  <2> QED
    BY <2>1 DEF check_run, PosInv, Position, locals, output
<1> QED
    BY <1>1, <1>2, <1>3 DEF PosInv

LEMMA PosFind ==
    ASSUME PosInv, find_gap
    PROVE  PosInv'
<1>1. CASE Idle
    BY <1>1, PosIdle DEF find_gap
<1>2. CASE ~Idle
  <2>1. /\ rpc = "find" /\ rpc' \in {"find", "stamp"}
        /\ UNCHANGED <<archive, locals, output>>
    BY <1>2 DEF find_gap
  <2>2. IndexInv' /\ completed' = completed
    BY <2>1, IndexStutter DEF PosInv, archive
  <2>3. RequestTypes'
    BY <2>1, <2>2 DEF PosInv, RequestTypes, locals, output
  <2>4. Left' = Left /\ At' = At /\ (Serving' <=> Serving)
    BY <2>1 DEF locals, output, Left, At, Serving
  <2>5. Position'
    BY <2>1, <2>4 DEF PosInv, Position, locals, output
  <2> QED
    BY <2>2, <2>3, <2>5 DEF PosInv
<1> QED
    BY <1>1, <1>2

LEMMA PosStamp ==
    ASSUME PosInv, send_extended_timestamp
    PROVE  PosInv'
<1>1. CASE samples > 0
  <2>1. /\ rpc = "stamp" /\ rpc' = "read"
        /\ stamp' = index[block].timestamp
        /\ UNCHANGED <<archive, locals, sent, since, raced>>
    BY <1>1 DEF send_extended_timestamp
  <2>2. IndexInv' /\ completed' = completed
    BY <2>1, IndexStutter DEF PosInv, archive
  <2>3. stamp' \in Int
    BY <2>1 DEF PosInv, IndexInv, IndexTypes, RequestTypes
  <2>4. RequestTypes'
    BY <2>1, <2>2, <2>3 DEF PosInv, RequestTypes, locals
  <2>5. Left' = Left /\ At' = At /\ (Serving' <=> Serving)
    BY <2>1 DEF locals, Left, At, Serving
  <2>6. Position'
    BY <1>1, <2>1, <2>5 DEF PosInv, Position, locals
  <2> QED
    BY <2>2, <2>4, <2>6 DEF PosInv
<1>2. CASE ~(samples > 0)
    BY <1>2, PosIdle DEF send_extended_timestamp
<1> QED
    BY <1>1, <1>2

\* The piece that is about to be sent.
NextPiece ==
    [stamp |-> stamp,
     data |-> IF block = current THEN Torn ELSE index[block].timestamp,
     id |-> index[block].id_zero,
     first |-> offset, count |-> Truncated(samples, SamplesPerBlock - offset),
     lag |-> completed - since]

\* What sending a piece does: all there is to send moves up by a block.
LEMMA Moves ==
    ASSUME PosInv, transfer_block
    PROVE  /\ rpc = "read" /\ rpc' = "stamp" /\ offset' = 0
           /\ UNCHANGED <<archive, request, available, gapcheck, stamp, since,
                          raced>>
           /\ samples' \in Nat
           /\ samples' > 0 => samples' = offset + samples - SamplesPerBlock
           /\ NextPiece \in Piece /\ sent' = Append(sent, NextPiece)
           /\ offset + NextPiece.count
                = Truncated(offset + samples, SamplesPerBlock)
           /\ block' \in Blocks /\ (Serving' <=> Serving)
           /\ Serving => /\ Left >= 1 /\ Left' = Left - 1 /\ At' = At + 1
                         /\ \A n \in Int : Fresh(n)' <=> Fresh(n)
                         /\ samples' > 0 =>
                                \A n \in Int : Needed(n)' <=> Needed(n)
<1> DEFINE count == Truncated(samples, SamplesPerBlock - offset)
<1>1. /\ rpc = "read" /\ rpc' = "stamp" /\ offset' = 0
      /\ UNCHANGED <<archive, request, available, gapcheck, stamp, since, raced>>
      /\ sent' = Append(sent, NextPiece) /\ samples' = samples - count
      /\ block' = NextBlock(block)
    BY Zenon DEF transfer_block, NextPiece
<1>2. /\ offset \in Nat /\ offset < SamplesPerBlock
      /\ samples \in Nat /\ samples > 0 /\ SamplesPerBlock \in Nat
      /\ sent \in Seq(Piece) /\ Len(sent) \in Nat /\ IndexSkip \in Nat
      /\ Serving => offset + samples <= Left * SamplesPerBlock
  <2>1. SamplesPerBlock \in Nat /\ IndexSkip \in Nat
    BY Units, IndexAssumption
  <2> QED
    BY <1>1, <2>1 DEF PosInv, RequestTypes, Position
<1>3. /\ count \in Nat /\ samples' \in Nat
      /\ samples' > 0 => samples' = offset + samples - SamplesPerBlock
      /\ offset + count = Truncated(offset + samples, SamplesPerBlock)
    BY <1>1, <1>2 DEF Truncated
<1>4. NextPiece \in Piece /\ NextPiece.count = count
  <2>1. index[block] \in [timestamp : Int, duration : Nat, id_zero : Nat]
    BY DEF PosInv, IndexInv, IndexTypes, RequestTypes
  <2>2. completed - since \in Int /\ stamp \in Int
    BY DEF PosInv, IndexInv, IndexTypes, RequestTypes
  <2>3. (IF block = current THEN Torn ELSE index[block].timestamp) \in Int
    BY <2>1 DEF Torn
  <2>4. index[block].id_zero \in Nat
    BY <2>1
  <2> HIDE DEF count
  <2>5. NextPiece = [stamp |-> stamp,
                     data |-> IF block = current THEN Torn
                              ELSE index[block].timestamp,
                     id |-> index[block].id_zero,
                     first |-> offset, count |-> count,
                     lag |-> completed - since]
    BY Zenon DEF NextPiece, count
  <2> QED
    BY <1>2, <1>3, <2>2, <2>3, <2>4, <2>5 DEF Piece
<1> HIDE DEF count
<1>5. /\ Left \in 0 .. MajorBlocks - 1 /\ At \in Int /\ since \in Nat
      /\ At + Left = since /\ block = At % MajorBlocks
    BY LeftType DEF PosInv, IndexInv
<1>6. block' = (At + 1) % MajorBlocks /\ block' \in Blocks
    BY <1>1, <1>5, NextSlot, Slot
<1>7. Serving' <=> Serving
    BY <1>1 DEF Serving
<1>8. ASSUME Serving
      PROVE  /\ Left >= 1 /\ Left' = Left - 1 /\ At' = At + 1
             /\ \A n \in Int : Fresh(n)' <=> Fresh(n)
             /\ samples' > 0 => \A n \in Int : Needed(n)' <=> Needed(n)
  <2>1. Left >= 1
    <3>1. SUFFICES ASSUME Left = 0 PROVE FALSE
        BY <1>5
    <3>2. Left * SamplesPerBlock = 0
        BY <1>2, <3>1
    <3> QED
        BY <1>2, <1>8, <3>2
  <2>2. Left' = Left - 1
    <3> DEFINE n == At + 1
    <3>1. n \in Int /\ n <= since /\ since - n < MajorBlocks /\ since - n = Left - 1
        BY <1>5, <2>1, Ring
    <3> HIDE DEF n
    <3>2. (since - (n % MajorBlocks)) % MajorBlocks = since - n
        BY <1>5, <3>1, LeftIs
    <3>3. block' = n % MajorBlocks
        BY <1>6 DEF n
    <3> QED
        BY <1>1, <3>1, <3>2, <3>3 DEF Left
  <2>3. At' = At + 1
    BY <1>1, <1>5, <2>2 DEF At
  <2>4. ASSUME NEW n \in Int PROVE Fresh(n)' <=> Fresh(n)
    <3>1. Len(sent') = Len(sent) + 1 /\ completed' = completed /\ since' = since
        BY <1>1, <1>2 DEF archive
    <3>2. completed \in Nat
        BY DEF PosInv, IndexInv, IndexTypes
    <3>3. Fresh(n)' <=>
            completed' - since' < IndexSkip + Len(sent') + 1 + (n - At')
        BY DEF Fresh
    <3> QED
        BY <1>2, <1>5, <2>3, <3>1, <3>2, <3>3 DEF Fresh
  <2>5. ASSUME samples' > 0, NEW n \in Int PROVE Needed(n)' <=> Needed(n)
    <3>1. Needed(n)' <=> (n - At') * SamplesPerBlock < offset' + samples'
        BY DEF Needed
    <3>2. /\ SamplesPerBlock * (n - At') = SamplesPerBlock * (n - At) - SamplesPerBlock
          /\ SamplesPerBlock * (n - At) \in Int
        <4>1. n - At' = (n - At) - 1 /\ n - At \in Int /\ n - At' \in Int
            BY <1>5, <2>3
        <4>2. SamplesPerBlock * ((n - At) - 1)
                = SamplesPerBlock * (n - At) - SamplesPerBlock * 1
            BY <1>2, <4>1, Distribute
        <4> QED
            BY <1>2, <4>1, <4>2
    <3>3. /\ (n - At') * SamplesPerBlock = SamplesPerBlock * (n - At')
          /\ (n - At) * SamplesPerBlock = SamplesPerBlock * (n - At)
        BY <1>2, <1>5, <2>3
    <3> QED
        BY <1>1, <1>2, <1>3, <2>5, <3>1, <3>2, <3>3 DEF Needed
  <2> QED
    BY <2>1, <2>2, <2>3, <2>4, <2>5
<1> QED
    BY <1>1, <1>3, <1>4, <1>6, <1>7, <1>8

LEMMA PosTransfer ==
    ASSUME PosInv, transfer_block
    PROVE  PosInv'
<1>1. /\ rpc = "read" /\ rpc' = "stamp" /\ offset' = 0
      /\ UNCHANGED <<archive, request, available, gapcheck, stamp, since, raced>>
      /\ samples' \in Nat
      /\ samples' > 0 => samples' = offset + samples - SamplesPerBlock
      /\ NextPiece \in Piece /\ sent' = Append(sent, NextPiece)
      /\ block' \in Blocks /\ (Serving' <=> Serving)
      /\ Serving => /\ Left >= 1 /\ Left' = Left - 1 /\ At' = At + 1
    BY Moves
<1>2. IndexInv' /\ completed' = completed
    BY <1>1, IndexStutter DEF PosInv, archive
<1>3. sent \in Seq(Piece) /\ sent' \in Seq(Piece) /\ Len(sent') = Len(sent) + 1
      /\ Len(sent) \in Nat
    BY <1>1 DEF PosInv, RequestTypes
<1>4. RequestTypes'
    BY <1>1, <1>2, <1>3 DEF PosInv, RequestTypes
<1>5. /\ Left \in Int /\ At \in Int /\ IndexSkip \in Nat /\ SamplesPerBlock \in Nat
      /\ SamplesPerBlock > 0
    BY LeftType, Units, IndexAssumption DEF PosInv, IndexInv
<1>6. Serving' => At' >= 0 /\ Left' + Len(sent') < MajorBlocks - IndexSkip
    BY <1>1, <1>3, <1>5, Ring DEF PosInv, Position
<1>7. ASSUME Serving' PROVE offset' + samples' <= Left' * SamplesPerBlock
  <2>1. offset + samples <= Left * SamplesPerBlock
    BY <1>1, <1>7 DEF PosInv, Position
  <2>2. /\ (Left - 1) * SamplesPerBlock = Left * SamplesPerBlock - SamplesPerBlock
        /\ Left * SamplesPerBlock \in Int
    <3>1. SamplesPerBlock * (Left - 1) = SamplesPerBlock * Left - SamplesPerBlock * 1
        BY <1>5, Distribute
    <3>2. /\ SamplesPerBlock * (Left - 1) = (Left - 1) * SamplesPerBlock
          /\ SamplesPerBlock * Left = Left * SamplesPerBlock
          /\ Left * SamplesPerBlock \in Int
        BY <1>5
    <3> QED
        BY <1>5, <3>1, <3>2
  <2>3. CASE samples' > 0
    BY <1>1, <1>5, <1>7, <2>1, <2>2, <2>3 DEF PosInv, RequestTypes
  <2>4. CASE samples' = 0
    <3>1. Left' \in Nat
        BY <1>1, <1>5, <1>7
    <3>2. \A a, b \in Nat : a * b \in Nat
        OBVIOUS
    <3>3. Left' * SamplesPerBlock \in Nat
        BY <1>5, <3>1, <3>2
    <3> QED
        BY <1>1, <2>4, <3>3
  <2> QED
    BY <1>1, <2>3, <2>4
<1>8. Position'
    BY <1>1, <1>5, <1>6, <1>7 DEF Position
<1> QED
    BY <1>2, <1>4, <1>8 DEF PosInv

\* The requests considered are for times and options of the right types.
LEMMA BeginCases ==
    ASSUME IndexTypes, Begin
    PROVE  \E start \in Times, end \in Int, options \in Options :
            timestamp_to_start(start, end, options)
<1>1. PICK start \in Times, options \in Options :
        \E end \in {0} \cup {start + l : l \in Lengths} :
            timestamp_to_start(start, end, options)
    BY Zenon DEF Begin
<1>2. PICK end \in {0} \cup {start + l : l \in Lengths} :
        timestamp_to_start(start, end, options)
    BY <1>1
<1>3. start \in Int
    BY DEF Times, IndexTypes
<1>4. end \in Int
    BY <1>3, RequestAssumption
<1> QED
    BY <1>2, <1>4

LEMMA PosNext ==
    ASSUME PosInv, SkipLeavesBlocks, [Next]_vars
    PROVE  PosInv'
<1>1. CASE AdvanceIndex /\ UNCHANGED <<rpc, locals, gapcheck, output>>
    BY <1>1, PosArchive
<1>2. CASE Begin
  <2>1. PICK start \in Times, end \in Int, options \in Options :
            timestamp_to_start(start, end, options)
    BY <1>2, BeginCases DEF PosInv, IndexInv
  <2> QED
    BY <2>1, PosBegin
<1>3. CASE timestamp_to_end
    BY <1>3, PosEnd
<1>4. CASE check_run
    BY <1>4, PosCheck
<1>5. CASE find_gap
    BY <1>5, PosFind
<1>6. CASE send_extended_timestamp
    BY <1>6, PosStamp
<1>7. CASE transfer_block
    BY <1>7, PosTransfer
<1>8. CASE TransferFails
    BY <1>8, PosIdle DEF TransferFails
<1>9. CASE UNCHANGED vars
  <2>1. IndexInv' /\ completed' = completed
    BY <1>9, IndexStutter DEF vars, archive, PosInv
  <2>2. RequestTypes'
    BY <1>9, <2>1 DEF vars, locals, output, PosInv, RequestTypes
  <2>3. Left' = Left /\ At' = At /\ (Serving' <=> Serving)
    BY <1>9 DEF vars, locals, output, Left, At, Serving
  <2>4. Position'
    BY <1>9, <2>3 DEF vars, locals, output, PosInv, Position
  <2> QED
    BY <2>1, <2>2, <2>4 DEF PosInv
<1> QED
    BY <1>1, <1>2, <1>3, <1>4, <1>5, <1>6, <1>7, <1>8, <1>9
    DEF Next, RequestNext

-----------------------------------------------------------------------------
(* The timestamp sent ahead of a block is that of its data. *)

\* The timestamp sent ahead is that of the block about to be read.
StampInv ==
    rpc = "read" /\ Serving /\ Fresh(At) => stamp = Entry(At).timestamp

\* Sending a piece that is kept is sending a fresh block.
LEMMA KeptIsFresh ==
    ASSUME PosInv, transfer_block, NEW k \in Nat, k = Len(sent) + 1, Kept(k)'
    PROVE  /\ Serving /\ Fresh(At) /\ At \in At .. since - 1
           /\ sent'[k] = NextPiece
           /\ block # current /\ index[block] = Entry(At)
<1>1. /\ UNCHANGED archive /\ UNCHANGED since /\ rpc = "read"
      /\ sent' = Append(sent, NextPiece)
      /\ Serving => Left >= 1
    BY Moves
<1>2. sent \in Seq(Piece) /\ Len(sent) \in Nat
    BY DEF PosInv, RequestTypes
<1>3. sent'[k] = NextPiece
    BY <1>1, <1>2
<1>4. since' > 0 /\ sent'[k].lag < IndexSkip + k
    BY DEF Kept
<1>5. Serving
    BY <1>1, <1>4 DEF Serving
<1>6. /\ Left \in Int /\ At \in Int /\ since \in Nat /\ At + Left = since
      /\ block = At % MajorBlocks /\ completed \in Nat /\ IndexSkip \in Nat
    BY LeftType, IndexAssumption DEF PosInv, IndexInv, IndexTypes
<1>7. NextPiece.lag = completed - since
    BY DEF NextPiece
<1>8. Fresh(At)
    BY <1>2, <1>3, <1>4, <1>6, <1>7 DEF Fresh
<1>9. At \in At .. since - 1
    BY <1>1, <1>5, <1>6
<1>10. block # current
    BY <1>5, <1>6, <1>8, <1>9, FreshStored
<1>11. index[block] = Entry(At)
    BY <1>6 DEF Entry
<1> QED
    BY <1>3, <1>5, <1>8, <1>9, <1>10, <1>11

LEMMA StampStep ==
    ASSUME PosInv, SkipLeavesBlocks, StampInv, [Next]_vars
    PROVE  StampInv'
<1> SUFFICES ASSUME rpc' = "read", Serving', Fresh(At)'
             PROVE  stamp' = Entry(At)'.timestamp
    BY DEF StampInv
<1>1. /\ Left \in Int /\ At \in Int /\ since \in Nat /\ At + Left = since
      /\ block = At % MajorBlocks
    BY LeftType DEF PosInv, IndexInv
<1>2. CASE AdvanceIndex /\ UNCHANGED <<rpc, locals, gapcheck, output>>
  <2>1. /\ Serving' = Serving /\ Left' = Left /\ At' = At
        /\ Fresh(At)
        /\ \A n \in At .. since - 1 :
            Fresh(n)' => index'[n % MajorBlocks] = Entry(n)
    <3>1. /\ Serving' = Serving /\ Left' = Left /\ At' = At
          /\ \A n \in Int : Fresh(n)' => Fresh(n)
          /\ Serving => \A n \in At .. since - 1 :
                Fresh(n)' => index'[n % MajorBlocks] = Entry(n)
        BY <1>2, ArchiveStep
    <3>2. PICK n \in Int : n = At
        BY <1>1
    <3>3. Fresh(n)'
        BY <3>1, <3>2 DEF Fresh
    <3>4. Fresh(n)
        BY <3>1, <3>3
    <3> QED
        BY <3>1, <3>2, <3>4
  <2>2. rpc = "read" /\ stamp' = stamp /\ Serving
    BY <1>2, <2>1 DEF output
  <2>3. At \in At .. since - 1
    <3>1. samples > 0 /\ offset \in Nat /\ samples \in Nat
          /\ offset + samples <= Left * SamplesPerBlock
        BY <2>2 DEF PosInv, Position, RequestTypes
    <3>2. Left > 0
        <4>1. SUFFICES ASSUME Left <= 0 PROVE FALSE
            BY <1>1
        <4>2. Left = 0
            BY <4>1, LeftType DEF PosInv, IndexInv
        <4>3. Left * SamplesPerBlock = 0
            BY <4>2, Units
        <4> QED
            BY <3>1, <4>3
    <3> QED
        BY <1>1, <3>2
  <2>4. PICK n \in Int : n = At
    BY <1>1
  <2>5. Fresh(n)'
    BY <2>1, <2>4 DEF Fresh
  <2>6. index'[n % MajorBlocks] = Entry(n)
    BY <2>1, <2>3, <2>4, <2>5
  <2>7. stamp = Entry(n).timestamp
    BY <2>1, <2>2, <2>4 DEF StampInv
  <2> QED
    BY <2>1, <2>2, <2>4, <2>6, <2>7 DEF Entry
<1>3. CASE send_extended_timestamp
  <2>1. /\ stamp' = index[block].timestamp
        /\ UNCHANGED <<archive, locals, since>>
    BY <1>3 DEF send_extended_timestamp, Idle
  <2>2. At' = At /\ index' = index
    BY <2>1 DEF locals, archive, At, Left
  <2> QED
    BY <1>1, <2>1, <2>2 DEF Entry
<1>4. CASE UNCHANGED vars
  <2>1. At' = At /\ index' = index /\ stamp' = stamp
    BY <1>4 DEF vars, archive, locals, output, At, Left
  <2>2. rpc = "read" /\ Serving /\ Fresh(At)
    BY <1>4, <2>1 DEF vars, archive, locals, output, Serving, Fresh
  <2> QED
    BY <2>1, <2>2 DEF StampInv, Entry
<1>5. CASE Begin
  <2>1. PICK start \in Times, end \in Int, options \in Options :
            timestamp_to_start(start, end, options)
    BY <1>5, BeginCases DEF PosInv, IndexInv
  <2>2. rpc' # "read"
    BY <2>1, Begins
  <2> QED
    BY <2>2
<1>6. CASE timestamp_to_end
    BY <1>6, Ends
<1>7. rpc' # "idle"
    OBVIOUS
<1>8. CASE check_run
    BY <1>8 DEF check_run
<1>9. CASE find_gap
    BY <1>9 DEF find_gap, Idle
<1>10. CASE transfer_block
    BY <1>10 DEF transfer_block
<1>11. CASE TransferFails
    BY <1>11 DEF TransferFails, Idle
<1> QED
    BY <1>2, <1>3, <1>4, <1>5, <1>6, <1>8, <1>9, <1>10, <1>11
    DEF Next, RequestNext

\* What has been sent changes only when a piece is added or a request ends;
\* what a request asks for, not while anything has been sent.
LEMMA SentChanges ==
    ASSUME PosInv, SkipLeavesBlocks, [Next]_vars
    PROVE  \/ transfer_block
           \/ sent' = <<>>
           \/ UNCHANGED <<sent, since, request, raced>>
<1>1. CASE Begin
  <2>1. PICK start \in Times, end \in Int, options \in Options :
            timestamp_to_start(start, end, options)
    BY <1>1, BeginCases DEF PosInv, IndexInv
  <2> QED
    BY <2>1, Begins
<1>2. CASE timestamp_to_end
  <2>1. sent = <<>>
    BY <1>2 DEF timestamp_to_end, PosInv, Position
  <2> QED
    BY <1>2, <2>1 DEF timestamp_to_end, Idle
<1> QED
    BY <1>1, <1>2 DEF Next, RequestNext, vars, locals, output, check_run,
        find_gap, send_extended_timestamp, TransferFails, Idle

\* A kept piece is what its timestamp says, from the moment it is sent.
LEMMA StampsStep ==
    ASSUME PosInv, SkipLeavesBlocks, StampInv, StampsMatchData, [Next]_vars
    PROVE  StampsMatchData'
<1>1. CASE transfer_block
  <2>1. UNCHANGED <<since, stamp>> /\ sent' = Append(sent, NextPiece)
    BY <1>1, Moves
  <2>2. sent \in Seq(Piece) /\ Len(sent) \in Nat
    BY DEF PosInv, RequestTypes
  <2> SUFFICES ASSUME NEW k \in DOMAIN sent', Kept(k)'
               PROVE  sent'[k].data = sent'[k].stamp
    BY DEF StampsMatchData
  <2>3. k \in 1 .. Len(sent) \/ k = Len(sent) + 1
    BY <2>1, <2>2
  <2>4. CASE k \in 1 .. Len(sent)
    <3>1. sent'[k] = sent[k] /\ k \in DOMAIN sent
        BY <2>1, <2>2, <2>4
    <3>2. Kept(k)
        BY <2>1, <3>1 DEF Kept
    <3> QED
        BY <3>1, <3>2 DEF StampsMatchData
  <2>5. CASE k = Len(sent) + 1
    <3>1. /\ Serving /\ Fresh(At) /\ sent'[k] = NextPiece
          /\ block # current /\ index[block] = Entry(At)
        BY <1>1, <2>2, <2>5, KeptIsFresh
    <3>2. stamp = Entry(At).timestamp
        BY <1>1, <3>1 DEF StampInv, transfer_block
    <3> QED
        BY <3>1, <3>2 DEF NextPiece
  <2> QED
    BY <2>3, <2>4, <2>5
<1>2. CASE sent' = <<>>
    BY <1>2 DEF StampsMatchData
<1>3. CASE UNCHANGED <<sent, since>>
    BY <1>3 DEF StampsMatchData, Kept
<1> QED
    BY <1>1, <1>2, <1>3, SentChanges

-----------------------------------------------------------------------------
(* Nothing is missing from the beginning of the range. *)

\* The first sample to be sent.
Beginning == IF rpc = "end" THEN Decimated(offset) ELSE offset

StartInv ==
    Serving /\ sent = <<>> =>
        /\ Left > 0
        /\ ~request.options.all_data /\ Fresh(At) =>
                Entry(At).timestamp + After(Beginning) <= request.start

LEMMA StartStep ==
    ASSUME PosInv, SkipLeavesBlocks, StartInv, [Next]_vars
    PROVE  StartInv'
<1> SUFFICES ASSUME Serving', sent' = <<>>
             PROVE  /\ Left' > 0
                    /\ ~request'.options.all_data /\ Fresh(At)' =>
                        Entry(At)'.timestamp + After(Beginning)' <= request'.start
    BY DEF StartInv
<1>1. /\ Left \in Int /\ At \in Int /\ since \in Nat /\ At + Left = since
      /\ completed \in Nat
    BY LeftType DEF PosInv, IndexInv, IndexTypes
<1>2. CASE AdvanceIndex /\ UNCHANGED <<rpc, locals, gapcheck, output>>
  <2>1. /\ Serving' = Serving /\ Left' = Left /\ At' = At
        /\ \A n \in Int : Fresh(n)' => Fresh(n)
        /\ Serving => \A n \in At .. since - 1 :
              Fresh(n)' => index'[n % MajorBlocks] = Entry(n)
    BY <1>2, ArchiveStep
  <2>2. Serving /\ sent = <<>> /\ request' = request /\ Beginning' = Beginning
    BY <1>2, <2>1 DEF locals, output, Beginning
  <2>3. Left > 0
    BY <2>2 DEF StartInv
  <2>4. PICK n \in Int : n = At
    BY <1>1
  <2>5. ASSUME Fresh(At)', ~request.options.all_data
        PROVE  index'[n % MajorBlocks].timestamp + After(Beginning) <= request.start
    <3>1. Fresh(n)'
        BY <2>1, <2>4, <2>5 DEF Fresh
    <3>2. Fresh(At)
        BY <2>1, <2>4, <3>1
    <3>3. n \in At .. since - 1
        BY <1>1, <2>3, <2>4
    <3>4. index'[n % MajorBlocks] = Entry(n)
        BY <2>1, <2>2, <3>1, <3>3
    <3>5. Entry(At).timestamp + After(Beginning) <= request.start
        BY <2>2, <2>5, <3>2 DEF StartInv
    <3> QED
        BY <2>4, <3>4, <3>5
  <2>6. Entry(At)' = index'[n % MajorBlocks] /\ After(Beginning)' = After(Beginning)
    BY <2>1, <2>2, <2>4 DEF Entry, After
  <2> QED
    BY <2>1, <2>2, <2>3, <2>5, <2>6
<1>3. CASE Begin
  <2>1. PICK start \in Times, end \in Int, options \in Options :
            timestamp_to_start(start, end, options)
    BY <1>3, BeginCases DEF PosInv, IndexInv
  <2>2. PICK b \in Blocks, o \in 0 .. SampleCount - 1, m \in Nat :
        /\ request' = [start |-> start, end |-> end, options |-> options]
        /\ block' = b /\ since' = completed /\ UNCHANGED archive
        /\ \/ /\ rpc' \in {"check", "stamp"}
              /\ offset' = Decimated(o)
           \/ /\ rpc' = "end"
              /\ offset' = o
        /\ completed > 0 => \E n \in Int :
            /\ b = n % MajorBlocks
            /\ 0 <= n /\ First <= n /\ n < completed
            /\ ~options.all_data =>
                Entry(n).timestamp + After(Decimated(o)) <= start
    <3> HIDE DEF timestamp_to_start
    <3> QED
        BY <2>1, Begins
  <2>3. completed > 0
    BY <2>2 DEF Serving
  <2>4. PICK n \in Int :
            /\ b = n % MajorBlocks
            /\ 0 <= n /\ First <= n /\ n < completed
            /\ ~options.all_data =>
                Entry(n).timestamp + After(Decimated(o)) <= start
    BY <2>2, <2>3
  <2>5. Left' = completed - n /\ At' = n
    BY <2>2, <2>4, BeginsAt
  <2>6. Entry(At)' = Entry(n)
    BY <2>2, <2>5 DEF Entry, archive
  <2>7. Beginning' = Decimated(o)
    BY <2>2 DEF Beginning
  <2>8. After(Beginning)' = After(Decimated(o))
    BY <2>7 DEF After
  <2>9. request'.options = options /\ request'.start = start
    BY <2>2
  <2> QED
    BY <1>1, <2>4, <2>5, <2>6, <2>8, <2>9
<1>4. CASE timestamp_to_end
  <2>1. /\ rpc = "end" /\ sent = <<>> /\ rpc' \in {"check", "stamp"}
        /\ UNCHANGED <<archive, request, block, sent, since>>
        /\ offset' = Decimated(offset)
    BY <1>4, Ends DEF Serving
  <2>2. /\ At' = At /\ Left' = Left /\ Beginning' = Beginning /\ index' = index
        /\ (Fresh(At)' <=> Fresh(At)) /\ Serving
    BY <2>1 DEF At, Left, Fresh, Beginning, Serving, archive
  <2>3. Entry(At)' = Entry(At) /\ After(Beginning)' = After(Beginning)
    BY <2>2 DEF Entry, After
  <2> QED
    BY <2>1, <2>2, <2>3 DEF StartInv
<1>5. CASE /\ UNCHANGED <<archive, block, offset, request, sent, since>>
           /\ rpc # "end" /\ rpc' # "end" /\ rpc # "idle"
  <2>1. /\ At' = At /\ Left' = Left /\ Beginning' = Beginning /\ index' = index
        /\ (Fresh(At)' <=> Fresh(At)) /\ Serving
    BY <1>5 DEF At, Left, Fresh, Beginning, Serving, archive
  <2>2. Entry(At)' = Entry(At) /\ After(Beginning)' = After(Beginning)
    BY <2>1 DEF Entry, After
  <2> QED
    BY <1>5, <2>1, <2>2 DEF StartInv
<1>6. CASE UNCHANGED vars
  <2>1. /\ At' = At /\ Left' = Left /\ Beginning' = Beginning /\ index' = index
        /\ (Fresh(At)' <=> Fresh(At)) /\ Serving /\ request' = request
        /\ sent' = sent
    BY <1>6 DEF vars, locals, output, At, Left, Fresh, Beginning, Serving, archive
  <2>2. Entry(At)' = Entry(At) /\ After(Beginning)' = After(Beginning)
    BY <2>1 DEF Entry, After
  <2> QED
    BY <2>1, <2>2 DEF StartInv
<1>7. CASE transfer_block
    BY <1>7, Moves DEF PosInv, RequestTypes
<1>8. rpc' # "idle"
    BY DEF Serving
<1>9. CASE check_run \/ find_gap \/ send_extended_timestamp
    BY <1>5, <1>8, <1>9 DEF check_run, find_gap, send_extended_timestamp, Idle,
        locals, output
<1>10. CASE TransferFails
    BY <1>8, <1>10 DEF TransferFails, Idle
<1> QED
    BY <1>2, <1>3, <1>4, <1>6, <1>7, <1>9, <1>10 DEF Next, RequestNext

LEMMA MissingStep ==
    ASSUME PosInv, SkipLeavesBlocks, StampInv, StartInv, NothingMissingAtStart,
           [Next]_vars
    PROVE  NothingMissingAtStart'
<1>1. CASE transfer_block
  <2>1. /\ UNCHANGED <<since, stamp, request>> /\ sent' = Append(sent, NextPiece)
        /\ rpc = "read"
    BY <1>1, Moves
  <2>2. sent \in Seq(Piece) /\ Len(sent) \in Nat
    BY DEF PosInv, RequestTypes
  <2> SUFFICES ASSUME ~request.options.all_data, Kept(1)'
               PROVE  FirstTime(1)' <= request.start
    BY <2>1 DEF NothingMissingAtStart
  <2>3. CASE sent = <<>>
    <3>1. Len(sent) + 1 = 1
        BY <2>3
    <3>2. /\ Serving /\ Fresh(At) /\ sent'[1] = NextPiece
          /\ index[block] = Entry(At)
        BY <1>1, <3>1, KeptIsFresh
    <3>3. stamp = Entry(At).timestamp
        BY <2>1, <3>2 DEF StampInv
    <3>4. Entry(At).timestamp + After(offset) <= request.start
        BY <2>1, <2>3, <3>2 DEF StartInv, Beginning
    <3>5. FirstTime(1)' = stamp + After(offset)
        BY <3>2 DEF FirstTime, NextPiece, After
    <3> QED
        BY <3>3, <3>4, <3>5
  <2>4. CASE sent # <<>>
    <3>1. Len(sent) >= 1
        BY <2>2, <2>4
    <3>2. sent'[1] = sent[1]
        BY <2>1, <2>2, <3>1
    <3>3. Kept(1)
        BY <2>1, <3>2 DEF Kept
    <3>4. FirstTime(1) <= request.start
        BY <2>4, <3>3 DEF NothingMissingAtStart
    <3> QED
        BY <3>2, <3>4 DEF FirstTime, After
  <2> QED
    BY <2>3, <2>4
<1>2. CASE sent' = <<>>
    BY <1>2 DEF NothingMissingAtStart
<1>3. CASE UNCHANGED <<sent, since, request, raced>>
    BY <1>3 DEF NothingMissingAtStart, Kept, FirstTime, After
<1> QED
    BY <1>1, <1>2, <1>3, SentChanges

-----------------------------------------------------------------------------
(* What a request for contiguous data is sent is contiguous. *)

\* A block with the given index entry follows without a gap on one with the
\* given timestamp and id.
Adjoins(check_id, timestamp, id_zero, entry) ==
    LET gap == entry.timestamp - (timestamp + Duration) IN
    /\ gap >= -MaxDelta /\ gap <= MaxDelta
    /\ check_id => entry.id_zero = id_zero + SampleCount

\* From block n to the next there is no gap.
Joined(n) ==
    Adjoins(request.options.check_id0, Entry(n).timestamp, Entry(n).id_zero,
            Entry(n + 1))

\* The number of blocks a request has to come to.
Rounds == RoundUp(offset + samples, SamplesPerBlock)

\* The number of the block find_gap has come to.
Probed == At + Rounds - left

\* find_gap has found no gap so far.
FindInv ==
    rpc = "find" =>
        /\ left \in Nat /\ left <= Rounds
        /\ left >= 1 \/ Probed = At
        /\ probe = Probed % MajorBlocks
        /\ Fresh(Probed) /\ Needed(Probed) =>
            /\ expected = Entry(Probed).timestamp + Duration
            /\ expected_id = Entry(Probed).id_zero + SampleCount
        /\ \A n \in At .. Probed - 1 : Fresh(n) => Joined(n)

\* What is to be sent is without a gap ...
RunInv ==
    rpc \in {"stamp", "read"} =>
        \A n \in At .. since - 1 : Needed(n + 1) /\ Fresh(n) => Joined(n)

\* ... and follows without one on what was sent.
JoinInv ==
    rpc \in {"stamp", "read"} /\ sent # <<>> /\ samples > 0
    /\ Kept(Len(sent)) /\ Fresh(At) =>
        Adjoins(request.options.check_id0, sent[Len(sent)].stamp,
                sent[Len(sent)].id, Entry(At))

GapInv ==
    Serving /\ request.options.only_contiguous => FindInv /\ RunInv /\ JoinInv

LEMMA RoundsAre ==
    ASSUME PosInv
    PROVE  /\ Rounds \in Nat
           /\ \A n \in Int : Needed(n) <=> n - At < Rounds
           /\ Serving /\ rpc \in {"check", "find", "stamp", "read"} =>
                Rounds <= Left
<1> DEFINE a == offset + samples
           s == SamplesPerBlock
           r == (a + s - 1) \div s
<1>1. a \in Nat /\ s \in Nat /\ s > 0
    BY Units DEF PosInv, RequestTypes
<1>2. At \in Int /\ Left \in Int
    BY LeftType DEF PosInv, IndexInv
<1>3. Rounds = r
    BY DEF Rounds, RoundUp
<1>4. \A n \in Int : Needed(n) <=> (n - At) * s < a
    BY DEF Needed
<1>5. Serving /\ rpc \in {"check", "find", "stamp", "read"} => a <= Left * s
    BY DEF PosInv, Position
<1> HIDE DEF a, s
<1>6. r \in Int /\ s * r <= a + s - 1 /\ a + s - 1 < s * r + s
    <2>1. a + s - 1 \in Int
        BY <1>1
    <2> QED
        BY <1>1, <2>1, Division
<1> HIDE DEF r
<1>7. ASSUME NEW q \in Int PROVE q * s < a <=> q < r
  <2>0. /\ q * s \in Int /\ s * r \in Int /\ q * s = s * q
        /\ s * (r - q) = s * r - s * q /\ r - q \in Int
    BY <1>1, <1>6, Distribute
  <2>1. ASSUME q < r PROVE q * s < a
    <3>1. s * (r - q) >= s
        <4>1. \A x, y \in Int : x >= 0 /\ y >= 1 => x * y >= x
            OBVIOUS
        <4>2. r - q >= 1
            BY <1>6, <2>1
        <4> QED
            BY <1>1, <2>0, <4>1, <4>2
    <3> QED
        BY <1>1, <1>6, <2>0, <3>1
  <2>2. ASSUME q >= r PROVE ~(q * s < a)
    <3>1. s * (r - q) <= 0
        <4>1. \A x, y \in Int : x >= 0 /\ y <= 0 => x * y <= 0
            OBVIOUS
        <4>2. r - q <= 0
            BY <1>6, <2>2
        <4> QED
            BY <1>1, <2>0, <4>1, <4>2
    <3> QED
        BY <1>1, <1>6, <2>0, <3>1
  <2> QED
    BY <1>6, <2>1, <2>2
<1>8. r \in Nat
  <2>1. ~(r < 0)
    <3>1. (-1) * s < a
        BY <1>1
    <3>2. -1 < r
        BY <1>7, <3>1
    <3> QED
        BY <1>6, <3>2
  <2> QED
    BY <1>6, <2>1
<1>9. \A n \in Int : Needed(n) <=> n - At < r
  <2> TAKE n \in Int
  <2>1. n - At \in Int
    BY <1>2
  <2> QED
    BY <1>4, <1>7, <2>1
<1>10. Serving /\ rpc \in {"check", "find", "stamp", "read"} => r <= Left
  <2>1. a <= Left * s => ~(Left < r)
    <3>1. a <= Left * s => ~(Left * s < a)
        <4>1. Left * s \in Int
            BY <1>1, <1>2
        <4> QED
            BY <1>1, <4>1
    <3> QED
        BY <1>2, <1>7, <3>1
  <2> QED
    BY <1>2, <1>5, <1>6, <2>1
<1> QED
    BY <1>3, <1>8, <1>9, <1>10

\* Steps of the archive leave alone what a request has yet to come to.
LEMMA JoinedStays ==
    ASSUME PosInv, AdvanceIndex, UNCHANGED <<rpc, locals, gapcheck, output>>,
           Serving, NEW n \in Int, n >= At, n + 1 < since, Fresh(n)', Joined(n)
    PROVE  Joined(n)'
<1>1. /\ At' = At
      /\ \A i \in At .. since - 1 : Fresh(i)' => index'[i % MajorBlocks] = Entry(i)
    BY ArchiveStep
<1>2. At \in Int /\ since \in Nat /\ completed' \in Int /\ Len(sent) \in Nat
      /\ IndexSkip \in Nat /\ since' = since /\ sent' = sent
  <2>1. completed' \in Int
    BY IndexStep DEF PosInv, IndexInv, IndexTypes
  <2>2. IndexSkip \in Nat /\ Len(sent) \in Nat
    BY IndexAssumption DEF PosInv, RequestTypes
  <2> QED
    BY <2>1, <2>2, LeftType DEF PosInv, IndexInv, output
<1>3. PICK m \in Int : m = n + 1
    OBVIOUS
<1>4. Fresh(m)'
    BY <1>1, <1>2, <1>3 DEF Fresh
<1>5. n \in At .. since - 1 /\ m \in At .. since - 1
    BY <1>2, <1>3
<1>6. Entry(n)' = Entry(n) /\ Entry(m)' = Entry(m)
    BY <1>1, <1>4, <1>5 DEF Entry
<1>7. request' = request
    BY DEF locals
<1> QED
    BY <1>3, <1>6, <1>7 DEF Joined

LEMMA GapArchive ==
    ASSUME PosInv, GapInv, AdvanceIndex,
           UNCHANGED <<rpc, locals, gapcheck, output>>
    PROVE  GapInv'
<1> SUFFICES ASSUME Serving', request'.options.only_contiguous
             PROVE  FindInv' /\ RunInv' /\ JoinInv'
    BY DEF GapInv
<1>1. /\ Serving /\ Left' = Left /\ At' = At
      /\ \A n \in Int : Fresh(n)' => Fresh(n)
      /\ \A n \in At .. since - 1 : Fresh(n)' => index'[n % MajorBlocks] = Entry(n)
    BY ArchiveStep
<1>2. /\ rpc' = rpc /\ request' = request /\ offset' = offset /\ samples' = samples
      /\ sent' = sent /\ since' = since /\ probe' = probe /\ left' = left
      /\ expected' = expected /\ expected_id' = expected_id
    BY DEF locals, gapcheck, output
<1>3. FindInv /\ RunInv /\ JoinInv
    BY <1>1, <1>2 DEF GapInv
<1>4. /\ Rounds \in Nat
      /\ \A n \in Int : Needed(n) <=> n - At < Rounds
      /\ rpc \in {"check", "find", "stamp", "read"} => Rounds <= Left
      /\ At \in Int /\ Left \in Int /\ At + Left = since /\ since \in Nat
    BY <1>1, RoundsAre, LeftType DEF PosInv, IndexInv
<1>5. Rounds' = Rounds /\ Probed' = Probed
    BY <1>1, <1>2 DEF Rounds, Probed
<1>6. \A n \in Int : Needed(n)' <=> Needed(n)
    BY <1>1, <1>2 DEF Needed
<1>7. FindInv'
  <2> SUFFICES ASSUME rpc = "find" PROVE FindInv'
    BY <1>2 DEF FindInv
  <2>1. /\ left \in Nat /\ left <= Rounds
        /\ left >= 1 \/ Probed = At
        /\ probe = Probed % MajorBlocks
    BY <1>3 DEF FindInv
  <2>2. PICK p \in Int : p = Probed
    BY <1>4, <2>1 DEF Probed
  <2>3. p >= At /\ p <= At + Rounds
    BY <1>4, <2>1, <2>2 DEF Probed
  <2>4. ASSUME Fresh(Probed)', Needed(Probed)'
        PROVE  /\ expected = index'[p % MajorBlocks].timestamp + Duration
               /\ expected_id = index'[p % MajorBlocks].id_zero + SampleCount
    <3>1. Fresh(p)' /\ Needed(p)'
        BY <1>5, <2>2, <2>4 DEF Fresh, Needed
    <3>2. Fresh(p) /\ Needed(p)
        BY <1>1, <1>6, <3>1
    <3>3. p \in At .. since - 1
        BY <1>4, <2>3, <3>2
    <3>4. index'[p % MajorBlocks] = Entry(p)
        BY <1>1, <3>1, <3>3
    <3> QED
        BY <1>3, <2>2, <3>2, <3>4 DEF FindInv
  <2>5. ASSUME NEW n \in At .. Probed - 1, Fresh(n)' PROVE Joined(n)'
    <3>1. n \in Int /\ n >= At /\ n + 1 <= p
        BY <1>4, <2>2
    <3>2. p < since
        BY <1>4, <2>1, <2>2, <3>1 DEF Probed
    <3>3. Joined(n)
        BY <1>1, <1>3, <2>5, <3>1 DEF FindInv
    <3> QED
        BY <1>1, <1>4, <2>5, <3>1, <3>2, <3>3, JoinedStays
  <2>6. Entry(Probed)' = index'[p % MajorBlocks]
    BY <1>5, <2>2 DEF Entry
  <2> QED
    BY <1>1, <1>2, <1>5, <2>1, <2>4, <2>5, <2>6 DEF FindInv
<1>8. RunInv'
  <2> SUFFICES ASSUME rpc \in {"stamp", "read"}, NEW n \in At .. since - 1,
                      Needed(n + 1)', Fresh(n)'
               PROVE  Joined(n)'
    BY <1>1, <1>2 DEF RunInv
  <2>1. n \in Int /\ n >= At /\ n + 1 \in Int
    BY <1>4
  <2>2. Needed(n + 1) /\ Fresh(n)
    BY <1>1, <1>6, <2>1
  <2>3. n + 1 < since
    BY <1>4, <2>1, <2>2
  <2>4. Joined(n)
    BY <1>3, <2>2 DEF RunInv
  <2> QED
    BY <1>1, <2>1, <2>3, <2>4, JoinedStays
<1>9. JoinInv'
  <2> SUFFICES ASSUME rpc \in {"stamp", "read"}, sent # <<>>, samples > 0,
                      Kept(Len(sent))', Fresh(At)'
               PROVE  Adjoins(request.options.check_id0, sent[Len(sent)].stamp,
                              sent[Len(sent)].id, Entry(At)')
    BY <1>1, <1>2 DEF JoinInv
  <2>1. Kept(Len(sent))
    BY <1>2 DEF Kept
  <2>2. PICK n \in Int : n = At
    BY <1>4
  <2>3. Fresh(n)' /\ Fresh(At)
    <3>1. Fresh(n)'
        BY <1>1, <2>2 DEF Fresh
    <3> QED
        BY <1>1, <2>2, <3>1
  <2>4. n \in At .. since - 1
    <3>1. Needed(n)
        <4>1. (n - At) * SamplesPerBlock = 0
            BY <1>4, <2>2, Units
        <4> QED
            BY <4>1 DEF Needed, PosInv, RequestTypes
    <3> QED
        BY <1>4, <2>2, <3>1
  <2>5. index'[n % MajorBlocks] = Entry(n)
    BY <1>1, <2>3, <2>4
  <2>6. Entry(At)' = Entry(At)
    BY <1>1, <2>2, <2>5 DEF Entry
  <2> QED
    BY <1>3, <2>1, <2>3, <2>6 DEF JoinInv
<1> QED
    BY <1>7, <1>8, <1>9

LEMMA GapCheck ==
    ASSUME PosInv, GapInv, check_run
    PROVE  GapInv'
<1> SUFFICES ASSUME Serving', request'.options.only_contiguous
             PROVE  FindInv' /\ RunInv' /\ JoinInv'
    BY DEF GapInv
<1>1. /\ rpc = "check" /\ rpc' = "find" /\ UNCHANGED <<archive, locals, output>>
      /\ probe' = block /\ left' = Rounds
      /\ expected' = index[block].timestamp + index[block].duration
      /\ expected_id' = index[block].id_zero + SampleCount
    BY DEF check_run, Rounds
<1>2. /\ Left' = Left /\ At' = At /\ Rounds' = Rounds /\ Serving
      /\ offset' = offset /\ samples' = samples /\ sent' = sent /\ since' = since
      /\ index' = index /\ completed' = completed
    BY <1>1 DEF locals, output, archive, Left, At, Rounds, Serving
<1>3. /\ Rounds \in Nat /\ Rounds <= Left
      /\ \A n \in Int : Needed(n) <=> n - At < Rounds
      /\ At \in Int /\ At + Left = since /\ since \in Nat /\ Left \in Int
      /\ block = At % MajorBlocks
    BY <1>1, <1>2, RoundsAre, LeftType DEF PosInv, IndexInv
<1>4. Probed' = At
    BY <1>1, <1>2, <1>3 DEF Probed
<1>5. ASSUME Fresh(Probed)', Needed(Probed)'
      PROVE  /\ expected' = Entry(At).timestamp + Duration
             /\ expected_id' = Entry(At).id_zero + SampleCount
  <2>1. Fresh(At) /\ Needed(At)
    BY <1>2, <1>4, <1>5 DEF Fresh, Needed
  <2>2. At \in At .. since - 1
    BY <1>3, <2>1
  <2>3. Entry(At).duration = Duration
    BY <1>2, <2>1, <2>2, FreshStored
  <2>4. index[block] = Entry(At)
    BY <1>3 DEF Entry
  <2> QED
    BY <1>1, <2>3, <2>4
<1>6. Entry(Probed)' = Entry(At)
    BY <1>2, <1>4 DEF Entry
<1>7. FindInv'
    BY <1>1, <1>2, <1>3, <1>4, <1>5, <1>6 DEF FindInv
<1>8. RunInv' /\ JoinInv'
    BY <1>1 DEF RunInv, JoinInv
<1> QED
    BY <1>7, <1>8

LEMMA GapFind ==
    ASSUME PosInv, GapInv, find_gap
    PROVE  GapInv'
<1> SUFFICES ASSUME Serving', request'.options.only_contiguous
             PROVE  FindInv' /\ RunInv' /\ JoinInv'
    BY DEF GapInv
<1>1. rpc = "find" /\ ~Idle /\ UNCHANGED <<archive, locals, output>>
    BY DEF find_gap, Idle, Serving
<1>2. /\ Left' = Left /\ At' = At /\ Rounds' = Rounds /\ Serving /\ sent = <<>>
      /\ offset' = offset /\ samples' = samples /\ sent' = sent /\ since' = since
      /\ index' = index /\ completed' = completed /\ request' = request
    BY <1>1 DEF locals, output, archive, Left, At, Rounds, Serving, PosInv, Position
<1>3. /\ Rounds \in Nat /\ Rounds <= Left
      /\ \A n \in Int : Needed(n) <=> n - At < Rounds
      /\ At \in Int /\ At + Left = since /\ since \in Nat /\ Left \in Int
    BY <1>1, <1>2, RoundsAre, LeftType DEF PosInv, IndexInv
<1>4. /\ left \in Nat /\ left <= Rounds
      /\ left >= 1 \/ Probed = At
      /\ probe = Probed % MajorBlocks
      /\ Fresh(Probed) /\ Needed(Probed) =>
            /\ expected = Entry(Probed).timestamp + Duration
            /\ expected_id = Entry(Probed).id_zero + SampleCount
      /\ \A n \in At .. Probed - 1 : Fresh(n) => Joined(n)
    BY <1>1, <1>2 DEF GapInv, FindInv
<1>5. Probed \in Int /\ Probed >= At /\ Probed = At + Rounds - left
    BY <1>3, <1>4 DEF Probed
<1>6. \A n \in Int : (Fresh(n)' <=> Fresh(n)) /\ (Joined(n)' <=> Joined(n))
                     /\ (Needed(n)' <=> Needed(n))
    BY <1>2 DEF Fresh, Joined, Needed, Entry
<1>7. CASE left <= 1
  <2>1. rpc' = "stamp"
    BY <1>1, <1>7 DEF find_gap
  <2>2. ASSUME NEW n \in At .. since - 1, Needed(n + 1), Fresh(n) PROVE Joined(n)
    <3>1. n \in Int /\ n + 1 \in Int
        BY <1>3
    <3>2. n + 1 - At < Rounds
        BY <1>3, <2>2, <3>1
    <3>3. n \in At .. Probed - 1
        BY <1>3, <1>4, <1>5, <1>7, <3>1, <3>2
    <3> QED
        BY <1>4, <2>2, <3>3
  <2>3. RunInv'
    <3> SUFFICES ASSUME NEW n \in At' .. since' - 1, Needed(n + 1)', Fresh(n)'
                 PROVE  Joined(n)'
        BY DEF RunInv
    <3>1. n \in At .. since - 1 /\ n \in Int /\ n + 1 \in Int
        BY <1>2, <1>3
    <3>2. Needed(n + 1) /\ Fresh(n)
        BY <1>6, <3>1
    <3> QED
        BY <1>6, <2>2, <3>1, <3>2
  <2> QED
    BY <1>2, <2>1, <2>3 DEF FindInv, JoinInv
<1>8. CASE left > 1
  <2>1. /\ ~IsGap(NextBlock(probe)) /\ rpc' = "find"
        /\ probe' = NextBlock(probe) /\ left' = left - 1
        /\ expected' = index[NextBlock(probe)].timestamp
                            + index[NextBlock(probe)].duration
        /\ expected_id' = index[NextBlock(probe)].id_zero + SampleCount
    BY <1>1, <1>4, <1>8 DEF find_gap
  <2>2. NextBlock(probe) = (Probed + 1) % MajorBlocks
    BY <1>4, <1>5, NextSlot
  <2>3. index[NextBlock(probe)] = Entry(Probed + 1)
    BY <2>2 DEF Entry
  <2>4. Probed' = Probed + 1
    BY <1>2, <1>3, <1>4, <1>5, <2>1 DEF Probed
  <2>5. PICK p \in Int : p = Probed
    BY <1>5
  <2>6. p + 1 < since /\ p >= At /\ Needed(p)
    BY <1>3, <1>4, <1>5, <1>8, <2>5
  <2>7. ASSUME Fresh(p) PROVE Joined(p)
    <3>1. /\ expected = Entry(p).timestamp + Duration
          /\ expected_id = Entry(p).id_zero + SampleCount
        BY <1>4, <2>5, <2>6, <2>7
    <3>2. /\ ~(request.options.check_id0 /\ Entry(p + 1).id_zero # expected_id)
          /\ ~(Entry(p + 1).timestamp - expected < -MaxDelta)
          /\ ~(Entry(p + 1).timestamp - expected > MaxDelta)
        BY <2>1, <2>3, <2>5 DEF IsGap
    <3>3. /\ Entry(p).timestamp \in Int /\ Entry(p + 1).timestamp \in Int
          /\ MaxDelta \in Nat /\ Duration \in Nat
        <4>1. p + 1 \in Int /\ IndexTypes
            BY DEF PosInv, IndexInv
        <4>2. Entry(p).timestamp \in Int /\ Entry(p + 1).timestamp \in Int
            BY <4>1, EntryType
        <4> QED
            BY <4>2, IndexAssumption
    <3>4. /\ Entry(p + 1).timestamp - (Entry(p).timestamp + Duration) >= -MaxDelta
          /\ Entry(p + 1).timestamp - (Entry(p).timestamp + Duration) <= MaxDelta
        BY <3>1, <3>2, <3>3
    <3> QED
        BY <3>1, <3>2, <3>4 DEF Joined, Adjoins
  <2>8. ASSUME Fresh(p + 1)
        PROVE  /\ expected' = Entry(p + 1).timestamp + Duration
               /\ expected_id' = Entry(p + 1).id_zero + SampleCount
    <3>1. p + 1 \in At .. since - 1
        BY <1>3, <2>6
    <3>2. Entry(p + 1).duration = Duration
        BY <1>2, <2>8, <3>1, FreshStored
    <3> QED
        BY <2>1, <2>3, <2>5, <3>2
  <2>9. Fresh(Probed)' => Fresh(p + 1)
    BY <1>2, <2>4, <2>5 DEF Fresh
  <2>10. Entry(Probed)' = Entry(p + 1)
    BY <1>2, <2>4, <2>5 DEF Entry
  <2>11. ASSUME NEW n \in At' .. Probed' - 1, Fresh(n)' PROVE Joined(n)'
    <3>1. n \in Int /\ (n \in At .. Probed - 1 \/ n = p)
        BY <1>2, <1>3, <1>5, <2>4, <2>5
    <3>2. Joined(n)
        BY <1>4, <1>6, <2>7, <2>11, <3>1
    <3> QED
        BY <1>6, <3>1, <3>2
  <2>12. /\ left' \in Nat /\ left' <= Rounds' /\ left' >= 1
         /\ probe' = Probed' % MajorBlocks
    BY <1>2, <1>3, <1>4, <1>8, <2>1, <2>2, <2>4
  <2>13. FindInv'
    BY <2>8, <2>9, <2>10, <2>11, <2>12 DEF FindInv
  <2> QED
    BY <2>1, <2>13 DEF RunInv, JoinInv
<1> QED
    BY <1>4, <1>7, <1>8

LEMMA GapStamp ==
    ASSUME PosInv, GapInv, send_extended_timestamp
    PROVE  GapInv'
<1> SUFFICES ASSUME Serving', request'.options.only_contiguous
             PROVE  FindInv' /\ RunInv' /\ JoinInv'
    BY DEF GapInv
<1>1. /\ rpc = "stamp" /\ rpc' = "read"
      /\ UNCHANGED <<archive, locals, sent, since, raced>>
    BY DEF send_extended_timestamp, Idle, Serving
<1>2. /\ At' = At /\ Serving
      /\ offset' = offset /\ samples' = samples /\ sent' = sent /\ since' = since
      /\ index' = index /\ completed' = completed /\ request' = request
    BY <1>1 DEF locals, archive, Left, At, Serving
<1>3. RunInv /\ JoinInv
    BY <1>2 DEF GapInv
<1>4. \A n \in Int : (Fresh(n)' <=> Fresh(n)) /\ (Joined(n)' <=> Joined(n))
                     /\ (Needed(n)' <=> Needed(n))
    BY <1>2 DEF Fresh, Joined, Needed, Entry
<1>5. At \in Int /\ since \in Nat
    BY LeftType DEF PosInv, IndexInv
<1>6. RunInv'
  <2> SUFFICES ASSUME NEW n \in At' .. since' - 1, Needed(n + 1)', Fresh(n)'
               PROVE  Joined(n)'
    BY DEF RunInv
  <2>1. n \in At .. since - 1 /\ n \in Int /\ n + 1 \in Int
    BY <1>2, <1>5
  <2>2. Needed(n + 1) /\ Fresh(n)
    BY <1>4, <2>1
  <2> QED
    BY <1>1, <1>3, <1>4, <2>1, <2>2 DEF RunInv
<1>7. JoinInv'
  <2>1. /\ Entry(At)' = Entry(At) /\ (Fresh(At)' <=> Fresh(At))
        /\ (Kept(Len(sent))' <=> Kept(Len(sent)))
    BY <1>2 DEF Entry, Fresh, Kept
  <2> QED
    BY <1>1, <1>2, <1>3, <2>1 DEF JoinInv
<1> QED
    BY <1>1, <1>6, <1>7 DEF FindInv

LEMMA GapTransfer ==
    ASSUME PosInv, GapInv, StampInv, transfer_block
    PROVE  GapInv'
<1> SUFFICES ASSUME Serving', request'.options.only_contiguous
             PROVE  FindInv' /\ RunInv' /\ JoinInv'
    BY DEF GapInv
<1>1. /\ rpc = "read" /\ rpc' = "stamp" /\ offset' = 0 /\ Serving
      /\ UNCHANGED <<archive, request, since>>
      /\ samples' \in Nat
      /\ samples' > 0 => samples' = offset + samples - SamplesPerBlock
      /\ sent' = Append(sent, NextPiece)
      /\ Left >= 1 /\ Left' = Left - 1 /\ At' = At + 1
      /\ \A n \in Int : Fresh(n)' <=> Fresh(n)
      /\ samples' > 0 => \A n \in Int : Needed(n)' <=> Needed(n)
    BY Moves
<1>2. RunInv
    BY <1>1 DEF GapInv
<1>3. /\ At \in Int /\ since \in Nat /\ Left \in Int /\ At + Left = since
      /\ sent \in Seq(Piece) /\ Len(sent) \in Nat
      /\ SamplesPerBlock \in Nat /\ offset \in Nat /\ samples \in Nat
    BY LeftType, Units DEF PosInv, IndexInv, RequestTypes
<1>4. index' = index
    BY <1>1 DEF archive
<1>5. \A n \in Int : Joined(n)' <=> Joined(n)
    BY <1>1, <1>4 DEF Joined, Entry
<1>6. RunInv'
  <2> SUFFICES ASSUME NEW n \in At' .. since' - 1, Needed(n + 1)', Fresh(n)'
               PROVE  Joined(n)'
    BY DEF RunInv
  <2>1. n \in At .. since - 1 /\ n \in Int /\ n + 1 \in Int /\ n >= At'
        /\ n + 1 - At' \in Nat
    BY <1>1, <1>3
  <2>2. samples' > 0
    <3>1. SUFFICES ASSUME samples' = 0 PROVE FALSE
        BY <1>1
    <3>2. (n + 1 - At') * SamplesPerBlock < 0
        BY <1>1, <3>1 DEF Needed
    <3>3. \A a, b \in Nat : a * b >= 0
        OBVIOUS
    <3> QED
        BY <1>3, <2>1, <3>2, <3>3
  <2>3. Needed(n + 1) /\ Fresh(n)
    BY <1>1, <2>1, <2>2
  <2> QED
    BY <1>1, <1>2, <1>5, <2>1, <2>3 DEF RunInv
<1>7. JoinInv'
  <2> SUFFICES ASSUME samples' > 0, Kept(Len(sent))'
               PROVE  Adjoins(request'.options.check_id0, sent'[Len(sent')].stamp,
                              sent'[Len(sent')].id, Entry(At)')
    BY DEF JoinInv
  <2>1. PICK k \in Nat : k = Len(sent) + 1
    BY <1>3
  <2>2. Len(sent') = k
    BY <1>1, <1>3, <2>1
  <2>3. Kept(k)'
    BY <2>2 DEF Kept
  <2>4. /\ Fresh(At) /\ At \in At .. since - 1 /\ sent'[k] = NextPiece
        /\ index[block] = Entry(At)
    BY <2>1, <2>3, KeptIsFresh
  <2>5. stamp = Entry(At).timestamp
    BY <1>1, <2>4 DEF StampInv
  <2>6. Needed(At + 1)
    <3>1. (At + 1 - At) * SamplesPerBlock = SamplesPerBlock
        BY <1>3
    <3> QED
        BY <1>1, <1>3, <3>1 DEF Needed
  <2>7. Joined(At)
    BY <1>1, <1>2, <2>4, <2>6 DEF RunInv
  <2>8. Entry(At)' = Entry(At + 1)
    BY <1>1, <1>4 DEF Entry
  <2>9. sent'[k].stamp = Entry(At).timestamp /\ sent'[k].id = Entry(At).id_zero
    BY <2>4, <2>5 DEF NextPiece
  <2> QED
    BY <1>1, <2>2, <2>7, <2>8, <2>9 DEF Joined
<1> QED
    BY <1>1, <1>6, <1>7 DEF FindInv

LEMMA GapStep ==
    ASSUME PosInv, SkipLeavesBlocks, StampInv, GapInv, [Next]_vars
    PROVE  GapInv'
<1>1. CASE AdvanceIndex /\ UNCHANGED <<rpc, locals, gapcheck, output>>
    BY <1>1, GapArchive
<1>2. CASE Begin
  <2>1. PICK start \in Times, end \in Int, options \in Options :
            timestamp_to_start(start, end, options)
    BY <1>2, BeginCases DEF PosInv, IndexInv
  <2>2. /\ request' = [start |-> start, end |-> end, options |-> options]
        /\ rpc' \in {"check", "stamp", "end"}
        /\ options.only_contiguous => rpc' # "stamp"
    BY <2>1, Begins
  <2> QED
    BY <2>2 DEF GapInv, FindInv, RunInv, JoinInv
<1>3. CASE timestamp_to_end
  <2>1. CASE rpc' = "idle"
    BY <2>1 DEF GapInv, Serving
  <2>2. CASE rpc' # "idle"
    <3>1. /\ UNCHANGED request /\ rpc' \in {"check", "stamp"}
          /\ request.options.only_contiguous => rpc' = "check"
        BY <1>3, <2>2, Ends
    <3> QED
        BY <3>1 DEF GapInv, FindInv, RunInv, JoinInv
  <2> QED
    BY <2>1, <2>2
<1>4. CASE check_run
    BY <1>4, GapCheck
<1>5. CASE find_gap
    BY <1>5, GapFind
<1>6. CASE send_extended_timestamp
    BY <1>6, GapStamp
<1>7. CASE transfer_block
    BY <1>7, GapTransfer
<1>8. CASE TransferFails
    BY <1>8 DEF TransferFails, Idle, GapInv, Serving
<1>9. CASE UNCHANGED vars
  <2>1. /\ At' = At /\ index' = index /\ rpc' = rpc /\ Rounds' = Rounds
        /\ Probed' = Probed /\ (Serving' <=> Serving) /\ request' = request
        /\ sent' = sent /\ since' = since /\ completed' = completed
        /\ offset' = offset /\ samples' = samples /\ left' = left
        /\ probe' = probe /\ expected' = expected /\ expected_id' = expected_id
    BY <1>9 DEF vars, locals, gapcheck, output, archive, Left, At, Rounds, Probed,
        Serving
  <2>2. FindInv' <=> FindInv
    BY <2>1 DEF FindInv, Fresh, Needed, Joined, Entry
  <2>3. RunInv' <=> RunInv
    BY <2>1 DEF RunInv, Fresh, Needed, Joined, Entry
  <2>4. JoinInv' <=> JoinInv
    BY <2>1 DEF JoinInv, Fresh, Kept, Entry
  <2> QED
    BY <2>1, <2>2, <2>3, <2>4 DEF GapInv
<1> QED
    BY <1>1, <1>2, <1>3, <1>4, <1>5, <1>6, <1>7, <1>8, <1>9
    DEF Next, RequestNext

LEMMA ContiguousStep ==
    ASSUME PosInv, SkipLeavesBlocks, StampInv, GapInv, SentIsContiguous,
           [Next]_vars
    PROVE  SentIsContiguous'
<1>1. CASE transfer_block
  <2>1. /\ UNCHANGED <<since, stamp, request>> /\ sent' = Append(sent, NextPiece)
        /\ rpc = "read" /\ UNCHANGED archive
    BY <1>1, Moves
  <2>2. sent \in Seq(Piece) /\ Len(sent) \in Nat
    BY DEF PosInv, RequestTypes
  <2> SUFFICES ASSUME request.options.only_contiguous,
                      NEW k \in DOMAIN sent' \ {1}, Kept(k)', Kept(k - 1)'
               PROVE  Adjoins(request.options.check_id0, sent'[k - 1].stamp,
                              sent'[k - 1].id,
                              [timestamp |-> sent'[k].stamp,
                               id_zero |-> sent'[k].id])
    BY <2>1 DEF SentIsContiguous, Adjoins
  <2>3. k \in Int /\ k >= 2 /\ k <= Len(sent) + 1
    BY <2>1, <2>2
  <2>4. sent'[k - 1] = sent[k - 1]
    BY <2>1, <2>2, <2>3
  <2>5. Kept(k - 1)
    BY <2>1, <2>4 DEF Kept
  <2>6. CASE k <= Len(sent)
    <3>1. sent'[k] = sent[k] /\ k \in DOMAIN sent \ {1}
        BY <2>1, <2>2, <2>3, <2>6
    <3>2. Kept(k)
        BY <2>1, <3>1 DEF Kept
    <3> QED
        BY <2>4, <2>5, <3>1, <3>2 DEF SentIsContiguous, Adjoins
  <2>7. CASE k = Len(sent) + 1
    <3>1. /\ Serving /\ Fresh(At) /\ sent'[k] = NextPiece
          /\ index[block] = Entry(At)
        BY <1>1, <2>2, <2>3, <2>7, KeptIsFresh
    <3>2. stamp = Entry(At).timestamp
        BY <2>1, <3>1 DEF StampInv
    <3>3. sent # <<>> /\ k - 1 = Len(sent)
        BY <2>2, <2>3, <2>7
    <3>4. samples > 0
        BY <2>1 DEF PosInv, Position
    <3>5. Adjoins(request.options.check_id0, sent[k - 1].stamp,
                  sent[k - 1].id, Entry(At))
        BY <2>1, <2>5, <3>1, <3>3, <3>4 DEF GapInv, JoinInv
    <3>6. sent'[k].stamp = Entry(At).timestamp /\ sent'[k].id = Entry(At).id_zero
        BY <3>1, <3>2 DEF NextPiece
    <3> QED
        BY <2>4, <3>5, <3>6 DEF Adjoins
  <2> QED
    BY <2>2, <2>3, <2>6, <2>7
<1>2. CASE sent' = <<>>
    BY <1>2 DEF SentIsContiguous
<1>3. CASE UNCHANGED <<sent, since, request, raced>>
    BY <1>3 DEF SentIsContiguous, Kept
<1> QED
    BY <1>1, <1>2, <1>3, SentChanges

-----------------------------------------------------------------------------
(* Nothing is sent from beyond the end of the range. *)

\* No request takes what there is for what it asked for ...
NoAllData == \A options \in Options : ~options.all_data

\* ... and blocks overlap by no more than a sample.
SmallOverlaps == \A g \in Gaps : SampleCount * (-g[1]) <= Factor * Duration

LEMMA AfterNat ==
    ASSUME NEW s \in Nat
    PROVE  After(s) >= 0 /\ After(s) \in Int
<1>1. (s * Factor) * Duration \in Nat
  <2>1. \A a, b \in Nat : a * b \in Nat
    OBVIOUS
  <2>2. s * Factor \in Nat
    BY <2>1, Units
  <2> QED
    BY <2>1, <2>2, DurationType
<1> DEFINE x == (s * Factor) * Duration
<1>2. After(s) = x \div SampleCount
    BY DEF After, Factor
<1> HIDE DEF x
<1>3. x \in Int /\ SampleCount * 0 <= x /\ 0 \in Int
    BY <1>1, Units DEF x
<1>4. 0 <= x \div SampleCount
    BY <1>3, Units, DivAtLeast
<1>5. x \div SampleCount \in Int
    BY <1>3, Units, Division
<1> QED
    BY <1>2, <1>4, <1>5

LEMMA DecimatedPlus ==
    ASSUME NEW k \in Int, NEW o \in Int
    PROVE  Decimated(SampleCount * k + o) <= k * SamplesPerBlock + Decimated(o)
<1> DEFINE p == k * SamplesPerBlock
           d == Decimated(o)
<1>1. /\ Factor \in Nat /\ SampleCount \in Nat /\ SamplesPerBlock \in Nat
      /\ SampleCount = Factor * SamplesPerBlock /\ p \in Int
    BY Units
<1>2. d \in Int /\ o < Factor * d + Factor
    BY DecimatedBounds
<1>3. SampleCount * k = Factor * p
    BY <1>1
<1> HIDE DEF p, d
<1>4. Factor * (p + d) = Factor * p + Factor * d
    BY <1>1, <1>2, Distribute
<1>5. /\ SampleCount * k \in Int /\ Factor * p \in Int /\ Factor * d \in Int
      /\ p + d \in Int
    BY <1>1, <1>2, Distribute
<1>6. SampleCount * k + o < Factor * (p + d) + Factor
    BY <1>1, <1>2, <1>3, <1>4, <1>5
<1>7. SampleCount * k + o \in Int
    BY <1>5
<1>8. Decimated(SampleCount * k + o) <= p + d
    BY <1>5, <1>6, <1>7, DecimatedBounds
<1> QED
    BY <1>8 DEF p, d

\* A block is over, up to its last sample, when the next begins.
LEMMA AfterBeforeNext ==
    ASSUME IndexInv, SmallOverlaps, NEW n \in InRing, n >= 0, n + 1 \in InRing,
           NEW s \in Int, s < SamplesPerBlock
    PROVE  Entry(n).timestamp + After(s) <= Entry(n + 1).timestamp
<1>1. PICK g \in Gaps :
        Entry(n + 1).timestamp >= Entry(n).timestamp + Duration + g[1]
  <2>1. n < n + 1
    BY DEF InRing, IndexInv, IndexTypes
  <2> QED
    BY <2>1 DEF IndexInv, Follows
<1> DEFINE y == g[1]
<1>2. y \in Int
    BY GapTypes
<1>3. SampleCount * (-y) <= Factor * Duration
    BY DEF SmallOverlaps
<1>4. Entry(n + 1).timestamp >= Entry(n).timestamp + Duration + y
    BY <1>1
<1> HIDE DEF y
<1>5. /\ Factor \in Nat /\ SampleCount \in Nat /\ SampleCount > 0
      /\ Duration \in Nat /\ SamplesPerBlock \in Nat
      /\ SampleCount = Factor * SamplesPerBlock
    BY Units, DurationType
<1> DEFINE f == Factor * Duration
           c == SampleCount * Duration
<1>6. (s * Factor) * Duration <= c - f /\ (s * Factor) * Duration \in Int
  <2>1. s * Factor <= SampleCount - Factor /\ s * Factor \in Int
    <3>1. Factor * s <= Factor * (SamplesPerBlock - 1)
        <4>1. \A a \in Nat : \A x, z \in Int : x <= z => a * x <= a * z
            OBVIOUS
        <4> QED
            BY <1>5, <4>1
    <3>2. Factor * (SamplesPerBlock - 1) = Factor * SamplesPerBlock - Factor * 1
        BY <1>5, Distribute
    <3>3. s * Factor = Factor * s /\ Factor * s \in Int
        BY <1>5
    <3> QED
        BY <1>5, <3>1, <3>2, <3>3
  <2>2. \A a \in Nat : \A x, z \in Int : x <= z => x * a <= z * a
    OBVIOUS
  <2>3. (s * Factor) * Duration <= (SampleCount - Factor) * Duration
    BY <1>5, <2>1, <2>2
  <2>4. (SampleCount - Factor) * Duration = c - f
    <3>1. Duration * (SampleCount - Factor)
            = Duration * SampleCount - Duration * Factor
        BY <1>5, Distribute
    <3> QED
        BY <1>5, <3>1
  <2>5. (s * Factor) * Duration \in Int
    BY <1>5, <2>1
  <2> QED
    BY <2>3, <2>4, <2>5
<1>7. /\ SampleCount * (Duration + y) = c + SampleCount * y
      /\ SampleCount * (-y) = -(SampleCount * y)
      /\ SampleCount * y \in Int /\ c \in Int /\ f \in Int
    BY <1>2, <1>5, Distribute
<1>8. SampleCount * (-y) <= f
    BY <1>3
<1> HIDE DEF f, c
<1>9. (s * Factor) * Duration < SampleCount * (Duration + y) + SampleCount
    BY <1>5, <1>6, <1>7, <1>8
<1>10. Duration + y \in Int
    BY <1>2, <1>5
<1>11. After(s) <= Duration + y /\ After(s) \in Int
    BY <1>9, <1>10, AfterType
<1>12. Entry(n).timestamp \in Int /\ Entry(n + 1).timestamp \in Int
  <2>1. n \in Int /\ n + 1 \in Int /\ IndexTypes
    BY DEF InRing, IndexInv, IndexTypes
  <2> QED
    BY <2>1, EntryType
<1> QED
    BY <1>2, <1>4, <1>5, <1>11, <1>12

\* The last sample to be sent of block n.
LastOf(n) ==
    Truncated((offset + samples) - (n - At) * SamplesPerBlock, SamplesPerBlock) - 1

EndInv ==
    Serving /\ ~raced /\ request.end # 0
    /\ rpc \in {"check", "find", "stamp", "read"} =>
        \A n \in At .. since - 1 :
            Needed(n) /\ Fresh(n) =>
                Entry(n).timestamp + After(LastOf(n)) <= request.end

\* The range of times of a request, looked up with no block completed in
\* between, spans the samples from its start to block e and offset o.
LEMMA RangeIs ==
    ASSUME PosInv, NEW e \in Int, At <= e, e < completed, completed = since,
           NEW o \in Int
    PROVE  RangeSamples(e % MajorBlocks, o)
            = Decimated((SampleCount * (e - At) + o) - offset)
<1> DEFINE b == e % MajorBlocks
           last == IF b < block THEN b + MajorBlocks ELSE b
<1>1. /\ At \in Int /\ Left \in 0 .. MajorBlocks - 1 /\ At + Left = since
      /\ block = At % MajorBlocks /\ since \in Nat
      /\ MajorBlocks \in Nat
    BY LeftType, Ring DEF PosInv, IndexInv
<1>2. At <= e /\ e - At < MajorBlocks
    BY <1>1
<1>3. /\ b \in Blocks /\ block \in Blocks
      /\ IF b >= block THEN b - block = e - At
                       ELSE b + MajorBlocks - block = e - At
    BY <1>1, <1>2, SlotDistance
<1>4. RangeSamples(b, o) = Decimated(SampleCount * (last - block) + o - offset)
    BY DEF RangeSamples
<1>5. last - block = e - At
    BY <1>1, <1>3 DEF Blocks
<1> HIDE DEF last, b
<1>6. RangeSamples(b, o) = Decimated(SampleCount * (e - At) + o - offset)
    BY <1>4, <1>5
<1>7. SampleCount * (e - At) + o - offset = (SampleCount * (e - At) + o) - offset
  <2>1. SampleCount * (e - At) \in Int /\ offset \in Int
    BY <1>1, Units DEF PosInv, RequestTypes
  <2> QED
    BY <2>1
<1> QED
    BY <1>6, <1>7 DEF b

LEMMA EndsInRange ==
    ASSUME PosInv, StartInv, SkipLeavesBlocks, NoAllData, SmallOverlaps,
           timestamp_to_end, rpc' # "idle", Serving, completed = since,
           NEW n \in At .. since - 1,
           (n - At) * SamplesPerBlock < offset' + samples',
           NEW s \in Int,
           s = Truncated((offset' + samples') - (n - At) * SamplesPerBlock,
                         SamplesPerBlock) - 1
    PROVE  Entry(n).timestamp + After(s) <= request.end
<1>1. PICK o \in 0 .. SampleCount - 1 :
        /\ rpc = "end" /\ sent = <<>>
        /\ UNCHANGED <<archive, request, block, gapcheck, stamp, sent, since>>
        /\ request.end \in Nat /\ request.start < request.end
        /\ request.start \in Nat
        /\ o = FindOffset(request.end, FALSE)
        /\ offset' = Decimated(offset)
        /\ samples' \in Nat
        /\ samples' <= RangeSamples(binary_search(request.end), o)
        /\ RangeSamples(binary_search(request.end), o) \in Int
    BY Ends
<1> DEFINE t == request.end
<1>2. t \in Nat /\ t > 0
    BY <1>1
<1>3. PICK e \in Int : binary_search(t) = e % MajorBlocks /\ Found(t, e)
    BY <1>2, BinarySearch DEF PosInv
<1>4. /\ At \in Int /\ Left \in Int /\ At + Left = since /\ since \in Nat
      /\ completed \in Nat /\ completed > 0 /\ offset \in Nat /\ Left > 0
      /\ At >= 0 /\ IndexSkip \in Nat /\ offset < SampleCount
    BY <1>1, LeftType, IndexAssumption
    DEF PosInv, IndexInv, IndexTypes, Serving, StartInv, Position, RequestTypes
<1>5. /\ e >= 0 /\ First <= e /\ e < completed
      /\ e = 0 \/ e = First \/ Entry(e).timestamp <= t
      /\ e + 1 < completed => t < Entry(e + 1).timestamp
    BY <1>3, <1>4 DEF Found
<1>6. /\ First \in Int /\ completed - MajorBlocks < First /\ MajorBlocks \in Nat
      /\ First <= At
  <2>1. Left + 0 < MajorBlocks - IndexSkip
    BY <1>1 DEF PosInv, Position
  <2>2. First <= At
    BY <1>4, <2>1, Ring DEF First
  <2> QED
    BY <2>2, SkipType, Ring DEF PosInv
<1>7. Fresh(At) /\ \A m \in Int : m >= At => Fresh(m)
    BY <1>1, <1>4 DEF Fresh
<1>8. Entry(At).timestamp <= request.start /\ Entry(At).timestamp \in Int
  <2>1. /\ Entry(At).timestamp + After(Beginning) <= request.start
        /\ Beginning = Decimated(offset)
    BY <1>1, <1>7 DEF StartInv, NoAllData, PosInv, RequestTypes, Beginning
  <2>2. After(Beginning) >= 0 /\ After(Beginning) \in Int
    BY <1>4, <2>1, DecimatedNat, AfterNat
  <2>3. Entry(At).timestamp \in Int
    BY <1>4, EntryType DEF PosInv, IndexInv
  <2> QED
    BY <1>1, <2>1, <2>2, <2>3
<1>9. At \in InRing
  <2>1. At \in At .. since - 1
    BY <1>4
  <2> QED
    BY <1>7, <2>1, FreshStored
<1>10. e >= At
  <2>1. SUFFICES ASSUME e + 1 <= At PROVE FALSE
    BY <1>4
  <2>2. t < Entry(e + 1).timestamp
    BY <1>4, <1>5, <2>1
  <2>3. Entry(e + 1).timestamp <= Entry(At).timestamp
    <3>1. CASE e + 1 = At
        BY <1>8, <3>1
    <3>2. CASE e + 1 < At
        <4>1. e + 1 \in InRing /\ 0 <= e + 1
            BY <1>4, <1>5, <1>6, <2>1 DEF InRing
        <4>2. Entry(e + 1).timestamp < Entry(At).timestamp
            BY <1>9, <3>2, <4>1, Later DEF PosInv
        <4>3. Entry(e + 1).timestamp \in Int
            <5>1. e + 1 \in Int
                OBVIOUS
            <5> QED
                BY <5>1, EntryType DEF PosInv, IndexInv
        <4> QED
            BY <1>8, <4>2, <4>3
    <3> QED
        BY <1>4, <2>1, <3>1, <3>2
  <2>4. Entry(e + 1).timestamp \in Int
    <3>1. e + 1 \in Int
        OBVIOUS
    <3> QED
        BY <3>1, EntryType DEF PosInv, IndexInv
  <2> QED
    BY <1>1, <1>2, <1>8, <2>2, <2>3, <2>4
<1> DEFINE k == e - At
           d == Decimated(o)
           p == SamplesPerBlock
           a == offset' + samples'
<1>11. /\ d \in Nat /\ d < p /\ p \in Nat /\ p > 0 /\ a \in Nat /\ k \in Nat
       /\ SampleCount \in Nat
  <2>1. o \in Nat /\ o < SampleCount
    BY Units
  <2>2. d \in Nat /\ d < p
    BY <2>1, DecimatedInBlock
  <2>3. Decimated(offset) \in Nat
    BY <1>4, DecimatedNat
  <2>4. a \in Nat
    BY <1>1, <2>3
  <2>5. k \in Nat
    BY <1>4, <1>10
  <2> QED
    BY <2>2, <2>4, <2>5, Units
<1>12. a <= k * p + d
  <2> DEFINE x == SampleCount * k + o
  <2>1. RangeSamples(e % MajorBlocks, o) = Decimated(x - offset)
    BY <1>5, <1>10, RangeIs
  <2>2. x \in Int /\ x - offset \in Int
    <3>1. SampleCount * k \in Int
        BY <1>11
    <3> QED
        BY <1>4, <3>1
  <2>3. Decimated(x) <= k * p + d
    <3>1. k \in Int /\ o \in Int
        BY <1>11
    <3> QED
        BY <3>1, DecimatedPlus
  <2> HIDE DEF x
  <2>4. Decimated(offset) + Decimated(x - offset) <= Decimated(x)
    <3>1. offset + (x - offset) = x
        BY <1>4, <2>2
    <3>2. offset \in Int
        BY <1>4
    <3>3. Decimated(offset) + Decimated(x - offset)
            <= Decimated(offset + (x - offset))
        BY <2>2, <3>2, DecimatedSum
    <3> QED
        BY <3>1, <3>3
  <2>5. samples' <= Decimated(x - offset)
    BY <1>1, <1>3, <2>1
  <2>6. /\ Decimated(offset) \in Int /\ Decimated(x - offset) \in Int
        /\ Decimated(x) \in Int /\ k * p \in Int
    <3>1. offset \in Int /\ k * p \in Int
        BY <1>4, <1>11
    <3> QED
        BY <2>2, <3>1, DecimatedBounds
  <2>7. a = Decimated(offset) + samples'
    BY <1>1
  <2> HIDE DEF p, d, a, k
  <2> QED
    BY <1>1, <1>11, <2>3, <2>4, <2>5, <2>6, <2>7
<1> DEFINE j == n - At
<1>13. /\ j \in Nat /\ j * p \in Int /\ k * p \in Int /\ j * p < a
       /\ n \in Int /\ n < completed /\ n >= At
    BY <1>4, <1>11
<1>14. s = Truncated(a - j * p, p) - 1
    OBVIOUS
<1>15. n = At + j /\ e = At + k
    BY <1>4
<1> HIDE DEF j, k, d, p, a
<1>16. j <= k
  <2>1. SUFFICES ASSUME j >= k + 1 PROVE FALSE
    BY <1>11, <1>13
  <2>2. j * p >= (k + 1) * p
    <3>1. \A x, y, z \in Int : z >= 0 /\ x >= y => x * z >= y * z
        OBVIOUS
    <3> QED
        BY <1>11, <1>13, <2>1, <3>1
  <2>3. (k + 1) * p = k * p + p
    <3>1. p * (k + 1) = p * k + p * 1
        BY <1>11, Distribute
    <3> QED
        BY <1>11, <3>1
  <2> QED
    BY <1>11, <1>12, <1>13, <2>2, <2>3
<1>17. s >= 0 /\ s <= p - 1 /\ s <= a - j * p - 1
    BY <1>11, <1>13, <1>14 DEF Truncated
<1>18. CASE j = k
  <2>1. s < d
    BY <1>11, <1>12, <1>13, <1>17, <1>18
  <2>2. s < Decimated(FindOffset(request.end, FALSE))
    BY <1>1, <2>1, Zenon DEF d
  <2>3. n = e
    BY <1>15, <1>18
  <2>4. Entry(e).timestamp + After(s) <= t \/ s < 0
    BY <1>2, <1>3, <1>4, <2>2, EndFound, Zenon DEF PosInv
  <2> QED
    BY <1>17, <2>3, <2>4
<1>19. CASE j < k
  <2>1. n < e /\ n >= 0 /\ n \in InRing /\ n + 1 \in InRing /\ e \in InRing
    BY <1>4, <1>5, <1>6, <1>9, <1>11, <1>13, <1>15, <1>19 DEF InRing
  <2>2. s < SamplesPerBlock
    BY <1>11, <1>17 DEF p
  <2>3. Entry(n).timestamp + After(s) <= Entry(n + 1).timestamp
    BY <2>1, <2>2, AfterBeforeNext DEF PosInv
  <2>4. /\ Entry(n).timestamp \in Int /\ Entry(n + 1).timestamp \in Int
        /\ Entry(e).timestamp \in Int /\ After(s) \in Int
    <3>1. n + 1 \in Int
        BY <1>13
    <3> QED
        BY <1>13, <3>1, EntryType, AfterType DEF PosInv, IndexInv
  <2>5. Entry(n + 1).timestamp <= Entry(e).timestamp
    <3>1. CASE n + 1 = e
        BY <2>4, <3>1
    <3>2. CASE n + 1 < e
        <4>1. 0 <= n + 1
            BY <1>13, <2>1
        <4>2. Entry(n + 1).timestamp < Entry(e).timestamp
            BY <2>1, <3>2, <4>1, Later DEF PosInv
        <4> QED
            BY <2>4, <4>2
    <3> QED
        BY <1>13, <2>1, <3>1, <3>2
  <2>6. Entry(e).timestamp <= t
    <3>1. e # 0
        BY <1>13, <2>1
    <3>2. e # First
        <4>1. First <= n
            BY <1>4, <1>6, <1>13
        <4> QED
            BY <1>6, <1>13, <2>1, <4>1
    <3> QED
        BY <1>5, <3>1, <3>2
  <2> QED
    BY <1>2, <2>3, <2>4, <2>5, <2>6
<1> QED
    BY <1>11, <1>13, <1>16, <1>18, <1>19

\* The block a request is at is one it has to come to, as long as there is
\* something to send.
LEMMA NeededNow ==
    ASSUME PosInv, rpc = "read"
    PROVE  Needed(At)
<1>1. /\ At \in Int /\ samples > 0 /\ samples \in Nat /\ offset \in Nat
      /\ SamplesPerBlock \in Nat
    BY LeftType, Units DEF PosInv, IndexInv, Position, RequestTypes
<1>2. (At - At) * SamplesPerBlock = 0
    BY <1>1
<1> QED
    BY <1>1, <1>2 DEF Needed

LEMMA EndTransfer ==
    ASSUME PosInv, EndInv, transfer_block
    PROVE  EndInv'
<1> SUFFICES ASSUME Serving', ~raced', request'.end # 0,
                    NEW n \in At' .. since' - 1, Needed(n)', Fresh(n)'
             PROVE  Entry(n)'.timestamp + After(LastOf(n))' <= request'.end
    BY DEF EndInv
<1>1. /\ rpc = "read" /\ offset' = 0 /\ Serving
      /\ UNCHANGED <<archive, request, since, raced>>
      /\ samples' \in Nat
      /\ samples' > 0 => samples' = offset + samples - SamplesPerBlock
      /\ Left >= 1 /\ Left' = Left - 1 /\ At' = At + 1
      /\ \A m \in Int : Fresh(m)' <=> Fresh(m)
      /\ samples' > 0 => \A m \in Int : Needed(m)' <=> Needed(m)
    BY Moves
<1>2. /\ At \in Int /\ since \in Nat /\ Left \in Int /\ At + Left = since
      /\ SamplesPerBlock \in Nat /\ offset \in Nat /\ samples \in Nat
    BY LeftType, Units DEF PosInv, IndexInv, RequestTypes
<1>3. n \in Int /\ n \in At .. since - 1 /\ n - At' \in Nat
    BY <1>1, <1>2
<1>4. samples' > 0
  <2>1. SUFFICES ASSUME samples' = 0 PROVE FALSE
    BY <1>1
  <2>2. (n - At') * SamplesPerBlock < 0
    BY <1>1, <2>1 DEF Needed
  <2>3. \A a, b \in Nat : a * b >= 0
    OBVIOUS
  <2> QED
    BY <1>2, <1>3, <2>2, <2>3
<1>5. Needed(n) /\ Fresh(n)
    BY <1>1, <1>3, <1>4
<1>6. Entry(n).timestamp + After(LastOf(n)) <= request.end
    BY <1>1, <1>3, <1>5 DEF EndInv
<1>7. LastOf(n)' = LastOf(n)
  <2>1. /\ SamplesPerBlock * ((n - At) - 1)
            = SamplesPerBlock * (n - At) - SamplesPerBlock * 1
        /\ n - At \in Int /\ n - At' = (n - At) - 1
    BY <1>1, <1>2, <1>3, Distribute
  <2>2. /\ (n - At') * SamplesPerBlock
            = (n - At) * SamplesPerBlock - SamplesPerBlock
        /\ (n - At) * SamplesPerBlock \in Int
    BY <1>2, <2>1
  <2>3. (offset' + samples') - (n - At') * SamplesPerBlock
            = (offset + samples) - (n - At) * SamplesPerBlock
    BY <1>1, <1>2, <1>4, <2>2
  <2> QED
    BY <2>3 DEF LastOf
<1>8. After(LastOf(n))' = After(LastOf(n))
    BY <1>7 DEF After
<1>9. Entry(n)' = Entry(n)
    BY <1>1 DEF Entry, archive
<1> QED
    BY <1>1, <1>6, <1>8, <1>9

LEMMA EndStep ==
    ASSUME PosInv, SkipLeavesBlocks, NoAllData, SmallOverlaps, StartInv, EndInv,
           [Next]_vars
    PROVE  EndInv'
<1> SUFFICES ASSUME Serving', ~raced', request'.end # 0,
                    rpc' \in {"check", "find", "stamp", "read"},
                    NEW n \in At' .. since' - 1, Needed(n)', Fresh(n)'
             PROVE  Entry(n)'.timestamp + After(LastOf(n))' <= request'.end
    BY DEF EndInv
<1>1. At \in Int /\ since \in Nat
    BY LeftType DEF PosInv, IndexInv
<1>2. CASE AdvanceIndex /\ UNCHANGED <<rpc, locals, gapcheck, output>>
  <2>1. /\ Serving /\ At' = At /\ since' = since
        /\ \A m \in Int : Fresh(m)' => Fresh(m)
        /\ \A m \in At .. since - 1 : Fresh(m)' => index'[m % MajorBlocks] = Entry(m)
        /\ rpc' = rpc /\ request' = request /\ raced' = raced
        /\ offset' = offset /\ samples' = samples
    BY <1>2, ArchiveStep DEF locals, output
  <2>2. n \in At .. since - 1 /\ n \in Int
    BY <1>1, <2>1
  <2>3. Needed(n) /\ Fresh(n) /\ LastOf(n)' = LastOf(n)
    BY <2>1, <2>2 DEF Needed, LastOf
  <2>4. Entry(n).timestamp + After(LastOf(n)) <= request.end
    BY <2>1, <2>2, <2>3 DEF EndInv
  <2>5. index'[n % MajorBlocks] = Entry(n)
    BY <2>1, <2>2
  <2>6. After(LastOf(n))' = After(LastOf(n))
    BY <2>3 DEF After
  <2> QED
    BY <2>1, <2>4, <2>5, <2>6 DEF Entry
<1>3. CASE Begin
  <2>1. PICK start \in Times, end \in Int, options \in Options :
            timestamp_to_start(start, end, options)
    BY <1>3, BeginCases DEF PosInv, IndexInv
  <2>2. /\ request' = [start |-> start, end |-> end, options |-> options]
        /\ end = 0 \/ rpc' = "end"
    BY <2>1, Begins
  <2> QED
    BY <2>2
<1>4. CASE timestamp_to_end
  <2>1. /\ UNCHANGED <<archive, request, block, sent, since>>
        /\ samples' \in Nat /\ offset' = Decimated(offset)
        /\ raced' = (completed # since)
    BY <1>4, Ends
  <2>2. Serving
    BY <1>4, <2>1 DEF timestamp_to_end, Serving
  <2>3. completed = since
    BY <2>1
  <2>4. At' = At /\ since' = since
    BY <2>1 DEF At, Left
  <2>5. n \in At .. since - 1 /\ n \in Int
    BY <1>1, <2>4
  <2>6. (n - At) * SamplesPerBlock < offset' + samples'
    BY <2>4 DEF Needed
  <2> DEFINE s == Truncated((offset' + samples') - (n - At) * SamplesPerBlock,
                            SamplesPerBlock) - 1
  <2>7. s \in Int
    <3>1. offset' \in Nat
        BY <2>1, DecimatedNat DEF PosInv, RequestTypes
    <3>2. (n - At) * SamplesPerBlock \in Int /\ SamplesPerBlock \in Int
        BY <1>1, <2>5, Units
    <3> QED
        BY <2>1, <3>1, <3>2 DEF Truncated
  <2>8. Entry(n).timestamp + After(s) <= request.end
    BY <1>4, <2>2, <2>3, <2>5, <2>6, <2>7, EndsInRange
  <2>9. LastOf(n)' = s
    <3>1. LastOf(n)' = Truncated((offset' + samples')
                                    - (n - At') * SamplesPerBlock,
                                 SamplesPerBlock) - 1
        BY DEF LastOf
    <3> QED
        BY <2>4, <3>1
  <2>10. After(LastOf(n))' = After(s)
    BY <2>9 DEF After
  <2>11. Entry(n)' = Entry(n)
    BY <2>1 DEF Entry, archive
  <2> QED
    BY <2>1, <2>8, <2>10, <2>11
<1>5. CASE /\ UNCHANGED <<archive, locals, sent, since, raced>>
           /\ rpc \in {"check", "find", "stamp", "read"}
  <2>1. /\ Serving /\ At' = At /\ since' = since /\ request' = request
        /\ offset' = offset /\ samples' = samples /\ index' = index
        /\ completed' = completed /\ sent' = sent /\ raced' = raced
    BY <1>5 DEF Serving, At, Left, locals, archive
  <2>2. Needed(n) /\ Fresh(n) /\ LastOf(n)' = LastOf(n) /\ Entry(n)' = Entry(n)
    BY <2>1 DEF Needed, Fresh, LastOf, Entry
  <2>3. After(LastOf(n))' = After(LastOf(n))
    BY <2>2 DEF After
  <2>4. Entry(n).timestamp + After(LastOf(n)) <= request.end
    BY <1>5, <2>1, <2>2 DEF EndInv
  <2> QED
    BY <2>1, <2>2, <2>3, <2>4
<1>6. CASE check_run \/ find_gap \/ send_extended_timestamp
    BY <1>5, <1>6 DEF check_run, find_gap, send_extended_timestamp, Idle, output
<1>7. CASE transfer_block
  <2>1. EndInv'
    BY <1>7, EndTransfer
  <2> QED
    BY <2>1 DEF EndInv
<1>8. CASE TransferFails
    BY <1>8 DEF TransferFails, Idle
<1>9. CASE UNCHANGED vars
    BY <1>5, <1>9 DEF vars, output
<1> QED
    BY <1>2, <1>3, <1>4, <1>6, <1>7, <1>8, <1>9 DEF Next, RequestNext

LEMMA BeyondStep ==
    ASSUME PosInv, SkipLeavesBlocks, StampInv, EndInv,
           NothingBeyondEndUnlessRaced, [Next]_vars
    PROVE  NothingBeyondEndUnlessRaced'
<1>1. CASE transfer_block
  <2>1. /\ UNCHANGED <<since, stamp, request, raced>>
        /\ sent' = Append(sent, NextPiece) /\ rpc = "read"
        /\ offset + NextPiece.count = Truncated(offset + samples, SamplesPerBlock)
    BY <1>1, Moves
  <2>2. sent \in Seq(Piece) /\ Len(sent) \in Nat
    BY DEF PosInv, RequestTypes
  <2> SUFFICES ASSUME ~raced, request.end # 0, NEW k \in DOMAIN sent', Kept(k)'
               PROVE  LastTime(k)' <= request.end
    BY <2>1 DEF NothingBeyondEndUnlessRaced, NothingBeyondEnd
  <2>3. k \in 1 .. Len(sent) \/ k = Len(sent) + 1
    BY <2>1, <2>2
  <2>4. CASE k \in 1 .. Len(sent)
    <3>1. sent'[k] = sent[k] /\ k \in DOMAIN sent
        BY <2>1, <2>2, <2>4
    <3>2. Kept(k)
        BY <2>1, <3>1 DEF Kept
    <3>3. LastTime(k) <= request.end
        BY <3>1, <3>2 DEF NothingBeyondEndUnlessRaced, NothingBeyondEnd
    <3> QED
        BY <3>1, <3>3 DEF LastTime, After
  <2>5. CASE k = Len(sent) + 1
    <3>1. k \in Nat
        BY <2>2, <2>5
    <3>2. /\ Serving /\ Fresh(At) /\ sent'[k] = NextPiece
          /\ At \in At .. since - 1
        BY <1>1, <2>5, <3>1, KeptIsFresh
    <3>3. stamp = Entry(At).timestamp
        BY <2>1, <3>2 DEF StampInv
    <3>4. Entry(At).timestamp + After(LastOf(At)) <= request.end
        BY <2>1, <3>2, NeededNow DEF EndInv
    <3>5. LastOf(At) = offset + NextPiece.count - 1
        <4> DEFINE z == (At - At) * SamplesPerBlock
                   a == offset + samples
        <4>1. z = 0 /\ a \in Int
            <5>1. At \in Int /\ offset \in Nat /\ samples \in Nat
                BY LeftType DEF PosInv, IndexInv, RequestTypes
            <5> QED
                BY <5>1, Units
        <4>2. LastOf(At) = Truncated(a - z, SamplesPerBlock) - 1
            BY Zenon DEF LastOf, z, a
        <4>3. offset + NextPiece.count = Truncated(a, SamplesPerBlock)
            BY <2>1
        <4>4. NextPiece.count \in Int /\ offset \in Int
            BY <1>1, Moves DEF Piece, PosInv, RequestTypes
        <4> HIDE DEF z, a
        <4>5. a - z = a
            BY <4>1
        <4>6. LastOf(At) = (offset + NextPiece.count) - 1
            BY <4>2, <4>3, <4>5
        <4> QED
            BY <4>4, <4>6
    <3>6. LastTime(k)' = stamp + After(offset + NextPiece.count - 1)
        BY <3>2 DEF LastTime, After, NextPiece
    <3> QED
        BY <3>3, <3>4, <3>5, <3>6
  <2> QED
    BY <2>3, <2>4, <2>5
<1>2. CASE sent' = <<>>
    BY <1>2 DEF NothingBeyondEndUnlessRaced, NothingBeyondEnd
<1>3. CASE UNCHANGED <<sent, since, request, raced>>
    BY <1>3 DEF NothingBeyondEndUnlessRaced, NothingBeyondEnd, Kept, LastTime,
        After
<1> QED
    BY <1>1, <1>2, <1>3, SentChanges

-----------------------------------------------------------------------------
(* The theorems. *)

\* The index holds the last MajorBlocks blocks completed, each where the ring
\* puts it, and their timestamps grow.
THEOREM IndexInvariance == Spec => []IndexInv
<1>1. Init => IndexInv
    BY IndexInit DEF Init
<1>2. IndexInv /\ [Next]_vars => IndexInv'
  <2> SUFFICES ASSUME IndexInv, [Next]_vars PROVE IndexInv'
    OBVIOUS
  <2>1. CASE AdvanceIndex
    BY <2>1, IndexStep
  <2>2. CASE UNCHANGED archive
    BY <2>2, IndexStutter
  <2>3. AdvanceIndex \/ UNCHANGED archive
    <3>1. CASE Begin
        BY <3>1, Zenon DEF Begin, timestamp_to_start
    <3> QED
        BY <3>1 DEF Next, RequestNext, vars, timestamp_to_end, check_run,
            find_gap, send_extended_timestamp, transfer_block, TransferFails
  <2> QED
    BY <2>1, <2>2, <2>3
<1> QED
    BY <1>1, <1>2, PTL DEF Spec

\* binary_search keeps the promise of its comment for every time and after
\* every block, whatever the number of blocks, as long as what INDEX_SKIP
\* leaves to search is more than the current block.
THEOREM LookupIsCorrect ==
    ASSUME SkipLeavesBlocks
    PROVE  Spec => []LookupFindsBlock
<1>1. IndexInv => LookupFindsBlock
    BY SearchIsCorrect DEF LookupFindsBlock
<1> QED
    BY <1>1, IndexInvariance, PTL

\* The inductive invariant of a request.
ReadInv == PosInv /\ StampInv /\ StartInv /\ GapInv

\* A request keeps to the blocks that were there when it began, and what it
\* relies on of those it has yet to come to stays true until it gets there,
\* unless the archive has overtaken it.
THEOREM ReadInvariance ==
    ASSUME SkipLeavesBlocks
    PROVE  Spec => []ReadInv
<1>1. Init => ReadInv
    BY PosInit DEF ReadInv, Init, StampInv, StartInv, GapInv, Serving
<1>2. ReadInv /\ [Next]_vars => ReadInv'
    BY PosNext, StampStep, StartStep, GapStep DEF ReadInv
<1> QED
    BY <1>1, <1>2, PTL DEF Spec

\* Read without a lock, index and file agree, and no piece comes from the
\* current block, as long as the transfer keeps ahead of the archive.
THEOREM StampsAreRight ==
    ASSUME SkipLeavesBlocks
    PROVE  Spec => []StampsMatchData
<1>1. Init => StampsMatchData
    BY DEF Init, StampsMatchData
<1>2. ReadInv /\ StampsMatchData /\ [Next]_vars => StampsMatchData'
    BY StampsStep DEF ReadInv
<1> QED
    BY <1>1, <1>2, ReadInvariance, PTL DEF Spec

\* The first sample sent is no later than the start asked for, wherever in the
\* ring it lies, unless the request takes what there is.
THEOREM StartIsSent ==
    ASSUME SkipLeavesBlocks
    PROVE  Spec => []NothingMissingAtStart
<1>1. Init => NothingMissingAtStart
    BY DEF Init, NothingMissingAtStart
<1>2. ReadInv /\ NothingMissingAtStart /\ [Next]_vars => NothingMissingAtStart'
    BY MissingStep DEF ReadInv
<1> QED
    BY <1>1, <1>2, ReadInvariance, PTL DEF Spec

\* What find_gap lets through is contiguous when it is sent, although the index
\* may change after it was looked at.
THEOREM RunIsContiguous ==
    ASSUME SkipLeavesBlocks
    PROVE  Spec => []SentIsContiguous
<1>1. Init => SentIsContiguous
    BY DEF Init, SentIsContiguous
<1>2. ReadInv /\ SentIsContiguous /\ [Next]_vars => SentIsContiguous'
    BY ContiguousStep DEF ReadInv
<1> QED
    BY <1>1, <1>2, ReadInvariance, PTL DEF Spec

\* Nothing is sent from after the end asked for, if no block was completed
\* between the two lookups, blocks overlap by no more than a sample, and the
\* request does not take what there is.
THEOREM EndIsKept ==
    ASSUME SkipLeavesBlocks, NoAllData, SmallOverlaps
    PROVE  Spec => []NothingBeyondEndUnlessRaced
<1>1. Init => EndInv /\ NothingBeyondEndUnlessRaced
    BY DEF Init, EndInv, Serving, NothingBeyondEndUnlessRaced, NothingBeyondEnd
<1>2. ReadInv /\ EndInv /\ NothingBeyondEndUnlessRaced /\ [Next]_vars
        => EndInv' /\ NothingBeyondEndUnlessRaced'
    BY EndStep, BeyondStep DEF ReadInv
<1> QED
    BY <1>1, <1>2, ReadInvariance, PTL DEF Spec

=============================================================================
