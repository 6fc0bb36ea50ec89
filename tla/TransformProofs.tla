--------------------------- MODULE TransformProofs ---------------------------
(***************************************************************************)
(* Proofs about Transform and Layout: what a reader finds in a block that  *)
(* the index calls valid, for archives of any accepted layout, and that    *)
(* the times fitted to a block show where input blocks are missing.        *)
(***************************************************************************)
EXTENDS Transform, WellFoundedInduction, FiniteSetTheorems, TLAPS

-----------------------------------------------------------------------------
(* Arithmetic. *)

\* Every set of numbers has a least one.
LEMMA LeastNumber ==
    ASSUME NEW S, S \subseteq Nat, S # {}
    PROVE  \E n \in S : \A m \in S : n <= m
<1> DEFINE less == OpToRel(<, Nat)
<1>1. IsWellFoundedOn(less, Nat)
    BY NatLessThanWellFounded
<1>2. \A x \in Nat, y \in Nat : y < x => <<y, x>> \in less
    BY DEF OpToRel
<1> HIDE DEF less
<1>3. PICK x \in S : \A y \in S : ~(<<y, x>> \in less)
    BY <1>1, WFMin
<1>4. ASSUME NEW y \in S PROVE x <= y
  <2>1. x \in Nat /\ y \in Nat
    OBVIOUS
  <2>2. ~(y < x)
    BY <1>2, <1>3, <2>1, Zenon
  <2> QED
    BY <2>1, <2>2
<1> QED
    BY <1>4

\* Induction, over a set instead of a predicate.
LEMMA SetInduction ==
    ASSUME NEW S, 0 \in S, \A n \in Nat : n \in S => n + 1 \in S
    PROVE  \A n \in Nat : n \in S
<1> SUFFICES ASSUME NEW k \in Nat, k \notin S PROVE FALSE
    OBVIOUS
<1> DEFINE rest == {n \in Nat : n \notin S}
<1>1. PICK n \in rest : \A m \in rest : n <= m
    BY LeastNumber
<1>2. n # 0 /\ n - 1 \in Nat
    OBVIOUS
<1>3. n - 1 \in S
    BY <1>1, <1>2
<1> QED
    BY <1>2, <1>3

LEMMA Products ==
    \A a, b \in Nat : a * b \in Nat /\ (a > 0 /\ b > 0 => a * b > 0)
    OBVIOUS

\* Cell s of row i, in rows of n cells, is in nobody else's place.
LEMMA RowByRow ==
    ASSUME NEW n \in Nat, NEW i \in Nat, NEW j \in Nat,
           NEW s \in 0 .. n - 1, NEW t \in 0 .. n - 1, i * n + s = j * n + t
    PROVE  i = j /\ s = t
<1>1. n > 0 /\ s \in Nat /\ t \in Nat /\ s < n /\ t < n
    OBVIOUS
<1>2. \A x, y, z \in Nat : z < y => (x * y + z) \div y = x
    OBVIOUS
<1>3. (i * n + s) \div n = i /\ (j * n + t) \div n = j
    BY <1>1, <1>2
<1>4. i = j
    BY <1>3
<1> QED
    BY <1>1, <1>4, Products

LEMMA RowInTable ==
    ASSUME NEW n \in Nat, NEW c \in Nat, NEW i \in 0 .. c - 1, NEW s \in 0 .. n - 1
    PROVE  i * n + s \in 0 .. (c * n) - 1
<1>1. i + 1 <= c /\ i \in Nat
    OBVIOUS
<1>2. \A x, y, z \in Nat : x <= y => x * z <= y * z
    OBVIOUS
<1>3. (i + 1) * n <= c * n
    BY <1>1, <1>2
<1>4. (i + 1) * n = i * n + n
    BY <1>1
<1>5. i * n \in Nat /\ c * n \in Nat
    BY <1>1, Products
<1> DEFINE p == i * n
           q == c * n
           r == (i + 1) * n
<1> HIDE DEF p, q, r
<1>6. p \in Nat /\ q \in Nat /\ r <= q /\ r = p + n
    BY <1>3, <1>4, <1>5 DEF p, q, r
<1>7. p + s \in 0 .. q - 1
    BY <1>6
<1> QED
    BY <1>7 DEF p, q

-----------------------------------------------------------------------------
(* The layout. *)

LEMMA Units ==
    /\ PageSize \in Nat /\ PageSize > 0 /\ Word \in Nat /\ Word > 0
    /\ \A n \in Int : u32(n) \in Nat
<1>1. PageSize \in Nat /\ PageSize > 0 /\ Word \in Nat /\ Word > 0
    BY LayoutAssumption
<1>2. \A n \in Int, w \in Nat : w > 0 => n % w \in Nat
    OBVIOUS
<1> QED
    BY <1>1, <1>2 DEF u32

\* The recursion of Reduced is well-founded, and counts down to the first that
\* fits, or to none.
LEMMA CountsDown ==
    ASSUME NEW S
    PROVE  /\ \E f : f = [n \in Nat |-> IF n = 0 \/ n \in S THEN n ELSE f[n - 1]]
           /\ \A f : f = [n \in Nat |-> IF n = 0 \/ n \in S THEN n ELSE f[n - 1]]
                => \A n \in Nat : f[n] \in Nat /\ f[n] <= n
<1> DEFINE back(n) == {k \in Nat : k <= n /\ (n - k = 0 \/ n - k \in S)}
           least(n) == CHOOSE k \in back(n) : \A m \in back(n) : k <= m
           f == [n \in Nat |-> n - least(n)]
<1>1. ASSUME NEW n \in Nat
      PROVE  /\ least(n) \in Nat /\ least(n) <= n
             /\ n - least(n) = 0 \/ n - least(n) \in S
             /\ \A m \in back(n) : least(n) <= m
  <2>1. n \in back(n) /\ back(n) \subseteq Nat
      OBVIOUS
  <2>2. \E k \in back(n) : \A m \in back(n) : k <= m
      BY <2>1, LeastNumber
  <2>3. least(n) \in back(n) /\ \A m \in back(n) : least(n) <= m
      BY <2>2
  <2> QED
      BY <2>3
<1>2. ASSUME NEW n \in Nat
      PROVE  f[n] = IF n = 0 \/ n \in S THEN n ELSE f[n - 1]
  <2>1. CASE n = 0 \/ n \in S
    <3>1. 0 \in back(n)
        BY <2>1
    <3>2. least(n) = 0
        BY <1>1, <3>1
    <3> HIDE DEF least, back
    <3> QED
        BY <2>1, <3>2
  <2>2. CASE ~(n = 0 \/ n \in S)
    <3>1. n - 1 \in Nat
        BY <2>2
    <3>2. least(n) # 0
        BY <1>1, <2>2
    <3> DEFINE a == least(n)
               b == least(n - 1)
    <3>3. a \in Nat /\ a <= n /\ (n - a = 0 \/ n - a \in S)
        BY <1>1
    <3>4. b \in Nat /\ b <= n - 1 /\ (n - 1 - b = 0 \/ n - 1 - b \in S)
        BY <1>1, <3>1
    <3>5. \A k \in Nat : k <= n /\ (n - k = 0 \/ n - k \in S) => a <= k
        BY <1>1
    <3>6. \A k \in Nat : k <= n - 1 /\ (n - 1 - k = 0 \/ n - 1 - k \in S) => b <= k
        BY <1>1, <3>1
    <3>7. a # 0
        BY <3>2
    <3> HIDE DEF a, b, least, back
    <3>8. a <= b + 1
      <4>1. b + 1 \in Nat /\ b + 1 <= n /\ n - (b + 1) = n - 1 - b
          BY <3>4
      <4> QED
          BY <3>4, <3>5, <4>1
    <3>9. b <= a - 1
      <4>1. a - 1 \in Nat /\ a - 1 <= n - 1 /\ n - 1 - (a - 1) = n - a
          BY <3>3, <3>7
      <4> QED
          BY <3>3, <3>6, <4>1
    <3>10. a = b + 1
        BY <3>3, <3>4, <3>8, <3>9
    <3>11. f[n] = n - a /\ f[n - 1] = n - 1 - b
        BY <3>1 DEF a, b
    <3> HIDE DEF f
    <3> QED
        BY <2>2, <3>3, <3>4, <3>10, <3>11
  <2> QED
      BY <2>1, <2>2
<1>3. f = [n \in Nat |-> IF n = 0 \/ n \in S THEN n ELSE f[n - 1]]
  <2>1. f = [n \in Nat |-> f[n]]
      OBVIOUS
  <2> HIDE DEF f
  <2> QED
      BY <1>2, <2>1
<1>4. ASSUME NEW g, g = [n \in Nat |-> IF n = 0 \/ n \in S THEN n ELSE g[n - 1]]
      PROVE  \A n \in Nat : g[n] \in Nat /\ g[n] <= n
  <2>1. \A n \in Nat : g[n] = IF n = 0 \/ n \in S THEN n ELSE g[n - 1]
      BY <1>4
  <2> DEFINE T == {n \in Nat : g[n] \in Nat /\ g[n] <= n}
  <2>2. 0 \in T
      BY <2>1
  <2>3. ASSUME NEW n \in Nat, n \in T PROVE n + 1 \in T
    <3>1. n + 1 \in Nat /\ (n + 1) - 1 = n
        OBVIOUS
    <3>2. g[n + 1] = IF n + 1 \in S THEN n + 1 ELSE g[n]
        BY <2>1, <3>1
    <3> QED
        BY <2>3, <3>2
  <2>4. \A n \in Nat : n \in T
      BY <2>2, <2>3, SetInduction
  <2> QED
      BY <2>4
<1> HIDE DEF f
<1> QED
    BY <1>3, <1>4

\* The count of major blocks is a number: the recursion starts from one.
LEMMA ReducedIsNumber ==
    ASSUME NEW p, p.file_size \in Nat, p.file_size >= PageSize,
           NEW block \in Nat, NEW dd_block \in Nat,
           UnitSize(block, dd_block) > 0
    PROVE  Reduced(p, block, dd_block) \in Nat
<1> DEFINE Sum(n, dd) == u32(round_to_page(n * IndexEntry)) + round_to_page(dd)
                          + u32(n * block)
           fits(n, dd) == Sum(n, dd) <= p.file_size - PageSize
           S == {n \in Nat : fits(n, u32(n * dd_block))}
           first == Estimate(p, block, dd_block)
           reduce == CHOOSE f : f = [n \in Nat |->
                        IF n = 0 \/ fits(n, u32(n * dd_block)) THEN n ELSE f[n - 1]]
<1>1. Reduced(p, block, dd_block)
        = IF fits(first, first * dd_block) THEN first ELSE reduce[first - 1]
    BY DEF Reduced
<1>2. first \in Nat
  <2>1. p.file_size - PageSize \in Nat
      BY Units
  <2>2. UnitSize(block, dd_block) \in Nat /\ UnitSize(block, dd_block) > 0
    <3>1. IndexEntry + dd_block + block \in Int
        BY DEF IndexEntry
    <3> QED
        BY <3>1, Units DEF UnitSize
  <2>3. \A a, b \in Nat : b > 0 => a \div b \in Nat
      OBVIOUS
  <2> QED
      BY <2>1, <2>2, <2>3 DEF Estimate
<1>3. first = 0 => fits(first, first * dd_block)
  <2>1. ASSUME first = 0 PROVE Sum(first, first * dd_block) = 0
    <3>1. round_to_page(0) = 0
      <4>1. \A g \in Nat : g > 0 => (0 + g - 1) \div g = 0 /\ g * 0 = 0
          OBVIOUS
      <4> QED
          BY <4>1, Units DEF round_to_page
    <3>2. u32(0) = 0
      <4>1. \A w \in Nat : w > 0 => 0 % w = 0
          OBVIOUS
      <4> QED
          BY <4>1, Units DEF u32
    <3>3. 0 * dd_block = 0 /\ 0 * block = 0 /\ 0 * IndexEntry = 0
        BY DEF IndexEntry
    <3> QED
        BY <2>1, <3>1, <3>2, <3>3
  <2>2. p.file_size - PageSize >= 0
      BY Units
  <2> HIDE DEF first
  <2> QED
      BY <2>1, <2>2
<1>4. \A n \in Nat : reduce[n] \in Nat
  <2> DEFINE R(f) == [n \in Nat |-> IF n = 0 \/ n \in S THEN n ELSE f[n - 1]]
  <2>1. /\ \E f : f = R(f)
        /\ \A f : f = R(f) => \A n \in Nat : f[n] \in Nat /\ f[n] <= n
      BY CountsDown
  <2>2. reduce = CHOOSE f : f = R(f)
    <3>1. \A n \in Nat : n \in S <=> fits(n, u32(n * dd_block))
        OBVIOUS
    <3> HIDE DEF fits, S
    <3>2. \A f : R(f) = [n \in Nat |->
                    IF n = 0 \/ fits(n, u32(n * dd_block)) THEN n ELSE f[n - 1]]
        BY <3>1
    <3> QED
        BY <3>2
  <2> HIDE DEF reduce, R
  <2>3. reduce = R(reduce)
      BY <2>1, <2>2
  <2> QED
      BY <2>1, <2>3
<1> HIDE DEF reduce, fits, first
<1>5. first # 0 => first - 1 \in Nat
    BY <1>2
<1> QED
    BY <1>1, <1>2, <1>3, <1>4, <1>5

\* What the rest needs of an accepted header hd.
HeaderTypes(hd) ==
    /\ hd.archive_mask_count \in Nat /\ hd.archive_mask_count > 0
    /\ hd.major_sample_count \in Nat /\ hd.major_sample_count > 1
    /\ hd.input_sample_count \in Nat /\ hd.input_sample_count > 0
    /\ hd.major_block_count \in Nat /\ hd.major_block_count > 1
    /\ hd.d_sample_count \in Nat /\ hd.dd_sample_count \in Nat
    /\ 2 ^ hd.first_decimation_log2 \in Nat /\ 2 ^ hd.first_decimation_log2 > 0
    /\ 2 ^ hd.second_decimation_log2 \in Nat /\ 2 ^ hd.second_decimation_log2 > 0

HeaderSizes(hd) ==
    /\ hd.major_sample_count % hd.input_sample_count = 0
    /\ hd.d_sample_count * 2 ^ hd.first_decimation_log2 = hd.major_sample_count
    /\ hd.dd_sample_count * 2 ^ hd.second_decimation_log2 = hd.d_sample_count
    /\ BlockSize(hd.archive_mask_count, hd.major_sample_count, hd.d_sample_count)
            = hd.major_block_size
    /\ hd.dd_sample_count * hd.major_block_count = hd.dd_total_count

LEMMA AcceptedHeader ==
    ASSUME NEW p \in Params, Accepted(p)
    PROVE  HeaderTypes(initialise_header(p)) /\ HeaderSizes(initialise_header(p))
<1> DEFINE hd == initialise_header(p)
           d == p.samples \div 2 ^ p.first_log2
           dd == d \div 2 ^ p.second_log2
           block == u32(BlockSize(p.ids, p.samples, d))
           dd_block == u32(dd * p.ids * DecimatedEntry)
           count == Reduced(p, block, dd_block)
<1>1. /\ p.ids \in Nat /\ p.samples \in Nat /\ p.input \in Nat \ {0}
      /\ p.file_size \in Nat /\ p.file_size >= PageSize
    BY TransformAssumption
<1> DEFINE D1 == 2 ^ p.first_log2
           D2 == 2 ^ p.second_log2
<1>2. D1 \in Nat /\ D1 > 0 /\ D2 \in Nat /\ D2 > 0
  <2>1. D1 \in Nat \ {0} /\ D2 \in Nat \ {0}
      BY TransformAssumption
  <2> HIDE DEF D1, D2
  <2> QED
      BY <2>1
<1>3. d \in Nat /\ dd \in Nat
  <2>1. \A a, b \in Nat : b > 0 => a \div b \in Nat
      OBVIOUS
  <2>2. d = p.samples \div D1 /\ dd = d \div D2
      OBVIOUS
  <2> HIDE DEF D1, D2, d, dd
  <2> QED
      BY <1>1, <1>2, <2>1, <2>2
<1>4. block \in Nat /\ dd_block \in Nat
  <2> HIDE DEF d, dd
  <2>1. BlockSize(p.ids, p.samples, d) \in Int
    <3>1. p.samples + d * DecimatedEntry \in Nat
        BY <1>1, <1>3 DEF DecimatedEntry
    <3> QED
        BY <1>1, <3>1, Products DEF BlockSize
  <2>2. dd * p.ids * DecimatedEntry \in Int
    <3>1. dd * p.ids \in Nat
        BY <1>1, <1>3, Products
    <3> QED
        BY <3>1 DEF DecimatedEntry
  <2> QED
      BY <2>1, <2>2, Units
<1>5. count \in Nat
  <2>1. UnitSize(block, dd_block) > 0
      BY DEF Accepted, Divides
  <2> HIDE DEF block, dd_block
  <2> QED
      BY <1>1, <1>4, <2>1, ReducedIsNumber
<1>6. /\ hd.archive_mask_count = p.ids /\ hd.major_sample_count = p.samples
      /\ hd.input_sample_count = p.input /\ hd.major_block_count = count
      /\ hd.d_sample_count = d /\ hd.dd_sample_count = dd
      /\ hd.first_decimation_log2 = p.first_log2
      /\ hd.second_decimation_log2 = p.second_log2
    BY DEF initialise_header
<1> HIDE DEF hd, d, dd, block, dd_block, count
<1>7. validate_header(hd, p.file_size)
    BY DEF Accepted, hd
<1>8. HeaderSizes(hd)
    BY <1>7 DEF validate_header, HeaderSizes
<1>9. hd.archive_mask_count > 0 /\ hd.major_sample_count > 1 /\ hd.major_block_count > 1
    BY <1>7 DEF validate_header
<1>10. HeaderTypes(hd)
  <2>1. /\ 2 ^ hd.first_decimation_log2 = D1 /\ 2 ^ hd.second_decimation_log2 = D2
      BY <1>6
  <2> HIDE DEF D1, D2
  <2> QED
      BY <1>1, <1>2, <1>3, <1>5, <1>6, <1>9, <2>1 DEF HeaderTypes
<1> QED
    BY <1>8, <1>10 DEF hd

-----------------------------------------------------------------------------
(* Memory. *)

LEMMA Stored ==
    ASSUME NEW memory, NEW cells, NEW c \in cells, c[1] \in DOMAIN memory,
           \A e \in cells : e[1] = c[1] => e[2] = c[2]
    PROVE  Store(memory, cells)[c[1]] = c[2]
<1> DEFINE e == CHOOSE e \in cells : e[1] = c[1]
<1>1. e \in cells /\ e[1] = c[1]
    OBVIOUS
<1> HIDE DEF e
<1>2. e[2] = c[2]
    BY <1>1
<1>3. Store(memory, cells)[c[1]] = e[2]
    BY DEF Store, e
<1> QED
    BY <1>2, <1>3

LEMMA NotStored ==
    ASSUME NEW memory, NEW cells, NEW a \in DOMAIN memory,
           \A e \in cells : e[1] # a
    PROVE  Store(memory, cells)[a] = memory[a]
    BY DEF Store

LEMMA StoreDomain ==
    ASSUME NEW memory, NEW cells
    PROVE  DOMAIN Store(memory, cells) = DOMAIN memory
    BY DEF Store

\* The three areas of data, each a table with a row for every column.
HeaderOK == HeaderTypes(header) /\ HeaderSizes(header)

LEMMA Types ==
    ASSUME HeaderOK
    PROVE  /\ h.archive_mask_count \in Nat /\ h.archive_mask_count > 0
           /\ h.major_sample_count \in Nat /\ h.major_sample_count > 1
           /\ h.input_sample_count \in Nat /\ h.input_sample_count > 0
           /\ h.major_block_count \in Nat /\ h.major_block_count > 1
           /\ h.d_sample_count \in Nat /\ h.dd_sample_count \in Nat
           /\ Decimation1 \in Nat /\ Decimation1 > 0
           /\ Decimation \in Nat /\ Decimation > 0
           /\ h.d_sample_count * Decimation1 = h.major_sample_count
           /\ h.major_sample_count % h.input_sample_count = 0
           /\ h.dd_sample_count * h.major_block_count = h.dd_total_count
           /\ h.dd_total_count \in Nat
<1> DEFINE D1 == 2 ^ h.first_decimation_log2
           D2 == 2 ^ h.second_decimation_log2
<1>1. /\ D1 \in Nat /\ D1 > 0 /\ D2 \in Nat /\ D2 > 0
      /\ h.d_sample_count * D1 = h.major_sample_count
    BY DEF HeaderOK, HeaderTypes, HeaderSizes, h
<1>2. Decimation1 = D1 /\ Decimation = D1 * D2
    BY DEF Decimation, Decimation1
<1> HIDE DEF D1, D2
<1>3. D1 * D2 \in Nat /\ D1 * D2 > 0
    BY <1>1, Products
<1>4. /\ h.archive_mask_count \in Nat /\ h.archive_mask_count > 0
      /\ h.major_sample_count \in Nat /\ h.major_sample_count > 1
      /\ h.input_sample_count \in Nat /\ h.input_sample_count > 0
      /\ h.major_block_count \in Nat /\ h.major_block_count > 1
      /\ h.d_sample_count \in Nat /\ h.dd_sample_count \in Nat
      /\ h.major_sample_count % h.input_sample_count = 0
      /\ h.dd_sample_count * h.major_block_count = h.dd_total_count
    BY DEF HeaderOK, HeaderTypes, HeaderSizes, h
<1>5. h.dd_total_count \in Nat
    BY <1>4, Products
<1> QED
    BY <1>1, <1>2, <1>3, <1>4, <1>5

\* Samples have addresses of their own, below those of decimated samples.
LEMMA FaAddress ==
    ASSUME HeaderOK, NEW i \in Columns, NEW s \in 0 .. h.major_sample_count - 1
    PROVE  /\ fa_data_offset(h, s, i) \in 0 .. h.major_block_size - 1
           /\ fa_data_offset(h, s, i) < h.major_sample_count * h.archive_mask_count
           /\ \A j \in Columns, t \in 0 .. h.major_sample_count - 1 :
                fa_data_offset(h, t, j) = fa_data_offset(h, s, i) => j = i /\ t = s
<1> DEFINE n == h.major_sample_count
           c == h.archive_mask_count
           d == h.d_sample_count
<1>1. /\ n \in Nat /\ c \in Nat /\ d \in Nat /\ i \in 0 .. c - 1 /\ s \in 0 .. n - 1
      /\ Columns = 0 .. c - 1
    BY Types DEF Columns
<1>2. fa_data_offset(h, s, i) = i * n + s
    BY DEF fa_data_offset
<1>3. h.major_block_size = c * (n + d * 4)
    BY DEF HeaderOK, HeaderSizes, BlockSize, DecimatedEntry, h
<1>4. \A j \in Columns, t \in 0 .. n - 1 :
        fa_data_offset(h, t, j) = fa_data_offset(h, s, i) => j = i /\ t = s
  <2> TAKE j \in Columns, t \in 0 .. n - 1
  <2>1. fa_data_offset(h, t, j) = j * n + t
      BY DEF fa_data_offset
  <2>2. i \in Nat /\ j \in Nat
      BY <1>1
  <2> HIDE DEF n, c, d
  <2> QED
      BY <1>1, <1>2, <2>1, <2>2, RowByRow
<1> DEFINE size == c * (n + d * 4)
<1> HIDE DEF n, c, d
<1>5. i * n + s \in 0 .. (c * n) - 1
    BY <1>1, RowInTable
<1>6. size = c * n + c * (d * 4) /\ c * (d * 4) \in Nat /\ c * n \in Nat
      /\ c * n = n * c
  <2>1. d * 4 \in Nat
      BY <1>1
  <2>2. \A x, y, z \in Nat : x * (y + z) = x * y + x * z /\ x * y = y * x
      OBVIOUS
  <2> QED
      BY <1>1, <2>1, <2>2, Products
<1> HIDE DEF size
<1>7. i * n + s \in 0 .. size - 1 /\ i * n + s < n * c
    BY <1>5, <1>6
<1> QED
    BY <1>2, <1>3, <1>4, <1>7 DEF size, n, c, d

LEMMA DAddress ==
    ASSUME HeaderOK, NEW i \in Columns, NEW s \in 0 .. h.d_sample_count - 1
    PROVE  /\ d_data_offset(h, s, i) \in 0 .. h.major_block_size - 1
           /\ \A j \in Columns, t \in 0 .. h.d_sample_count - 1 :
                d_data_offset(h, t, j) = d_data_offset(h, s, i) => j = i /\ t = s
<1> DEFINE n == h.major_sample_count
           c == h.archive_mask_count
           d == h.d_sample_count
<1>1. /\ n \in Nat /\ c \in Nat /\ d \in Nat /\ i \in 0 .. c - 1 /\ s \in 0 .. d - 1
      /\ Columns = 0 .. c - 1
    BY Types DEF Columns
<1>2. d_data_offset(h, s, i) = n * c + 4 * (i * d + s)
    BY DEF d_data_offset, DecimatedEntry
<1>3. h.major_block_size = c * (n + d * 4)
    BY DEF HeaderOK, HeaderSizes, BlockSize, DecimatedEntry, h
<1>4. \A j \in Columns, t \in 0 .. d - 1 :
        d_data_offset(h, t, j) = d_data_offset(h, s, i) => j = i /\ t = s
  <2> SUFFICES ASSUME NEW j \in Columns, NEW t \in 0 .. d - 1,
                      d_data_offset(h, t, j) = d_data_offset(h, s, i)
               PROVE  j = i /\ t = s
      OBVIOUS
  <2>1. d_data_offset(h, t, j) = n * c + 4 * (j * d + t)
      BY DEF d_data_offset, DecimatedEntry
  <2>2. i \in Nat /\ j \in Nat
      BY <1>1
  <2> HIDE DEF n, c, d
  <2>3. i * d + s = j * d + t
    <3>1. i * d + s \in Int /\ j * d + t \in Int /\ n * c \in Int
        BY <1>1, <2>2, Products
    <3>2. n * c + 4 * (i * d + s) = n * c + 4 * (j * d + t)
        BY <1>2, <2>1
    <3>3. \A x, y, z \in Int : z + 4 * x = z + 4 * y => x = y
        OBVIOUS
    <3> QED
        BY <3>1, <3>2, <3>3
  <2> QED
      BY <1>1, <2>2, <2>3, RowByRow
<1> DEFINE size == c * (n + d * 4)
<1> HIDE DEF n, c, d
<1>5. i * d + s \in 0 .. (c * d) - 1
    BY <1>1, RowInTable
<1>6. size = n * c + 4 * (c * d) /\ n * c \in Nat /\ c * d \in Nat
  <2>1. \A x, y, z \in Nat : x * (y + z * 4) = y * x + 4 * (x * z)
      OBVIOUS
  <2> QED
      BY <1>1, <2>1, Products
<1> HIDE DEF size
<1> DEFINE x == i * d + s
           cd == c * d
           nc == n * c
<1> HIDE DEF x, cd, nc
<1>7. x \in 0 .. cd - 1 /\ size = nc + 4 * cd /\ nc \in Nat /\ cd \in Nat
    BY <1>5, <1>6 DEF x, cd, nc
<1>8. nc + 4 * x \in 0 .. size - 1
    BY <1>7
<1> QED
    BY <1>2, <1>3, <1>4, <1>8 DEF size, x, nc, n, c, d

\* An address is not both.
LEMMA AreasApart ==
    ASSUME HeaderOK, NEW i \in Columns, NEW s \in 0 .. h.major_sample_count - 1,
           NEW j \in Columns, NEW t \in Nat
    PROVE  d_data_offset(h, t, j) # fa_data_offset(h, s, i)
<1> DEFINE nc == h.major_sample_count * h.archive_mask_count
<1>1. fa_data_offset(h, s, i) \in Int /\ fa_data_offset(h, s, i) < nc
    BY FaAddress
<1>2. nc \in Nat /\ j \in Nat /\ h.d_sample_count \in Nat
    BY Types, Products DEF Columns
<1>3. j * h.d_sample_count \in Nat
    BY <1>2, Products
<1>4. d_data_offset(h, t, j) = nc + 4 * (j * h.d_sample_count + t)
    BY DEF d_data_offset, DecimatedEntry
<1> HIDE DEF nc
<1>5. d_data_offset(h, t, j) \in Int /\ d_data_offset(h, t, j) >= nc
    BY <1>2, <1>3, <1>4
<1> QED
    BY <1>1, <1>2, <1>5

-----------------------------------------------------------------------------
(* The invariant. *)

\* The archive is of an accepted layout, and has a column for each id archived.
PreparedInv ==
    /\ HeaderOK
    /\ capture \in Captures
    /\ Cardinality(capture.mask) = h.archive_mask_count

Entry(b) == data_index[b]

ShapeInv ==
    /\ current_major_block \in Blocks /\ current_buffer \in {0, 1}
    /\ DOMAIN disk = Blocks /\ DOMAIN data_index = Blocks
    /\ \A b \in Blocks :
        /\ Entry(b) = [timestamp |-> Entry(b).timestamp,
                       duration |-> Entry(b).duration,
                       id_zero |-> Entry(b).id_zero]
        /\ Entry(b).id_zero \in Int
    /\ DOMAIN buffers = {0, 1}
    /\ \A n \in {0, 1} : DOMAIN buffers[n] = 0 .. h.major_block_size - 1
    /\ inputs \in Nat /\ d_offset \in Nat
    /\ timestamps \in Seq(Int)

\* The number of the frame that the major block being gathered begins with.
Origin == inputs * input_frame_count - fa_offset

\* Whole input blocks were gathered, one timestamp at least goes with them, and
\* the buffer has their samples.
GatherInv ==
    /\ fa_offset \in 0 .. h.major_sample_count - 1
    /\ fa_offset % input_frame_count = 0
    /\ timestamps = <<>> <=> fa_offset = 0
    /\ fa_offset > 0 => data_index[current_major_block].id_zero = Origin
    /\ \A i \in Columns, s \in 0 .. fa_offset - 1 :
        buffers[current_buffer][fa_data_offset(h, s, i)] = <<IdOf(i), Origin + s>>

IInv == PreparedInv /\ ShapeInv /\ GatherInv /\ SamplesAreInPlace

LEMMA NoCells ==
    ASSUME NEW n \in Int, n <= 0
    PROVE  0 .. n - 1 = {}
    OBVIOUS

LEMMA InvInit == Init => IInv
<1> SUFFICES ASSUME Init PROVE IInv
    OBVIOUS
<1>1. PreparedInv
  <2>1. PICK p \in Params : Accepted(p) /\ header = initialise_header(p)
      BY DEF Init
  <2>2. HeaderOK
      BY <2>1, AcceptedHeader DEF HeaderOK
  <2> QED
      BY <2>2 DEF Init, PreparedInv
<1>2. HeaderOK
    BY <1>1 DEF PreparedInv
<1>3. ShapeInv
  <2>1. 0 \in Blocks
      BY <1>2, Types DEF Blocks
  <2>2. /\ current_major_block \in Blocks /\ current_buffer \in {0, 1}
        /\ DOMAIN disk = Blocks /\ DOMAIN data_index = Blocks
        /\ inputs \in Nat /\ d_offset \in Nat
      BY <2>1 DEF Init
  <2>3. \A b \in Blocks : Entry(b) = [timestamp |-> 0, duration |-> 0, id_zero |-> 0]
      BY DEF Init, Entry, ZeroIndex
  <2>4. /\ DOMAIN buffers = {0, 1}
        /\ \A n \in {0, 1} : DOMAIN buffers[n] = 0 .. h.major_block_size - 1
      BY DEF Init
  <2>5. timestamps \in Seq(Int)
      BY DEF Init
  <2> QED
      BY <2>2, <2>3, <2>4, <2>5 DEF ShapeInv
<1>4. GatherInv
  <2>1. /\ fa_offset = 0 /\ timestamps = <<>>
        /\ h.major_sample_count \in Nat /\ h.major_sample_count > 1
        /\ input_frame_count \in Nat /\ input_frame_count > 0
      BY <1>2, Types DEF Init, input_frame_count
  <2>2. \A n \in Nat : n > 0 => 0 % n = 0
      OBVIOUS
  <2>3. 0 .. fa_offset - 1 = {}
      BY <2>1, NoCells
  <2> QED
      BY <2>1, <2>2, <2>3 DEF GatherInv
<1>5. SamplesAreInPlace
  <2>1. \A b \in Blocks : data_index[b].duration = 0
      BY DEF Init, ZeroIndex
  <2> QED
      BY <2>1 DEF SamplesAreInPlace, Valid
<1> QED
    BY <1>1, <1>3, <1>4, <1>5 DEF IInv

-----------------------------------------------------------------------------
(* A block is processed. *)

\* Input blocks fill the major block exactly.
LEMMA InputsFill ==
    ASSUME IInv
    PROVE  /\ FaAdvanced \in 1 .. h.major_sample_count
           /\ FaAdvanced % input_frame_count = 0
           /\ input_frame_count \in Nat /\ input_frame_count > 0
           /\ fa_offset \in Nat /\ FaAdvanced = fa_offset + input_frame_count
<1> DEFINE n == h.major_sample_count
           m == input_frame_count
<1>1. n \in Nat /\ m \in Nat /\ m > 0 /\ n % m = 0
    BY Types DEF IInv, PreparedInv, input_frame_count
<1>2. fa_offset \in 0 .. n - 1 /\ fa_offset % m = 0
    BY DEF IInv, GatherInv
<1>3. FaAdvanced = fa_offset + m
    BY DEF FaAdvanced
<1> HIDE DEF n, m
<1>4. \A x, y \in Nat : y > 0 /\ x % y = 0 => x \div y \in Nat /\ x = y * (x \div y)
    OBVIOUS
<1> DEFINE q == n \div m
           r == fa_offset \div m
<1>5. q \in Nat /\ n = m * q /\ r \in Nat /\ fa_offset = m * r
    BY <1>1, <1>2, <1>4
<1> HIDE DEF q, r
<1>6. \A x, y, z \in Nat : x >= y => z * x >= z * y
    OBVIOUS
<1>7. r < q
    BY <1>1, <1>2, <1>5, <1>6
<1>8. m * (r + 1) <= m * q /\ m * (r + 1) = m * r + m
  <2>1. q >= r + 1 /\ r + 1 \in Nat
      BY <1>5, <1>7
  <2>2. m * q >= m * (r + 1)
      BY <1>1, <1>5, <1>6, <2>1
  <2>3. \A x, y \in Nat : x * (y + 1) = x * y + x /\ x * y \in Nat
      OBVIOUS
  <2> QED
      BY <1>1, <1>5, <2>1, <2>2, <2>3
<1>9. (m * (r + 1)) % m = 0
    BY <1>1, <1>5
<1> QED
    BY <1>1, <1>2, <1>3, <1>5, <1>8, <1>9 DEF n, m

\* After the input block the buffer has its samples, and those before it.
LEMMA SamplesGathered ==
    ASSUME IInv
    PROVE  \A i \in Columns, s \in 0 .. FaAdvanced - 1 :
                Gathered[fa_data_offset(h, s, i)] = <<IdOf(i), Origin + s>>
<1> DEFINE memory == buffers[current_buffer]
           cells == FaCells \cup DCells
<1>1. HeaderOK
    BY DEF IInv, PreparedInv
<1>2. /\ FaAdvanced \in 1 .. h.major_sample_count
      /\ input_frame_count \in Nat /\ input_frame_count > 0
      /\ fa_offset \in Nat /\ FaAdvanced = fa_offset + input_frame_count
      /\ h.major_sample_count \in Nat
    BY <1>1, InputsFill, Types
<1>3. inputs \in Nat /\ inputs * input_frame_count \in Nat /\ d_offset \in Nat
      /\ DOMAIN memory = 0 .. h.major_block_size - 1
    BY <1>2, Products DEF IInv, ShapeInv
<1>4. ASSUME NEW e \in FaCells
      PROVE  \E j \in 0 .. input_frame_count - 1, i \in Columns :
                e = <<fa_data_offset(h, fa_offset + j, i), <<IdOf(i), Frame(j)>> >>
    BY DEF FaCells
<1>5. ASSUME NEW e \in DCells
      PROVE  \E t \in Nat, j \in Columns : e[1] = d_data_offset(h, t, j)
  <2>1. PICK k \in 0 .. input_decimation_count - 1, j \in Columns :
            e[1] = d_data_offset(h, d_offset + k, j)
      BY DEF DCells
  <2>2. input_decimation_count \in Int
      BY <1>1, <1>2, Types DEF input_decimation_count
  <2>3. d_offset + k \in Nat
      BY <1>3, <2>2
  <2> QED
      BY <2>1, <2>3
<1> SUFFICES ASSUME NEW i \in Columns, NEW s \in 0 .. FaAdvanced - 1
             PROVE  Gathered[fa_data_offset(h, s, i)] = <<IdOf(i), Origin + s>>
    OBVIOUS
<1> DEFINE a == fa_data_offset(h, s, i)
<1>6. s \in 0 .. h.major_sample_count - 1
    BY <1>2
<1>7. a \in DOMAIN memory
    BY <1>1, <1>3, <1>6, FaAddress
<1>8. \A e \in DCells : e[1] # a
    BY <1>1, <1>5, <1>6, AreasApart
<1>9. \A j \in 0 .. input_frame_count - 1, k \in Columns :
        fa_data_offset(h, fa_offset + j, k) = a => k = i /\ fa_offset + j = s
  <2> TAKE j \in 0 .. input_frame_count - 1, k \in Columns
  <2>1. fa_offset + j \in 0 .. h.major_sample_count - 1
      BY <1>2
  <2> QED
      BY <1>1, <1>6, <2>1, FaAddress
<1>10. Gathered = Store(memory, cells)
    BY DEF Gathered
<1>11. CASE s < fa_offset
  <2>1. \A e \in FaCells : e[1] # a
    <3> SUFFICES ASSUME NEW e \in FaCells, e[1] = a PROVE FALSE
        OBVIOUS
    <3>1. PICK j \in 0 .. input_frame_count - 1, k \in Columns :
            e[1] = fa_data_offset(h, fa_offset + j, k)
        BY <1>4
    <3>2. fa_offset + j = s
        BY <1>9, <3>1
    <3> QED
        BY <1>2, <1>11, <3>2
  <2>2. Gathered[a] = memory[a]
    <3> HIDE DEF memory, a
    <3> QED
        BY <1>7, <1>8, <1>10, <2>1, NotStored
  <2>3. memory[a] = <<IdOf(i), Origin + s>>
    <3>1. s \in 0 .. fa_offset - 1
        BY <1>2, <1>11
    <3> QED
        BY <3>1 DEF IInv, GatherInv
  <2> QED
      BY <2>2, <2>3
<1>12. CASE s >= fa_offset
  <2> DEFINE j == s - fa_offset
             c == <<fa_data_offset(h, fa_offset + j, i), <<IdOf(i), Frame(j)>> >>
  <2>1. j \in 0 .. input_frame_count - 1 /\ fa_offset + j = s
      BY <1>2, <1>12
  <2>2. c \in FaCells
      BY <2>1 DEF FaCells
  <2>3. c[1] = a /\ c[2] = <<IdOf(i), Frame(j)>>
      BY <2>1
  <2>4. \A e \in cells : e[1] = a => e[2] = c[2]
    <3> SUFFICES ASSUME NEW e \in FaCells, e[1] = a PROVE e[2] = c[2]
        BY <1>8
    <3>1. PICK k \in 0 .. input_frame_count - 1, l \in Columns :
            e = <<fa_data_offset(h, fa_offset + k, l), <<IdOf(l), Frame(k)>> >>
        BY <1>4
    <3>2. l = i /\ fa_offset + k = s
        BY <1>9, <3>1
    <3>3. k = j
        BY <1>2, <3>2
    <3> QED
        BY <2>3, <3>1, <3>2, <3>3
  <2> HIDE DEF memory, cells, a, c
  <2>5. c \in cells
      BY <2>2 DEF cells
  <2>6. Store(memory, cells)[c[1]] = c[2]
      BY <1>7, <2>3, <2>4, <2>5, Stored
  <2>7. Frame(j) = Origin + s
      BY <1>2, <1>3, <2>1 DEF Frame, Origin
  <2> QED
      BY <1>10, <2>3, <2>6, <2>7 DEF a
<1> QED
    BY <1>2, <1>11, <1>12

\* The block that is being gathered begins with the frame in the index.
LEMMA BlockBegins ==
    ASSUME IInv
    PROVE  (IF timestamps = <<>> THEN Frame(0)
            ELSE data_index[current_major_block].id_zero) = Origin /\ Origin \in Int
<1>1. /\ fa_offset \in Nat /\ input_frame_count \in Nat
      /\ inputs \in Nat /\ inputs * input_frame_count \in Nat
    BY InputsFill, Products DEF IInv, ShapeInv
<1>2. Origin \in Int
    BY <1>1 DEF Origin
<1>3. timestamps = <<>> => Frame(0) = Origin
    BY <1>1 DEF IInv, GatherInv, Frame, Origin
<1>4. timestamps # <<>> => data_index[current_major_block].id_zero = Origin
    BY <1>1 DEF IInv, GatherInv
<1> QED
    BY <1>2, <1>3, <1>4

\* What a step keeps: the layout, and blocks that it does not write.
LEMMA PreparedKept ==
    ASSUME IInv, UNCHANGED <<header, capture>>
    PROVE  /\ PreparedInv' /\ h' = h /\ Blocks' = Blocks /\ Columns' = Columns
           /\ input_frame_count' = input_frame_count
           /\ \A i \in Columns : IdOf(i)' = IdOf(i)
           /\ \A s, i : fa_data_offset(h, s, i)' = fa_data_offset(h, s, i)
<1>1. h' = h /\ capture' = capture
    BY DEF h
<1>2. PreparedInv'
    BY <1>1 DEF IInv, PreparedInv, HeaderOK, h
<1> QED
    BY <1>1, <1>2 DEF Blocks, Columns, input_frame_count, IdOf, fa_data_offset

LEMMA OthersKept ==
    ASSUME IInv, UNCHANGED <<header, capture>>,
           NEW b \in Blocks, b # current_major_block,
           disk'[b] = disk[b], data_index'[b] = data_index[b],
           data_index'[b].duration # 0
    PROVE  \A i \in Columns, s \in 0 .. h.major_sample_count - 1 :
                (read_fa_block(b, i)[s])' = <<IdOf(i), data_index'[b].id_zero + s>>
<1>1. b \in Valid
    BY DEF Valid
<1>2. \A i \in Columns, s \in 0 .. h.major_sample_count - 1 :
            read_fa_block(b, i)[s] = <<IdOf(i), data_index[b].id_zero + s>>
    BY <1>1 DEF IInv, SamplesAreInPlace
<1>3. h' = h
    BY DEF h
<1>4. \A i \in Columns, s \in 0 .. h.major_sample_count - 1 :
            (read_fa_block(b, i)[s])' = read_fa_block(b, i)[s]
    BY <1>3 DEF read_fa_block
<1> QED
    BY <1>2, <1>4

LEMMA IndexWritten ==
    ASSUME ShapeInv, NEW z, NEW t, NEW d
    PROVE  LET was == data_index[current_major_block]
               begun == [data_index EXCEPT ![current_major_block].id_zero = z]
               done == [data_index EXCEPT ![current_major_block] =
                            [timestamp |-> t, duration |-> d, id_zero |-> z]]
           IN /\ DOMAIN begun = Blocks /\ DOMAIN done = Blocks
              /\ \A b \in Blocks : b # current_major_block =>
                    begun[b] = data_index[b] /\ done[b] = data_index[b]
              /\ begun[current_major_block] =
                    [timestamp |-> was.timestamp, duration |-> was.duration,
                     id_zero |-> z]
              /\ done[current_major_block] =
                    [timestamp |-> t, duration |-> d, id_zero |-> z]
<1>1. /\ current_major_block \in Blocks /\ DOMAIN data_index = Blocks
      /\ Entry(current_major_block) =
            [timestamp |-> Entry(current_major_block).timestamp,
             duration |-> Entry(current_major_block).duration,
             id_zero |-> Entry(current_major_block).id_zero]
    BY DEF ShapeInv
<1> DEFINE was == data_index[current_major_block]
<1>2. was = [timestamp |-> was.timestamp, duration |-> was.duration,
             id_zero |-> was.id_zero]
    BY <1>1 DEF Entry
<1>3. [was EXCEPT !.id_zero = z] = [timestamp |-> was.timestamp,
            duration |-> was.duration, id_zero |-> z]
    BY <1>2
<1> QED
    BY <1>1, <1>3

\* The next block, and the memory that the block is gathered in.
LEMMA NextIsBlock ==
    ASSUME HeaderOK, NEW b \in Blocks
    PROVE  NextBlock(b) \in Blocks
<1>1. h.major_block_count \in Nat /\ h.major_block_count > 1
    BY Types
<1>2. \A x \in Int, y \in Nat : y > 0 => x % y \in 0 .. y - 1
    OBVIOUS
<1> QED
    BY <1>1, <1>2 DEF NextBlock, Blocks

LEMMA BuffersKept ==
    ASSUME IInv, buffers' = [buffers EXCEPT ![current_buffer] = Gathered],
           UNCHANGED header
    PROVE  /\ DOMAIN buffers' = {0, 1}
           /\ \A k \in {0, 1} : DOMAIN (buffers'[k]) = (0 .. h.major_block_size - 1)'
           /\ buffers'[current_buffer] = Gathered
<1>1. /\ current_buffer \in {0, 1} /\ DOMAIN buffers = {0, 1}
      /\ \A k \in {0, 1} : DOMAIN buffers[k] = 0 .. h.major_block_size - 1
    BY DEF IInv, ShapeInv
<1>2. DOMAIN Gathered = 0 .. h.major_block_size - 1
    BY <1>1, StoreDomain DEF Gathered
<1>3. h' = h
    BY DEF h
<1> QED
    BY <1>1, <1>2, <1>3

\* The input block completes the major block.
LEMMA BlockCompleted ==
    ASSUME IInv, NEW j \in Jitter, process_block(j),
           FaAdvanced >= h.major_sample_count
    PROVE  IInv'
<1> DEFINE n == h.major_sample_count
           stamps == Append(timestamps, Frame(input_frame_count) * Period + j)
           id_zero == IF timestamps = <<>> THEN Frame(0)
                      ELSE data_index[current_major_block].id_zero
           entry == FittedEntry(stamps)
<1>1. /\ UNCHANGED <<header, capture>> /\ inputs' = inputs + 1
      /\ buffers' = [buffers EXCEPT ![current_buffer] = Gathered]
      /\ disk' = [disk EXCEPT ![current_major_block] = Gathered]
      /\ current_buffer' = 1 - current_buffer
      /\ fa_offset' = 0 /\ d_offset' = 0
      /\ data_index' = [data_index EXCEPT ![current_major_block] =
                        [timestamp |-> entry.timestamp,
                         duration |-> entry.duration, id_zero |-> id_zero]]
      /\ current_major_block' = NextBlock(current_major_block)
      /\ timestamps' = <<>>
    BY DEF process_block
<1> HIDE DEF stamps, entry
<1>2. id_zero = Origin /\ Origin \in Int
    BY BlockBegins
<1> HIDE DEF id_zero
<1>3. /\ PreparedInv' /\ h' = h /\ Blocks' = Blocks /\ Columns' = Columns
      /\ input_frame_count' = input_frame_count
      /\ \A i \in Columns : IdOf(i)' = IdOf(i)
    BY <1>1, PreparedKept
<1>4. HeaderOK /\ ShapeInv
    BY DEF IInv, PreparedInv
<1>5. FaAdvanced = n /\ n \in Nat
    BY <1>4, InputsFill, Types
<1>6. /\ DOMAIN data_index' = Blocks
      /\ \A b \in Blocks : b # current_major_block => data_index'[b] = data_index[b]
      /\ data_index'[current_major_block] =
            [timestamp |-> entry.timestamp, duration |-> entry.duration,
             id_zero |-> id_zero]
    BY <1>1, <1>4, IndexWritten
<1>7. ShapeInv'
  <2>1. current_major_block' \in Blocks' /\ current_buffer' \in {0, 1}
      BY <1>1, <1>3, <1>4, NextIsBlock DEF ShapeInv
  <2>2. DOMAIN disk' = Blocks' /\ DOMAIN data_index' = Blocks'
      BY <1>1, <1>3, <1>4, <1>6 DEF ShapeInv
  <2>3. \A b \in Blocks' :
            /\ Entry(b)' = [timestamp |-> Entry(b)'.timestamp,
                            duration |-> Entry(b)'.duration,
                            id_zero |-> Entry(b)'.id_zero]
            /\ Entry(b)'.id_zero \in Int
    <3> TAKE b \in Blocks'
    <3>1. CASE b = current_major_block
        BY <1>2, <1>6, <3>1 DEF Entry
    <3>2. CASE b # current_major_block
        BY <1>3, <1>4, <1>6, <3>2 DEF Entry, ShapeInv
    <3> QED
        BY <3>1, <3>2
  <2>4. DOMAIN buffers' = {0, 1}
        /\ \A k \in {0, 1} : DOMAIN (buffers'[k]) = (0 .. h.major_block_size - 1)'
      BY <1>1, BuffersKept
  <2>5. inputs' \in Nat /\ d_offset' \in Nat /\ timestamps' \in Seq(Int)
      BY <1>1, <1>4 DEF ShapeInv
  <2> QED
      BY <2>1, <2>2, <2>3, <2>4, <2>5 DEF ShapeInv
<1>8. GatherInv'
  <2>1. fa_offset' = 0 /\ timestamps' = <<>>
      BY <1>1
  <2>2. (h.major_sample_count \in Nat /\ h.major_sample_count > 1
         /\ input_frame_count \in Nat /\ input_frame_count > 0)'
      BY <1>3, <1>4, Types DEF input_frame_count
  <2>3. \A k \in Nat : k > 0 => 0 % k = 0
      OBVIOUS
  <2>4. 0 .. fa_offset' - 1 = {}
      BY <2>1, NoCells
  <2>5. fa_offset' \in (0 .. h.major_sample_count - 1)' /\ ~(fa_offset' > 0)
      BY <2>1, <2>2
  <2>6. (fa_offset % input_frame_count = 0)'
      BY <2>1, <2>2, <2>3
  <2> QED
      BY <2>1, <2>4, <2>5, <2>6 DEF GatherInv
<1>9. SamplesAreInPlace'
  <2> SUFFICES ASSUME NEW b \in Valid', NEW i \in Columns', NEW s \in (0 .. n - 1)'
               PROVE  (read_fa_block(b, i)[s])' = <<IdOf(i)', data_index'[b].id_zero + s>>
      BY DEF SamplesAreInPlace
  <2>1. b \in Blocks /\ data_index'[b].duration # 0 /\ i \in Columns
        /\ s \in 0 .. n - 1 /\ IdOf(i)' = IdOf(i)
      BY <1>3 DEF Valid
  <2>2. CASE b = current_major_block
    <3>1. disk'[b] = Gathered
        BY <1>1, <1>4, <2>1, <2>2 DEF ShapeInv
    <3>2. data_index'[b].id_zero = Origin
        BY <1>2, <1>6, <2>2
    <3>3. Gathered[fa_data_offset(h, s, i)] = <<IdOf(i), Origin + s>>
      <4>1. s \in 0 .. FaAdvanced - 1
          BY <1>5, <2>1
      <4> QED
          BY <2>1, <4>1, SamplesGathered
    <3>4. (read_fa_block(b, i)[s])' = disk'[b][n * i + s]
        BY <1>3, <2>1 DEF read_fa_block
    <3>5. n * i + s = fa_data_offset(h, s, i)
      <4>1. i \in Int
          BY <1>4, <2>1, Types DEF Columns
      <4>2. \A x, y \in Int : x * y = y * x
          OBVIOUS
      <4> QED
          BY <1>5, <4>1, <4>2 DEF fa_data_offset
    <3> QED
        BY <2>1, <3>1, <3>2, <3>3, <3>4, <3>5
  <2>3. CASE b # current_major_block
    <3>1. disk'[b] = disk[b] /\ data_index'[b] = data_index[b]
        BY <1>1, <1>4, <1>6, <2>1, <2>3 DEF ShapeInv
    <3> QED
        BY <1>1, <2>1, <2>3, <3>1, OthersKept
  <2> QED
      BY <2>2, <2>3
<1> QED
    BY <1>3, <1>7, <1>8, <1>9 DEF IInv

\* The major block is not complete yet.
LEMMA BlockContinued ==
    ASSUME IInv, NEW j \in Jitter, process_block(j),
           ~(FaAdvanced >= h.major_sample_count)
    PROVE  IInv'
<1> DEFINE n == h.major_sample_count
           stamp == Frame(input_frame_count) * Period + j
           id_zero == IF timestamps = <<>> THEN Frame(0)
                      ELSE data_index[current_major_block].id_zero
<1>1. /\ UNCHANGED <<header, capture>> /\ inputs' = inputs + 1
      /\ buffers' = [buffers EXCEPT ![current_buffer] = Gathered]
      /\ fa_offset' = FaAdvanced /\ d_offset' = DAdvanced
      /\ data_index' = [data_index EXCEPT ![current_major_block].id_zero = id_zero]
      /\ timestamps' = Append(timestamps, stamp)
      /\ UNCHANGED <<disk, current_buffer, current_major_block>>
    BY DEF process_block
<1>2. id_zero = Origin /\ Origin \in Int
    BY BlockBegins
<1> HIDE DEF id_zero
<1>3. /\ PreparedInv' /\ h' = h /\ Blocks' = Blocks /\ Columns' = Columns
      /\ input_frame_count' = input_frame_count
      /\ \A i \in Columns : IdOf(i)' = IdOf(i)
      /\ \A s, i : fa_data_offset(h, s, i)' = fa_data_offset(h, s, i)
    BY <1>1, PreparedKept
<1>4. HeaderOK /\ ShapeInv
    BY DEF IInv, PreparedInv
<1>5. /\ FaAdvanced \in 1 .. n - 1 /\ n \in Nat
      /\ FaAdvanced % input_frame_count = 0
      /\ input_frame_count \in Nat /\ input_frame_count > 0
      /\ fa_offset \in Nat /\ FaAdvanced = fa_offset + input_frame_count
    BY <1>4, InputsFill, Types
<1>6. /\ DOMAIN data_index' = Blocks
      /\ \A b \in Blocks : b # current_major_block => data_index'[b] = data_index[b]
      /\ data_index'[current_major_block] =
            [timestamp |-> data_index[current_major_block].timestamp,
             duration |-> data_index[current_major_block].duration,
             id_zero |-> id_zero]
    BY <1>1, <1>4, IndexWritten
<1>7. Origin' = Origin
  <2>1. inputs \in Nat /\ \A x, y \in Nat : (x + 1) * y = x * y + y /\ x * y \in Nat
      BY <1>4 DEF ShapeInv
  <2>2. inputs' * input_frame_count' = inputs * input_frame_count + input_frame_count
      BY <1>1, <1>3, <1>5, <2>1
  <2> QED
      BY <1>1, <1>5, <2>1, <2>2 DEF Origin
<1>8. stamp \in Int
  <2>1. inputs * input_frame_count \in Nat
      BY <1>4, <1>5, Products DEF ShapeInv
  <2>2. Frame(input_frame_count) \in Nat
      BY <1>5, <2>1 DEF Frame
  <2>3. Period \in Nat /\ j \in Nat
      BY TransformAssumption
  <2>4. Frame(input_frame_count) * Period \in Nat
      BY <2>2, <2>3, Products
  <2> QED
      BY <2>3, <2>4
<1> HIDE DEF stamp
<1>9. ShapeInv'
  <2>1. current_major_block' \in Blocks' /\ current_buffer' \in {0, 1}
      BY <1>1, <1>3, <1>4 DEF ShapeInv
  <2>2. DOMAIN disk' = Blocks' /\ DOMAIN data_index' = Blocks'
      BY <1>1, <1>3, <1>4, <1>6 DEF ShapeInv
  <2>3. \A b \in Blocks' :
            /\ Entry(b)' = [timestamp |-> Entry(b)'.timestamp,
                            duration |-> Entry(b)'.duration,
                            id_zero |-> Entry(b)'.id_zero]
            /\ Entry(b)'.id_zero \in Int
    <3> TAKE b \in Blocks'
    <3>1. CASE b = current_major_block
        BY <1>2, <1>6, <3>1 DEF Entry
    <3>2. CASE b # current_major_block
        BY <1>3, <1>4, <1>6, <3>2 DEF Entry, ShapeInv
    <3> QED
        BY <3>1, <3>2
  <2>4. DOMAIN buffers' = {0, 1}
        /\ \A k \in {0, 1} : DOMAIN (buffers'[k]) = (0 .. h.major_block_size - 1)'
      BY <1>1, BuffersKept
  <2>5. timestamps' \in Seq(Int)
      BY <1>1, <1>4, <1>8 DEF ShapeInv
  <2>6. inputs' \in Nat /\ d_offset' \in Nat
    <3>1. input_frame_count \div Decimation1 \in Nat
      <4>1. \A x, y \in Nat : y > 0 => x \div y \in Nat
          OBVIOUS
      <4> QED
          BY <1>4, <1>5, <4>1, Types
    <3> QED
        BY <1>1, <1>4, <3>1 DEF ShapeInv, DAdvanced
  <2> QED
      BY <2>1, <2>2, <2>3, <2>4, <2>5, <2>6 DEF ShapeInv
<1>10. GatherInv'
  <2>1. fa_offset' \in (0 .. h.major_sample_count - 1)'
        /\ (fa_offset % input_frame_count)' = 0 /\ fa_offset' > 0
      BY <1>1, <1>3, <1>5
  <2>2. timestamps' # <<>>
      BY <1>1, <1>4, <1>8 DEF ShapeInv
  <2>3. (data_index[current_major_block].id_zero)' = Origin'
      BY <1>1, <1>2, <1>6, <1>7
  <2>4. ASSUME NEW i \in Columns', NEW s \in (0 .. fa_offset - 1)'
        PROVE  (buffers[current_buffer][fa_data_offset(h, s, i)])'
                    = <<IdOf(i)', Origin' + s>>
    <3>1. s \in 0 .. FaAdvanced - 1 /\ i \in Columns
        BY <1>1, <1>3, <2>4
    <3>2. Gathered[fa_data_offset(h, s, i)] = <<IdOf(i), Origin + s>>
        BY <3>1, SamplesGathered
    <3>3. (buffers[current_buffer])' = Gathered
        BY <1>1, BuffersKept
    <3> QED
        BY <1>3, <1>7, <3>1, <3>2, <3>3
  <2>5. (timestamps = <<>> <=> fa_offset = 0)'
      BY <2>1, <2>2
  <2> QED
      BY <2>1, <2>3, <2>4, <2>5 DEF GatherInv
<1>11. SamplesAreInPlace'
  <2> SUFFICES ASSUME NEW b \in Valid', NEW i \in Columns', NEW s \in (0 .. n - 1)'
               PROVE  (read_fa_block(b, i)[s])' = <<IdOf(i)', data_index'[b].id_zero + s>>
      BY DEF SamplesAreInPlace
  <2>1. b \in Blocks /\ b # current_major_block /\ data_index'[b].duration # 0
        /\ i \in Columns /\ s \in 0 .. n - 1 /\ IdOf(i)' = IdOf(i)
      BY <1>1, <1>3 DEF Valid
  <2>2. disk'[b] = disk[b] /\ data_index'[b] = data_index[b]
      BY <1>1, <1>6, <2>1
  <2> QED
      BY <1>1, <2>1, <2>2, OthersKept
<1> QED
    BY <1>3, <1>9, <1>10, <1>11 DEF IInv

-----------------------------------------------------------------------------
(* A gap, and a new process. *)

\* What was gathered is thrown away.
LEMMA BlockAbandoned ==
    ASSUME IInv, UNCHANGED <<header, capture, archived>>,
           inputs' = inputs + 1, fa_offset' = 0, d_offset' = 0, timestamps' = <<>>,
           current_buffer' \in {0, 1}, DOMAIN buffers' = {0, 1},
           \A k \in {0, 1} : DOMAIN (buffers'[k]) = 0 .. h.major_block_size - 1
    PROVE  IInv'
<1>1. /\ PreparedInv' /\ h' = h /\ Blocks' = Blocks /\ Columns' = Columns
      /\ input_frame_count' = input_frame_count
      /\ \A i \in Columns : IdOf(i)' = IdOf(i)
    BY PreparedKept
<1>2. /\ UNCHANGED <<current_major_block, data_index, disk>>
      /\ HeaderOK /\ ShapeInv
    BY DEF archived, IInv, PreparedInv
<1>3. ShapeInv'
  <2>1. inputs' \in Nat /\ d_offset' \in Nat /\ timestamps' \in Seq(Int)
      BY <1>2 DEF ShapeInv
  <2>2. \A b : Entry(b)' = Entry(b)
      BY <1>2 DEF Entry
  <2> QED
      BY <1>1, <1>2, <2>1, <2>2 DEF ShapeInv
<1>4. GatherInv'
  <2>1. (h.major_sample_count \in Nat /\ h.major_sample_count > 1
         /\ input_frame_count \in Nat /\ input_frame_count > 0)'
      BY <1>1, <1>2, Types DEF input_frame_count
  <2>2. \A k \in Nat : k > 0 => 0 % k = 0
      OBVIOUS
  <2>3. 0 .. fa_offset' - 1 = {}
      BY NoCells
  <2>4. fa_offset' \in (0 .. h.major_sample_count - 1)' /\ ~(fa_offset' > 0)
      BY <2>1
  <2>5. (fa_offset % input_frame_count = 0)'
      BY <2>1, <2>2
  <2> QED
      BY <2>3, <2>4, <2>5 DEF GatherInv
<1>5. SamplesAreInPlace'
  <2> SUFFICES ASSUME NEW b \in Valid', NEW i \in Columns',
                      NEW s \in (0 .. h.major_sample_count - 1)'
               PROVE  (read_fa_block(b, i)[s])' = <<IdOf(i)', data_index'[b].id_zero + s>>
      BY DEF SamplesAreInPlace
  <2>1. b \in Blocks /\ b # current_major_block /\ data_index'[b].duration # 0
        /\ i \in Columns /\ s \in 0 .. h.major_sample_count - 1
        /\ IdOf(i)' = IdOf(i)
      BY <1>1, <1>2 DEF Valid
  <2> QED
      BY <1>2, <2>1, OthersKept
<1> QED
    BY <1>1, <1>3, <1>4, <1>5 DEF IInv

LEMMA InvNext == IInv /\ [Next]_vars => IInv'
<1> SUFFICES ASSUME IInv, [Next]_vars PROVE IInv'
    OBVIOUS
<1>1. ASSUME NEW j \in Jitter, process_block(j) PROVE IInv'
  <2>1. CASE FaAdvanced >= h.major_sample_count
      BY <1>1, <2>1, BlockCompleted
  <2>2. CASE ~(FaAdvanced >= h.major_sample_count)
      BY <1>1, <2>2, BlockContinued
  <2> QED
      BY <2>1, <2>2
<1>2. /\ current_buffer \in {0, 1} /\ DOMAIN buffers = {0, 1}
      /\ \A k \in {0, 1} : DOMAIN buffers[k] = 0 .. h.major_block_size - 1
    BY DEF IInv, ShapeInv
<1>3. CASE process_gap
  <2>1. /\ UNCHANGED <<header, capture, archived, buffers, current_buffer>>
        /\ inputs' = inputs + 1 /\ fa_offset' = 0 /\ d_offset' = 0
        /\ timestamps' = <<>>
      BY <1>3 DEF process_gap, reset_block
  <2> QED
      BY <1>2, <2>1, BlockAbandoned
<1>4. CASE initialise_transform
  <2>1. /\ UNCHANGED <<header, capture, archived>>
        /\ inputs' = inputs + 1 /\ fa_offset' = 0 /\ d_offset' = 0
        /\ timestamps' = <<>> /\ current_buffer' = 0
        /\ buffers' = [k \in {0, 1} |-> [a \in DOMAIN buffers[0] |-> Nothing]]
      BY <1>4 DEF initialise_transform
  <2>2. DOMAIN buffers' = {0, 1}
        /\ \A k \in {0, 1} : DOMAIN (buffers'[k]) = 0 .. h.major_block_size - 1
      BY <1>2, <2>1
  <2> QED
      BY <2>1, <2>2, BlockAbandoned
<1>5. CASE UNCHANGED vars
  <2>1. UNCHANGED <<header, capture, archived, gathered, inputs>>
      BY <1>5 DEF vars
  <2>2. /\ PreparedInv' /\ h' = h /\ Blocks' = Blocks /\ Columns' = Columns
        /\ input_frame_count' = input_frame_count
        /\ \A i \in Columns : IdOf(i)' = IdOf(i)
        /\ \A s, i : fa_data_offset(h, s, i)' = fa_data_offset(h, s, i)
      BY <2>1, PreparedKept
  <2>3. /\ UNCHANGED <<current_major_block, data_index, disk, buffers, inputs>>
        /\ UNCHANGED <<current_buffer, fa_offset, d_offset, timestamps>>
      BY <2>1 DEF archived, gathered
  <2>4. ShapeInv'
      BY <2>2, <2>3 DEF IInv, ShapeInv, Entry
  <2>5. Origin' = Origin
      BY <2>2, <2>3 DEF Origin
  <2>6. GatherInv'
      BY <2>2, <2>3, <2>5 DEF IInv, GatherInv
  <2>7. \A b, i, s : (read_fa_block(b, i)[s])' = read_fa_block(b, i)[s]
      BY <2>2, <2>3 DEF read_fa_block
  <2>8. Valid' = Valid
      BY <2>2, <2>3 DEF Valid
  <2>9. SamplesAreInPlace'
      BY <2>2, <2>3, <2>7, <2>8 DEF IInv, SamplesAreInPlace
  <2> QED
      BY <2>2, <2>4, <2>6, <2>9 DEF IInv
<1> QED
    BY <1>1, <1>3, <1>4, <1>5 DEF Next

-----------------------------------------------------------------------------
(* The theorems. *)

\* Whole input blocks are gathered, in their places in the buffer, under an
\* index entry that has the number of the first frame (process_block).
THEOREM TransformInvariance == Spec => []IInv
<1>1. Init => IInv
    BY InvInit
<1>2. IInv /\ [Next]_vars => IInv'
    BY InvNext
<1> QED
    BY <1>1, <1>2, PTL DEF Spec

\* In every block that the index calls valid a reader finds the samples of each
\* id that followed the first, for every layout fa-prepare accepts.
THEOREM SamplesInPlace == Spec => []SamplesAreInPlace
<1>1. IInv => SamplesAreInPlace
    BY DEF IInv
<1> QED
    BY <1>1, TransformInvariance, PTL

-----------------------------------------------------------------------------
(* The columns. *)

Rank(x) == Cardinality({k \in capture.mask : k < x})

\* Sets of archived ids can be counted.
LEMMA MaskIsFinite ==
    ASSUME PreparedInv
    PROVE  /\ capture.mask \subseteq Nat
           /\ \A S \in SUBSET capture.mask : IsFiniteSet(S) /\ Cardinality(S) \in Nat
           /\ \A id \in capture.mask : id < FaEntryCount
           /\ FaEntryCount \in Nat /\ capture.events \in Int /\ capture.events >= -1
<1>1. /\ capture.mask \subseteq 0 .. FaEntryCount - 1
      /\ capture.events \in -1 .. FaEntryCount - 1
      /\ FaEntryCount \in Nat
    BY TransformAssumption DEF PreparedInv
<1>2. IsFiniteSet(0 .. FaEntryCount - 1)
  <2>1. 0 \in Int /\ FaEntryCount - 1 \in Int
      BY <1>1
  <2> QED
      BY <2>1, FS_Interval
<1>3. \A S \in SUBSET capture.mask : IsFiniteSet(S) /\ Cardinality(S) \in Nat
    BY <1>1, <1>2, FS_Subset, FS_CardinalityType
<1> QED
    BY <1>1, <1>3

LEMMA RankCounts ==
    ASSUME PreparedInv, NEW x \in Nat
    PROVE  /\ Rank(x) \in Nat
           /\ x \in capture.mask => Rank(x + 1) = Rank(x) + 1
           /\ x \notin capture.mask => Rank(x + 1) = Rank(x)
<1> DEFINE S == {k \in capture.mask : k < x}
           T == {k \in capture.mask : k < x + 1}
<1>1. S \in SUBSET capture.mask /\ x \notin S
    BY MaskIsFinite
<1>2. IsFiniteSet(S) /\ Cardinality(S) \in Nat
    BY <1>1, MaskIsFinite
<1>3. T = IF x \in capture.mask THEN S \cup {x} ELSE S
    BY MaskIsFinite
<1> HIDE DEF S, T
<1>4. Cardinality(S \cup {x}) = Cardinality(S) + 1
    BY <1>1, <1>2, FS_AddElement
<1> QED
    BY <1>2, <1>3, <1>4 DEF Rank, S, T

LEMMA RankRises ==
    ASSUME PreparedInv, NEW x \in capture.mask, NEW y \in Nat, x < y
    PROVE  Rank(x) < Rank(y)
<1>1. x \in Nat
    BY MaskIsFinite
<1> DEFINE S == {k \in capture.mask : k < x + 1}
           T == {k \in capture.mask : k < y}
<1>2. S \subseteq T /\ T \in SUBSET capture.mask
    BY <1>1, MaskIsFinite
<1>3. IsFiniteSet(T)
    BY <1>2, MaskIsFinite
<1>4. Cardinality(S) <= Cardinality(T)
  <2> HIDE DEF S, T
  <2> QED
    BY <1>2, <1>3, FS_Subset
<1>5. Rank(x + 1) <= Rank(y)
    BY <1>4 DEF Rank
<1> QED
    BY <1>1, <1>5, RankCounts

\* There is an archived id for every column, and another one for another.
LEMMA IdOfRank ==
    ASSUME PreparedInv, NEW i \in Columns
    PROVE  IdOf(i) \in capture.mask /\ Rank(IdOf(i)) = i
<1>1. i \in Nat /\ i < Cardinality(capture.mask)
    BY Types DEF PreparedInv, Columns
<1> DEFINE S == {n \in Nat : Rank(n) > i}
<1>2. FaEntryCount \in S
  <2>1. {k \in capture.mask : k < FaEntryCount} = capture.mask
      BY MaskIsFinite
  <2> QED
      BY <1>1, <2>1, MaskIsFinite DEF Rank
<1>3. PICK n \in S : \A m \in S : n <= m
    BY <1>2, LeastNumber
<1>4. Rank(0) = 0
  <2>1. {k \in capture.mask : k < 0} = {}
      BY MaskIsFinite
  <2> QED
      BY <2>1, FS_EmptySet DEF Rank
<1>5. n # 0 /\ n \in Nat
    BY <1>1, <1>4
<1>6. n - 1 \in Nat /\ (n - 1) + 1 = n
    BY <1>5
<1>7. ~(Rank(n - 1) > i)
    BY <1>3, <1>6
<1> HIDE DEF S
<1>8. Rank(n) > i
    BY DEF S
<1>9. n - 1 \in capture.mask /\ Rank(n - 1) = i
    BY <1>1, <1>6, <1>7, <1>8, RankCounts
<1>10. \E id \in capture.mask : Cardinality({k \in capture.mask : k < id}) = i
    BY <1>9 DEF Rank
<1> QED
    BY <1>10 DEF IdOf, Rank

\* What the id of events must be for the search of input_id_to_output, which
\* takes the id before one that is not archived, to find its column or none.
EventsFit ==
    \A c \in Captures :
        \/ c.events = -1 \/ c.events \in c.mask
        \/ \A id \in c.mask : c.events < id

LEMMA EventsColumn ==
    ASSUME PreparedInv, EventsFit, NEW i \in Columns
    PROVE  i = input_id_to_output(capture.events) <=> IdOf(i) = capture.events
<1> DEFINE e == capture.events
<1>1. /\ e \in Int /\ e >= -1
      /\ e = -1 \/ e \in capture.mask \/ \A id \in capture.mask : e < id
    BY MaskIsFinite DEF PreparedInv, EventsFit
<1>2. i \in Nat /\ IdOf(i) \in capture.mask /\ Rank(IdOf(i)) = i /\ IdOf(i) \in Nat
    BY IdOfRank, MaskIsFinite, Types DEF PreparedInv, Columns
<1>3. CASE e = -1
    BY <1>2, <1>3 DEF input_id_to_output
<1>4. CASE e # -1 /\ \A id \in capture.mask : e < id
  <2>1. {k \in capture.mask : k <= e} = {}
      BY <1>1, <1>4, MaskIsFinite
  <2>2. input_id_to_output(e) = -1
      BY <1>4, <2>1, FS_EmptySet DEF input_id_to_output
  <2>3. IdOf(i) # e
      BY <1>1, <1>2, <1>4
  <2> QED
      BY <1>2, <2>2, <2>3
<1>5. CASE e \in capture.mask
  <2>1. e \in Nat /\ e # -1
      BY <1>5, MaskIsFinite
  <2>2. {k \in capture.mask : k <= e} = {k \in capture.mask : k < e + 1}
      BY <2>1, MaskIsFinite
  <2>3. input_id_to_output(e) = Rank(e + 1) - 1
      BY <2>1, <2>2 DEF input_id_to_output, Rank
  <2>4. input_id_to_output(e) = Rank(e) /\ Rank(e) \in Nat
      BY <1>5, <2>1, <2>3, RankCounts
  <2>5. IdOf(i) < e => Rank(IdOf(i)) < Rank(e)
      BY <1>2, <2>1, RankRises
  <2>6. e < IdOf(i) => Rank(e) < Rank(IdOf(i))
      BY <1>2, <1>5, RankRises
  <2>7. IdOf(i) = e => Rank(IdOf(i)) = Rank(e)
      OBVIOUS
  <2> HIDE DEF e
  <2> QED
      BY <1>2, <2>1, <2>4, <2>5, <2>6, <2>7 DEF e
<1> QED
    BY <1>1, <1>3, <1>4, <1>5

-----------------------------------------------------------------------------
(* Samples as runs of frames. *)

Frames(id, first, end) == {<<id, k>> : k \in first .. end - 1}

FramesFrom(id, z, first, end) == {<<id, z + k>> : k \in first .. end - 1}

LEMMA FramesShift ==
    ASSUME NEW id, NEW z \in Int, NEW a \in Int, NEW b \in Int
    PROVE  FramesFrom(id, z, a, b) = Frames(id, z + a, z + b)
<1>1. \A k \in a .. b - 1 : z + k \in z + a .. (z + b) - 1
    OBVIOUS
<1>2. \A k \in z + a .. (z + b) - 1 : k - z \in a .. b - 1 /\ z + (k - z) = k
    OBVIOUS
<1> QED
    BY <1>1, <1>2 DEF Frames, FramesFrom

\* The samples of the input block that begins with frame inputs * m.
LEMMA SamplesAreFrames ==
    ASSUME NEW id, NEW j \in Nat, NEW n \in Nat, inputs \in Nat,
           input_frame_count \in Nat
    PROVE  Samples(id, j, n) = Frames(id, Frame(0) + j, Frame(0) + j + n)
<1> DEFINE z == inputs * input_frame_count
<1>1. z \in Nat
    BY Products
<1>2. Samples(id, j, n) = FramesFrom(id, z, j, j + n)
  <2>1. j .. j + n - 1 = j .. (j + n) - 1
      OBVIOUS
  <2> QED
      BY <2>1 DEF Samples, Frame, FramesFrom
<1>3. Frame(0) = z
  <2> HIDE DEF z
  <2> QED
    BY <1>1 DEF Frame, z
<1> HIDE DEF z
<1>4. FramesFrom(id, z, j, j + n) = Frames(id, z + j, z + (j + n))
    BY <1>1, FramesShift
<1>5. z + (j + n) = z + j + n
    BY <1>1
<1> QED
    BY <1>2, <1>3, <1>4, <1>5

\* The s-th group of n samples from frame first on, as a reader wants it.
Whole(id, first, n, s) ==
    Summary(id, Frames(id, first + s * n, first + (s + 1) * n))

LEMMA GroupIsFrames ==
    ASSUME NEW z \in Int, NEW id, NEW s \in Nat, NEW n \in Nat
    PROVE  Summary(id, FramesFrom(id, z, s * n, (s + 1) * n)) = Whole(id, z, n, s)
<1> DEFINE from == s * n
           to == (s + 1) * n
<1>1. from \in Int /\ to \in Int
    BY Products
<1>2. Whole(id, z, n, s) = Summary(id, Frames(id, z + from, z + to))
    BY DEF Whole
<1> HIDE DEF from, to
<1>3. FramesFrom(id, z, from, to) = Frames(id, z + from, z + to)
    BY <1>1, FramesShift
<1> QED
    BY <1>2, <1>3 DEF from, to

-----------------------------------------------------------------------------
(* The decimated data of the block that is gathered. *)

\* An input block is a number of first decimations, and a number of input
\* blocks is a second one: the offsets are shifted, and compared, as if so.
InputsFit ==
    \A p \in Params : Accepted(p) =>
        /\ p.input % 2 ^ p.first_log2 = 0
        /\ (2 ^ p.first_log2 * 2 ^ p.second_log2) % p.input = 0

FitInv ==
    /\ input_frame_count % Decimation1 = 0
    /\ Decimation % input_frame_count = 0

\* Complete groups for double decimation.
GroupsDone == fa_offset \div Decimation

\* Where a reader finds doubly decimated sample s of column i of block b.
DDAddress(b, s, i) == h.dd_total_count * i + h.dd_sample_count * b + s

\* The offsets go together, the accumulators have the samples since the last
\* complete group, and the groups completed are where they will be read.
OffsetsInv ==
    /\ d_offset * Decimation1 = fa_offset
    /\ dd_offset = h.dd_sample_count * current_major_block + GroupsDone

AccumulatorsInv ==
    \A i \in Columns : double_accumulators[i] =
        Frames(IdOf(i), Origin + GroupsDone * Decimation, Origin + fa_offset)

DGatherInv ==
    \A i \in Columns, s \in 0 .. d_offset - 1 :
        buffers[current_buffer][d_data_offset(h, s, i)] =
            Whole(IdOf(i), Origin, Decimation1, s)

DDGatherInv ==
    /\ DOMAIN dd_area = 0 .. h.dd_total_count * h.archive_mask_count - 1
    /\ \A i \in Columns, s \in 0 .. GroupsDone - 1 :
        dd_area[DDAddress(current_major_block, s, i)] =
            Whole(IdOf(i), Origin, Decimation, s)

DecimationInv ==
    /\ FitInv /\ OffsetsInv /\ AccumulatorsInv /\ DGatherInv /\ DDGatherInv
    /\ DecimatedDataMatches

\* Numbers: offset x of whole input blocks of m, groups of d.
LEMMA GroupsAdvance ==
    ASSUME NEW x \in Nat, NEW m \in Nat, NEW d \in Nat, m > 0, d > 0,
           x % m = 0, d % m = 0
    PROVE  LET q == x \div d IN
           /\ q \in Nat /\ q * d <= x
           /\ (x + m) % d = 0 => (x + m) \div d = q + 1 /\ x + m = (q + 1) * d
           /\ (x + m) % d # 0 => (x + m) \div d = q
<1> DEFINE q == x \div d
           y == x % d
           r == x \div m
           g == d \div m
<1>1. q \in Nat /\ y \in 0 .. d - 1 /\ x = d * q + y
    OBVIOUS
<1>2. \A a, b \in Nat : b > 0 /\ a % b = 0 => a \div b \in Nat /\ a = b * (a \div b)
    OBVIOUS
<1>3. r \in Nat /\ x = m * r /\ g \in Nat /\ d = m * g
    BY <1>2
<1> HIDE DEF r, g
<1>4. y = m * (r - g * q)
  <2>1. \A a, b, c, e \in Int : a * (b - c * e) = a * b - (a * c) * e
      OBVIOUS
  <2>2. m * (r - g * q) = m * r - (m * g) * q
      BY <1>1, <1>3, <2>1
  <2> HIDE DEF q, y
  <2>3. d * q \in Nat
      BY <1>1, Products
  <2>4. y = x - d * q
      BY <1>1, <2>3
  <2> QED
      BY <1>3, <2>2, <2>4
<1> DEFINE t == r - g * q
<1>5. t \in Int /\ y = m * t
  <2>1. g * q \in Nat
      BY <1>1, <1>3, Products
  <2> QED
      BY <1>3, <1>4, <2>1
<1> HIDE DEF t, q, y
<1>6. t < g
  <2>1. \A a, b, c \in Int : c > 0 /\ a >= b => c * a >= c * b
      OBVIOUS
  <2>2. m * t < m * g
      BY <1>1, <1>3, <1>5
  <2> QED
      BY <1>3, <1>5, <2>1, <2>2
<1>7. y + m <= d
  <2>1. \A a, b, c \in Int : c > 0 /\ a >= b => c * a >= c * b
      OBVIOUS
  <2>2. m * g >= m * (t + 1)
      BY <1>3, <1>5, <1>6, <2>1
  <2>3. m * (t + 1) = m * t + m
      BY <1>5
  <2> QED
      BY <1>3, <1>5, <2>2, <2>3
<1>8. q * d = d * q /\ d * q \in Nat /\ (q + 1) * d = d * q + d
  <2>1. \A a, b \in Nat : a * b = b * a /\ a * b \in Nat /\ (a + 1) * b = b * a + b
      OBVIOUS
  <2> QED
      BY <1>1, <2>1
<1>9. q * d <= x
    BY <1>1, <1>8
<1>10. \A a, b, c \in Nat : b < c => (c * a + b) \div c = a /\ (c * a + b) % c = b
    OBVIOUS
<1>11. CASE y + m = d
  <2>1. x + m = (q + 1) * d
      BY <1>1, <1>8, <1>11
  <2>2. x + m = d * (q + 1) + 0 /\ q + 1 \in Nat
    <3>1. d * (q + 1) = (q + 1) * d /\ d * (q + 1) \in Nat
        BY <1>1
    <3> QED
        BY <1>1, <2>1, <3>1
  <2>3. (d * (q + 1) + 0) \div d = q + 1 /\ (d * (q + 1) + 0) % d = 0
      BY <1>10, <2>2
  <2> QED
      BY <1>1, <1>9, <2>1, <2>2, <2>3 DEF q
<1>12. CASE y + m < d
  <2>1. x + m = d * q + (y + m) /\ y + m \in Nat
      BY <1>1, <1>8
  <2>2. (d * q + (y + m)) \div d = q /\ (d * q + (y + m)) % d = y + m
      BY <1>1, <1>10, <1>12, <2>1
  <2>3. y + m # 0
      BY <1>1
  <2>4. (x + m) \div d = q /\ (x + m) % d # 0
      BY <2>1, <2>2, <2>3
  <2> QED
      BY <1>1, <1>9, <2>4 DEF q
<1> QED
    BY <1>1, <1>7, <1>11, <1>12

\* The double decimated samples have cells of their own as well.
LEMMA DDAddresses ==
    ASSUME HeaderOK, NEW b \in Blocks, NEW i \in Columns,
           NEW s \in 0 .. h.dd_sample_count - 1
    PROVE  /\ DDAddress(b, s, i) \in 0 .. h.dd_total_count * h.archive_mask_count - 1
           /\ h.dd_sample_count * b + s \in 0 .. h.dd_total_count - 1
           /\ \A c \in Blocks, j \in Columns, t \in 0 .. h.dd_sample_count - 1 :
                DDAddress(c, t, j) = DDAddress(b, s, i) => c = b /\ j = i /\ t = s
<1> DEFINE n == h.dd_sample_count
           k == h.major_block_count
           total == h.dd_total_count
           ids == h.archive_mask_count
           Cell(c, t) == c * n + t
<1>1. /\ n \in Nat /\ k \in Nat /\ total = n * k /\ total \in Nat /\ ids \in Nat
      /\ Blocks = 0 .. k - 1 /\ Columns = 0 .. ids - 1
    BY Types DEF Blocks, Columns
<1>2. /\ b \in 0 .. k - 1 /\ i \in 0 .. ids - 1 /\ s \in 0 .. n - 1
    BY <1>1
<1>3. \A c, j \in Nat : \A t \in 0 .. n - 1 :
        DDAddress(c, t, j) = j * total + Cell(c, t) /\ n * c + t = Cell(c, t)
  <2>1. \A x, y \in Nat : x * y = y * x /\ x * y \in Nat
      OBVIOUS
  <2> TAKE c, j \in Nat
  <2> TAKE t \in 0 .. n - 1
  <2>2. n * c = c * n /\ n * c \in Nat /\ total * j = j * total /\ total * j \in Nat
      BY <1>1, <2>1
  <2>3. DDAddress(c, t, j) = total * j + n * c + t
      BY DEF DDAddress
  <2> HIDE DEF n, total
  <2> QED
      BY <1>1, <2>2, <2>3
<1> HIDE DEF n, k, total, ids
<1>4. \A c \in 0 .. k - 1, t \in 0 .. n - 1 : Cell(c, t) \in 0 .. total - 1
  <2> SUFFICES ASSUME NEW c \in 0 .. k - 1, NEW t \in 0 .. n - 1
               PROVE  Cell(c, t) \in 0 .. total - 1
      OBVIOUS
  <2>1. c * n + t \in 0 .. (k * n) - 1
      BY <1>1, RowInTable
  <2>2. k * n = total
    <3>1. \A x, y \in Nat : x * y = y * x
        OBVIOUS
    <3> QED
        BY <1>1, <3>1
  <2> QED
      BY <2>1, <2>2
<1>5. Cell(b, s) \in 0 .. total - 1
    BY <1>2, <1>4
<1>6. i * total + Cell(b, s) \in 0 .. (ids * total) - 1
  <2> HIDE DEF Cell
  <2> QED
      BY <1>1, <1>2, <1>5, RowInTable
<1>7. ids * total = total * ids
  <2>1. \A x, y \in Nat : x * y = y * x
      OBVIOUS
  <2> QED
      BY <1>1, <2>1
<1>8. b \in Nat /\ i \in Nat
    BY <1>1, <1>2
<1>9. \A c \in Blocks, j \in Columns, t \in 0 .. n - 1 :
        DDAddress(c, t, j) = DDAddress(b, s, i) => c = b /\ j = i /\ t = s
  <2> SUFFICES ASSUME NEW c \in Blocks, NEW j \in Columns, NEW t \in 0 .. n - 1,
                      DDAddress(c, t, j) = DDAddress(b, s, i)
               PROVE  c = b /\ j = i /\ t = s
      OBVIOUS
  <2>1. c \in 0 .. k - 1 /\ c \in Nat /\ j \in Nat
      BY <1>1
  <2>2. Cell(c, t) \in 0 .. total - 1
      BY <1>4, <2>1
  <2>3. j * total + Cell(c, t) = i * total + Cell(b, s)
      BY <1>2, <1>3, <1>8, <2>1
  <2>4. j = i /\ Cell(c, t) = Cell(b, s)
    <3> DEFINE x == Cell(c, t)
               y == Cell(b, s)
    <3>1. x \in 0 .. total - 1 /\ y \in 0 .. total - 1
          /\ j * total + x = i * total + y
        BY <1>5, <2>2, <2>3
    <3> HIDE DEF x, y
    <3>2. j = i /\ x = y
        BY <1>1, <1>8, <2>1, <3>1, RowByRow
    <3> QED
        BY <3>2 DEF x, y
  <2>5. c = b /\ t = s
    <3>1. c * n + t = b * n + s
        BY <2>4
    <3> QED
        BY <1>1, <1>2, <1>8, <2>1, <3>1, RowByRow
  <2> QED
      BY <2>4, <2>5
<1>10. n * b + s \in 0 .. total - 1
    BY <1>2, <1>3, <1>5, <1>8
<1>11. DDAddress(b, s, i) \in 0 .. (total * ids) - 1
    BY <1>2, <1>3, <1>6, <1>7, <1>8
<1> QED
    BY <1>9, <1>10, <1>11 DEF n, total, ids

\* A block has a whole number of groups for double decimation.
LEMMA WholeGroups ==
    ASSUME HeaderOK
    PROVE  h.major_sample_count = h.dd_sample_count * Decimation
<1> DEFINE n == h.major_sample_count
           d == h.d_sample_count
           dd == h.dd_sample_count
           D1 == 2 ^ h.first_decimation_log2
           D2 == 2 ^ h.second_decimation_log2
<1>1. /\ D1 \in Nat /\ D2 \in Nat /\ d * D1 = n /\ dd * D2 = d /\ dd \in Nat
      /\ Decimation = D1 * D2
    BY DEF HeaderOK, HeaderTypes, HeaderSizes, h, Decimation, Decimation1
<1>2. \A x, y, z \in Nat : (x * y) * z = x * (z * y)
    OBVIOUS
<1> HIDE DEF n, d, dd, D1, D2
<1>3. dd * (D1 * D2) = n
    BY <1>1, <1>2
<1> QED
    BY <1>1, <1>3 DEF n, dd

\* What the numbers come to when an input block has been added.
GroupsAfter == FaAdvanced \div Decimation

LEMMA GroupsFill ==
    ASSUME IInv, FitInv
    PROVE  /\ GroupsDone \in Nat /\ GroupsAfter \in Nat
           /\ GroupsDone * Decimation \in Nat /\ GroupsDone * Decimation <= fa_offset
           /\ CompletesDD(FaAdvanced) => /\ GroupsAfter = GroupsDone + 1
                                         /\ FaAdvanced = (GroupsDone + 1) * Decimation
           /\ ~CompletesDD(FaAdvanced) => GroupsAfter = GroupsDone
           /\ GroupsDone < h.dd_sample_count
           /\ GroupsAfter <= h.dd_sample_count
           /\ FaAdvanced = h.major_sample_count =>
                CompletesDD(FaAdvanced) /\ GroupsAfter = h.dd_sample_count
<1> DEFINE n == h.major_sample_count
           m == input_frame_count
           d == Decimation
           ddn == h.dd_sample_count
<1>1. HeaderOK
    BY DEF IInv, PreparedInv
<1>2. /\ n \in Nat /\ m \in Nat /\ m > 0 /\ d \in Nat /\ d > 0 /\ ddn \in Nat
      /\ fa_offset \in 0 .. n - 1 /\ fa_offset % m = 0 /\ d % m = 0
      /\ FaAdvanced = fa_offset + m /\ FaAdvanced \in 1 .. n
    BY <1>1, Types, InputsFill DEF IInv, GatherInv, FitInv
<1>3. n = ddn * d
    BY <1>1, WholeGroups
<1>4. /\ GroupsDone = fa_offset \div d /\ GroupsAfter = FaAdvanced \div d
      /\ CompletesDD(FaAdvanced) <=> FaAdvanced % d = 0
    BY DEF GroupsDone, GroupsAfter, CompletesDD
<1> HIDE DEF n, m, d, ddn
<1>5. /\ GroupsDone \in Nat /\ GroupsDone * d <= fa_offset
      /\ FaAdvanced % d = 0 => GroupsAfter = GroupsDone + 1
                               /\ FaAdvanced = (GroupsDone + 1) * d
      /\ FaAdvanced % d # 0 => GroupsAfter = GroupsDone
  <2> DEFINE x == fa_offset
  <2>1. x \in Nat /\ x % m = 0 /\ FaAdvanced = x + m
      BY <1>2
  <2> HIDE DEF x
  <2>2. LET q == x \div d IN
        /\ q \in Nat /\ q * d <= x
        /\ (x + m) % d = 0 => (x + m) \div d = q + 1 /\ x + m = (q + 1) * d
        /\ (x + m) % d # 0 => (x + m) \div d = q
      BY <1>2, <2>1, GroupsAdvance
  <2> QED
      BY <1>4, <2>1, <2>2 DEF x
<1>6. \A x, y, z \in Nat : x >= y => x * z >= y * z
    OBVIOUS
<1>7. GroupsDone * d \in Nat /\ ddn * d \in Nat
    BY <1>2, <1>5, Products
<1>8. GroupsDone < ddn
    BY <1>2, <1>3, <1>5, <1>6, <1>7
<1>9. FaAdvanced = n => FaAdvanced % d = 0
  <2>1. \A x, y \in Nat : y > 0 => (x * y) % y = 0
      OBVIOUS
  <2> QED
      BY <1>2, <1>3, <2>1
<1>10. FaAdvanced = n => GroupsAfter = ddn
  <2>1. \A x, y \in Nat : y > 0 => (x * y) \div y = x
      OBVIOUS
  <2> QED
      BY <1>2, <1>3, <1>4, <2>1
<1> QED
    BY <1>2, <1>4, <1>5, <1>7, <1>8, <1>9, <1>10 DEF n, d, ddn

LEMMA DecimatedFill ==
    ASSUME IInv, FitInv, OffsetsInv
    PROVE  /\ input_decimation_count \in Nat
           /\ input_decimation_count * Decimation1 = input_frame_count
           /\ DAdvanced = d_offset + input_decimation_count
           /\ DAdvanced \in Nat /\ DAdvanced * Decimation1 = FaAdvanced
           /\ DAdvanced <= h.d_sample_count
           /\ FaAdvanced = h.major_sample_count => DAdvanced = h.d_sample_count
<1> DEFINE n == h.major_sample_count
           m == input_frame_count
           d == Decimation1
           dn == h.d_sample_count
           c == input_decimation_count
<1>1. /\ n \in Nat /\ m \in Nat /\ m > 0 /\ d \in Nat /\ d > 0 /\ dn \in Nat
      /\ n = dn * d /\ m % d = 0 /\ d_offset \in Nat /\ d_offset * d = fa_offset
      /\ FaAdvanced = fa_offset + m /\ FaAdvanced \in 1 .. n
    BY Types, InputsFill
       DEF IInv, PreparedInv, ShapeInv, GatherInv, FitInv, OffsetsInv
<1>2. c = m \div d /\ DAdvanced = d_offset + m \div d
    BY DEF input_decimation_count, DAdvanced
<1> HIDE DEF n, m, d, dn, c
<1>3. \A a, b \in Nat : b > 0 /\ a % b = 0 => a \div b \in Nat /\ a = (a \div b) * b
    OBVIOUS
<1>4. c \in Nat /\ m = c * d
    BY <1>1, <1>2, <1>3
<1>5. DAdvanced = d_offset + c /\ DAdvanced \in Nat
    BY <1>1, <1>2, <1>4
<1>6. DAdvanced * d = FaAdvanced
  <2>1. \A x, y, z \in Nat : (x + y) * z = x * z + y * z
      OBVIOUS
  <2> QED
      BY <1>1, <1>4, <1>5, <2>1
<1>7. DAdvanced <= dn /\ (FaAdvanced = n => DAdvanced = dn)
  <2>1. \A x, y, z \in Nat : z > 0 /\ x > y => x * z > y * z
      OBVIOUS
  <2>2. \A x, y \in Nat : x * y \in Nat
      OBVIOUS
  <2> QED
      BY <1>1, <1>5, <1>6, <2>1, <2>2
<1> QED
    BY <1>4, <1>5, <1>6, <1>7 DEF n, m, d, dn, c

\* The frames of an input block follow those gathered before it.
LEMMA InputFollows ==
    ASSUME IInv, NEW id, NEW j \in Nat, NEW n \in Nat
    PROVE  /\ Samples(id, j, n) =
                Frames(id, Origin + fa_offset + j, Origin + fa_offset + j + n)
           /\ Origin \in Int /\ fa_offset \in Nat
<1>1. /\ inputs \in Nat /\ input_frame_count \in Nat /\ fa_offset \in Nat
      /\ inputs * input_frame_count \in Nat /\ Origin \in Int
    BY InputsFill, BlockBegins, Products DEF IInv, ShapeInv
<1>2. Frame(0) = Origin + fa_offset
    BY <1>1 DEF Frame, Origin
<1> QED
    BY <1>1, <1>2, SamplesAreFrames

\* decimate_block fills the columns of decimated samples like those of samples.
LEMMA DSamplesGathered ==
    ASSUME IInv, DecimationInv
    PROVE  \A i \in Columns, s \in 0 .. DAdvanced - 1 :
                Gathered[d_data_offset(h, s, i)] =
                    Whole(IdOf(i), Origin, Decimation1, s)
<1> DEFINE memory == buffers[current_buffer]
           cells == FaCells \cup DCells
           d == Decimation1
           c == input_decimation_count
           New(k, i) == <<d_data_offset(h, d_offset + k, i),
                          Summary(IdOf(i), Samples(IdOf(i), k * d, d))>>
<1>1. HeaderOK /\ FitInv /\ OffsetsInv
    BY DEF IInv, PreparedInv, DecimationInv
<1>2. /\ c \in Nat /\ DAdvanced = d_offset + c /\ d_offset \in Nat
      /\ DAdvanced <= h.d_sample_count /\ h.d_sample_count \in Nat
      /\ d \in Nat /\ fa_offset = d_offset * d
    BY <1>1, DecimatedFill, Types DEF IInv, ShapeInv, OffsetsInv
<1>3. DOMAIN memory = 0 .. h.major_block_size - 1
    BY DEF IInv, ShapeInv
<1>4. ASSUME NEW e \in FaCells
      PROVE  \E s \in 0 .. h.major_sample_count - 1, i \in Columns :
                e[1] = fa_data_offset(h, s, i)
  <2>1. PICK j \in 0 .. input_frame_count - 1, i \in Columns :
            e[1] = fa_data_offset(h, fa_offset + j, i)
      BY DEF FaCells
  <2>2. fa_offset + j \in 0 .. h.major_sample_count - 1
      BY <1>1, InputsFill, Types
  <2> QED
      BY <2>1, <2>2
<1>5. DCells = {New(k, i) : k \in 0 .. c - 1, i \in Columns}
    BY DEF DCells, Summary
<1>6. ASSUME NEW k \in 0 .. c - 1, NEW i \in Columns
      PROVE  New(k, i)[2] = Whole(IdOf(i), Origin, d, d_offset + k)
  <2> DEFINE id == IdOf(i)
             z == Origin
             a == d_offset * d
             b == k * d
  <2>1. k \in Nat /\ b \in Nat /\ a \in Nat
      BY <1>2, Products
  <2> HIDE DEF id
  <2>2. Samples(id, b, d) = Frames(id, z + a + b, z + a + b + d) /\ z \in Int
      BY <1>2, <2>1, InputFollows
  <2>3. (d_offset + k) * d = a + b /\ (d_offset + k + 1) * d = a + b + d
    <3>1. \A x, y, w \in Nat : (x + y) * w = x * w + y * w
                               /\ (x + y + 1) * w = x * w + y * w + w
        OBVIOUS
    <3> QED
        BY <1>2, <2>1, <3>1
  <2>4. Whole(id, z, d, d_offset + k) =
            Summary(id, Frames(id, z + (a + b), z + (a + b + d)))
      BY <2>3 DEF Whole
  <2>5. z + (a + b) = z + a + b /\ z + (a + b + d) = z + a + b + d
    <3> HIDE DEF z, a, b
    <3> QED
      BY <1>2, <2>1, <2>2
  <2> QED
      BY <2>2, <2>4, <2>5 DEF id
<1> SUFFICES ASSUME NEW i \in Columns, NEW s \in 0 .. DAdvanced - 1
             PROVE  Gathered[d_data_offset(h, s, i)] = Whole(IdOf(i), Origin, d, s)
    OBVIOUS
<1> DEFINE a == d_data_offset(h, s, i)
<1> HIDE DEF c, d
<1>7. s \in 0 .. h.d_sample_count - 1 /\ s \in Nat
    BY <1>2
<1>8. a \in DOMAIN memory
    BY <1>1, <1>3, <1>7, DAddress
<1>9. \A e \in FaCells : e[1] # a
    BY <1>1, <1>4, <1>7, AreasApart
<1>10. \A k \in 0 .. c - 1, l \in Columns :
            New(k, l)[1] = a => l = i /\ d_offset + k = s
  <2> TAKE k \in 0 .. c - 1, l \in Columns
  <2>1. d_offset + k \in 0 .. h.d_sample_count - 1
      BY <1>2
  <2> QED
      BY <1>1, <1>7, <2>1, DAddress
<1>11. Gathered = Store(memory, cells)
    BY DEF Gathered
<1>12. CASE s < d_offset
  <2>1. \A e \in DCells : e[1] # a
    <3> SUFFICES ASSUME NEW k \in 0 .. c - 1, NEW l \in Columns, New(k, l)[1] = a
                 PROVE  FALSE
      <4> HIDE DEF New, a
      <4> QED
        BY <1>5
    <3>1. d_offset + k = s
        BY <1>10
    <3> QED
        BY <1>2, <1>12, <3>1
  <2>2. Gathered[a] = memory[a]
    <3> HIDE DEF memory, a
    <3> QED
        BY <1>8, <1>9, <1>11, <2>1, NotStored
  <2>3. memory[a] = Whole(IdOf(i), Origin, d, s)
    <3>1. s \in 0 .. d_offset - 1
        BY <1>2, <1>12
    <3> QED
        BY <3>1 DEF DecimationInv, DGatherInv, d
  <2> QED
      BY <2>2, <2>3
<1>13. CASE s >= d_offset
  <2> DEFINE k == s - d_offset
             e == New(k, i)
  <2>1. k \in 0 .. c - 1 /\ d_offset + k = s
      BY <1>2, <1>13
  <2>2. e \in DCells
    <3> HIDE DEF New, k
    <3> QED
      BY <1>5, <2>1
  <2>3. e[1] = a /\ e[2] = Whole(IdOf(i), Origin, d, s)
    <3>1. e[2] = Whole(IdOf(i), Origin, d, d_offset + k)
        BY <1>6, <2>1
    <3> QED
        BY <2>1, <3>1
  <2>4. \A f \in cells : f[1] = a => f[2] = e[2]
    <3> SUFFICES ASSUME NEW q \in 0 .. c - 1, NEW l \in Columns, New(q, l)[1] = a
                 PROVE  New(q, l)[2] = e[2]
      <4> HIDE DEF New, a, e
      <4> QED
        BY <1>5, <1>9
    <3>1. l = i /\ d_offset + q = s
        BY <1>10
    <3>2. New(q, l)[2] = Whole(IdOf(i), Origin, d, s)
        BY <1>6, <3>1
    <3> QED
        BY <2>3, <3>2
  <2> HIDE DEF memory, cells, a, e
  <2>5. e \in cells
      BY <2>2 DEF cells
  <2>6. Store(memory, cells)[e[1]] = e[2]
      BY <1>8, <2>3, <2>4, <2>5, Stored
  <2> QED
      BY <1>11, <2>3, <2>6 DEF a
<1> QED
    BY <1>2, <1>7, <1>12, <1>13 DEF d

\* The accumulators have the samples of the group that is not complete.
LEMMA SamplesAccumulated ==
    ASSUME IInv, DecimationInv, NEW i \in Columns
    PROVE  Accumulated[i] =
                Frames(IdOf(i), Origin + GroupsDone * Decimation, Origin + FaAdvanced)
<1> DEFINE from == GroupsDone * Decimation
           m == input_frame_count
           id == IdOf(i)
<1>1. FitInv /\ OffsetsInv
    BY DEF DecimationInv
<1>2. /\ from \in Nat /\ from <= fa_offset /\ fa_offset \in Nat /\ m \in Nat
      /\ FaAdvanced = fa_offset + m /\ Origin \in Int
    BY <1>1, GroupsFill, InputsFill, BlockBegins
<1>3. double_accumulators[i] = Frames(id, Origin + from, Origin + fa_offset)
    BY DEF DecimationInv, AccumulatorsInv
<1>4. Accumulated[i] = double_accumulators[i]
            \cup Samples(id, 0, input_decimation_count * Decimation1)
    BY DEF Accumulated
<1>5. input_decimation_count * Decimation1 = m
    BY <1>1, DecimatedFill
<1> DEFINE z == Origin
<1> HIDE DEF from, m, id, z
<1>6. Samples(id, 0, m) = Frames(id, z + fa_offset, z + FaAdvanced)
  <2>1. Samples(id, 0, m) = Frames(id, z + fa_offset + 0, z + fa_offset + 0 + m)
    <3>1. 0 \in Nat /\ m \in Nat
        BY <1>2
    <3> QED
        BY <3>1, InputFollows DEF z
  <2>2. z + fa_offset + 0 = z + fa_offset /\ z + fa_offset + 0 + m = z + FaAdvanced
      BY <1>2 DEF z
  <2> QED
      BY <2>1, <2>2
<1>7. Frames(id, z + from, z + fa_offset) \cup Frames(id, z + fa_offset, z + FaAdvanced)
        = Frames(id, z + from, z + FaAdvanced)
  <2> DEFINE a == z + from
             b == z + fa_offset
             c == z + FaAdvanced
  <2>1. a \in Int /\ b \in Int /\ c \in Int /\ a <= b /\ b <= c
      BY <1>2 DEF z
  <2> HIDE DEF a, b, c
  <2>2. (a .. b - 1) \cup (b .. c - 1) = a .. c - 1
      BY <2>1
  <2>3. Frames(id, a, b) \cup Frames(id, b, c) = Frames(id, a, c)
      BY <2>2 DEF Frames
  <2> QED
      BY <2>3 DEF a, b, c
<1> QED
    BY <1>3, <1>4, <1>5, <1>6, <1>7 DEF z, id, from

\* double_decimate_block fills the next place of the block in every column.
LEMMA GroupStored ==
    ASSUME IInv, DecimationInv, EventsFit, CompletesDD(FaAdvanced)
    PROVE  LET after == Store(dd_area, DDCells) IN
           /\ DOMAIN after = DOMAIN dd_area
           /\ \A i \in Columns : after[DDAddress(current_major_block, GroupsDone, i)] =
                    Whole(IdOf(i), Origin, Decimation, GroupsDone)
           /\ \A b \in Blocks, i \in Columns, s \in 0 .. h.dd_sample_count - 1 :
                b # current_major_block \/ s # GroupsDone =>
                    after[DDAddress(b, s, i)] = dd_area[DDAddress(b, s, i)]
<1> DEFINE cur == current_major_block
           q == GroupsDone
           d == Decimation
           after == Store(dd_area, DDCells)
           ddn == h.dd_sample_count
           Cell(i) == <<DDAddress(cur, q, i), Whole(IdOf(i), Origin, d, q)>>
<1>1. HeaderOK /\ PreparedInv /\ FitInv /\ OffsetsInv /\ cur \in Blocks
    BY DEF IInv, PreparedInv, DecimationInv, ShapeInv
<1>2. /\ q \in 0 .. ddn - 1 /\ q \in Nat /\ ddn \in Nat
      /\ FaAdvanced = (q + 1) * d
    BY <1>1, GroupsFill, Types
<1>3. DOMAIN dd_area = 0 .. h.dd_total_count * h.archive_mask_count - 1
    BY DEF DecimationInv, DDGatherInv
<1>4. ASSUME NEW i \in Columns
      PROVE  /\ dd_offset + i * h.dd_total_count = DDAddress(cur, q, i)
             /\ Combined(i = input_id_to_output(capture.events), Accumulated[i])
                    = Whole(IdOf(i), Origin, d, q)
  <2>1. i \in Nat /\ h.dd_total_count \in Nat /\ cur \in Nat
      BY <1>1, Types DEF Columns, Blocks
  <2>2. dd_offset = ddn * cur + q
      BY <1>1 DEF OffsetsInv
  <2>3. dd_offset + i * h.dd_total_count = h.dd_total_count * i + ddn * cur + q
    <3>1. \A x, y \in Nat : x * y = y * x /\ x * y \in Nat
        OBVIOUS
    <3>2. i * h.dd_total_count = h.dd_total_count * i
          /\ h.dd_total_count * i \in Nat /\ ddn * cur \in Nat
        BY <1>2, <2>1, <3>1
    <3> HIDE DEF ddn, q, cur
    <3> QED
        BY <1>2, <2>2, <3>2
  <2>4. Accumulated[i] = Frames(IdOf(i), Origin + q * d, Origin + (q + 1) * d)
      BY <1>2, SamplesAccumulated
  <2>5. (i = input_id_to_output(capture.events)) = (IdOf(i) = capture.events)
    <3>1. i = input_id_to_output(capture.events) <=> IdOf(i) = capture.events
        BY <1>1, EventsColumn
    <3> QED
        BY <3>1, Zenon
  <2>6. Combined(i = input_id_to_output(capture.events), Accumulated[i])
            = Combined(IdOf(i) = capture.events, Accumulated[i])
      BY <2>5, Zenon
  <2> QED
      BY <2>3, <2>4, <2>6 DEF DDAddress, Whole, Summary
<1>5. DDCells = {Cell(i) : i \in Columns}
    BY <1>4 DEF DDCells
<1>6. \A b \in Blocks, i \in Columns, s \in 0 .. ddn - 1 :
        /\ DDAddress(b, s, i) \in DOMAIN dd_area
        /\ \A l \in Columns : Cell(l)[1] = DDAddress(b, s, i) =>
                cur = b /\ l = i /\ q = s
  <2> TAKE b \in Blocks, i \in Columns, s \in 0 .. ddn - 1
  <2>1. DDAddress(b, s, i) \in DOMAIN dd_area
      BY <1>1, <1>3, DDAddresses
  <2>2. \A l \in Columns : DDAddress(cur, q, l) = DDAddress(b, s, i) =>
                cur = b /\ l = i /\ q = s
      BY <1>1, <1>2, DDAddresses
  <2> QED
      BY <2>1, <2>2
<1>7. ASSUME NEW i \in Columns PROVE after[Cell(i)[1]] = Cell(i)[2]
  <2>1. Cell(i)[1] \in DOMAIN dd_area
      BY <1>1, <1>2, <1>6
  <2>2. \A l \in Columns : Cell(l)[1] = Cell(i)[1] => l = i
      BY <1>1, <1>2, <1>6
  <2> HIDE DEF Cell
  <2>3. Cell(i) \in DDCells /\ \A e \in DDCells : e[1] = Cell(i)[1] => e[2] = Cell(i)[2]
      BY <1>5, <2>2
  <2> QED
      BY <2>1, <2>3, Stored
<1>8. ASSUME NEW b \in Blocks, NEW i \in Columns, NEW s \in 0 .. ddn - 1,
             b # cur \/ s # q
      PROVE  after[DDAddress(b, s, i)] = dd_area[DDAddress(b, s, i)]
  <2> DEFINE a == DDAddress(b, s, i)
  <2>1. a \in DOMAIN dd_area /\ \A l \in Columns : Cell(l)[1] # a
      BY <1>6, <1>8
  <2> HIDE DEF Cell, a
  <2>2. \A e \in DDCells : e[1] # a
      BY <1>5, <2>1
  <2> QED
      BY <2>1, <2>2, NotStored DEF a
<1>9. DOMAIN after = DOMAIN dd_area
    BY StoreDomain
<1> QED
    BY <1>7, <1>8, <1>9

\* All that process_block makes of doubly decimated data.
LEMMA GroupsGathered ==
    ASSUME IInv, DecimationInv, EventsFit, NEW jitter \in Jitter, process_block(jitter)
    PROVE  /\ DOMAIN dd_area' = DOMAIN dd_area
           /\ \A i \in Columns, s \in 0 .. GroupsAfter - 1 :
                dd_area'[DDAddress(current_major_block, s, i)] =
                    Whole(IdOf(i), Origin, Decimation, s)
           /\ \A b \in Blocks, i \in Columns, s \in 0 .. h.dd_sample_count - 1 :
                b # current_major_block =>
                    dd_area'[DDAddress(b, s, i)] = dd_area[DDAddress(b, s, i)]
           /\ \A i \in Columns : double_accumulators'[i] =
                Frames(IdOf(i), Origin + GroupsAfter * Decimation, Origin + FaAdvanced)
<1>1. HeaderOK /\ FitInv /\ OffsetsInv /\ current_major_block \in Blocks
    BY DEF IInv, PreparedInv, DecimationInv, ShapeInv
<1>2. /\ GroupsDone \in 0 .. h.dd_sample_count - 1 /\ GroupsDone \in Nat
      /\ GroupsAfter \in Nat /\ GroupsAfter <= h.dd_sample_count
      /\ h.dd_sample_count \in Nat /\ Origin \in Int /\ FaAdvanced \in Int
    BY <1>1, GroupsFill, Types, BlockBegins, InputsFill
<1>3. \A i \in Columns, s \in 0 .. GroupsDone - 1 :
        dd_area[DDAddress(current_major_block, s, i)] =
            Whole(IdOf(i), Origin, Decimation, s)
    BY DEF DecimationInv, DDGatherInv
<1>4. CASE CompletesDD(FaAdvanced)
  <2>1. dd_area' = Store(dd_area, DDCells) /\ double_accumulators' = Empty
      BY <1>4 DEF process_block
  <2>2. /\ GroupsAfter = GroupsDone + 1
        /\ FaAdvanced = (GroupsDone + 1) * Decimation
      BY <1>1, <1>4, GroupsFill
  <2>3. /\ DOMAIN dd_area' = DOMAIN dd_area
        /\ \A i \in Columns : dd_area'[DDAddress(current_major_block, GroupsDone, i)] =
                Whole(IdOf(i), Origin, Decimation, GroupsDone)
        /\ \A b \in Blocks, i \in Columns, s \in 0 .. h.dd_sample_count - 1 :
            b # current_major_block \/ s # GroupsDone =>
                dd_area'[DDAddress(b, s, i)] = dd_area[DDAddress(b, s, i)]
      BY <1>4, <2>1, GroupStored
  <2>4. ASSUME NEW i \in Columns, NEW s \in 0 .. GroupsAfter - 1
        PROVE  dd_area'[DDAddress(current_major_block, s, i)] =
                    Whole(IdOf(i), Origin, Decimation, s)
    <3>1. /\ s = GroupsDone \/ (s # GroupsDone /\ s \in 0 .. GroupsDone - 1)
          /\ s \in 0 .. h.dd_sample_count - 1
      <4>1. GroupsAfter = GroupsDone + 1
          BY <2>2
      <4> QED
          BY <1>2, <4>1
    <3> QED
        BY <1>1, <1>3, <2>3, <3>1
  <2>5. \A i \in Columns : double_accumulators'[i] =
            Frames(IdOf(i), Origin + GroupsAfter * Decimation, Origin + FaAdvanced)
    <3> DEFINE z == Origin + FaAdvanced
    <3>1. Origin + GroupsAfter * Decimation = z
        BY <2>2
    <3>2. z \in Int
        BY <1>2
    <3> HIDE DEF z
    <3>3. \A id : Frames(id, z, z) = {}
      <4>1. z .. z - 1 = {}
          BY <3>2
      <4> QED
          BY <4>1 DEF Frames
    <3> QED
        BY <2>1, <3>1, <3>3 DEF Empty, z
  <2> QED
      BY <2>3, <2>4, <2>5
<1>5. CASE ~CompletesDD(FaAdvanced)
  <2>1. dd_area' = dd_area /\ double_accumulators' = Accumulated
      BY <1>5 DEF process_block
  <2>2. GroupsAfter = GroupsDone
      BY <1>1, <1>5, GroupsFill
  <2> QED
      BY <1>3, <2>1, <2>2, SamplesAccumulated
<1> QED
    BY <1>4, <1>5

\* The next place for doubly decimated data is the first of the next block.
LEMMA PlaceAdvances ==
    ASSUME IInv, FitInv, OffsetsInv, FaAdvanced = h.major_sample_count
    PROVE  (dd_offset + 1) % h.dd_total_count =
                h.dd_sample_count * NextBlock(current_major_block)
<1> DEFINE n == h.dd_sample_count
           k == h.major_block_count
           total == h.dd_total_count
           cur == current_major_block
<1>1. /\ n \in Nat /\ k \in Nat /\ k > 1 /\ total = n * k /\ total \in Nat
      /\ cur \in 0 .. k - 1
    BY Types DEF IInv, PreparedInv, ShapeInv, Blocks
<1>2. GroupsDone \in Nat /\ GroupsDone < n /\ GroupsDone + 1 = n
    BY GroupsFill
<1>3. dd_offset = n * cur + GroupsDone
    BY DEF OffsetsInv
<1>4. NextBlock(cur) = (cur + 1) % k
    BY DEF NextBlock
<1> HIDE DEF n, k, total, cur
<1>5. n * cur \in Nat /\ n > 0 /\ cur \in Nat
    BY <1>1, <1>2, Products
<1>6. dd_offset + 1 = n * (cur + 1)
  <2>1. n * (cur + 1) = n * cur + n
      BY <1>1, <1>5
  <2> QED
      BY <1>1, <1>2, <1>3, <1>5, <2>1
<1>7. CASE cur + 1 = k
  <2>1. \A x \in Nat : x > 0 => x % x = 0
      OBVIOUS
  <2>2. NextBlock(cur) = 0
      BY <1>1, <1>4, <1>7, <2>1
  <2>3. dd_offset + 1 = total /\ total > 0
      BY <1>1, <1>5, <1>6, <1>7, Products
  <2>4. (dd_offset + 1) % total = 0
      BY <1>1, <2>1, <2>3
  <2>5. n * 0 = 0
      BY <1>1
  <2> QED
      BY <2>2, <2>4, <2>5 DEF n, total, cur
<1>8. CASE cur + 1 < k
  <2>1. \A x, y \in Nat : x < y => x % y = x
      OBVIOUS
  <2>2. NextBlock(cur) = cur + 1
      BY <1>1, <1>4, <1>5, <1>8, <2>1
  <2>3. n * (cur + 1) < total /\ n * (cur + 1) \in Nat
    <3>1. \A x, y, z \in Nat : x > 0 /\ y < z => x * y < x * z /\ x * y \in Nat
        OBVIOUS
    <3> QED
        BY <1>1, <1>5, <1>8, <3>1
  <2>4. (dd_offset + 1) % total = n * (cur + 1)
      BY <1>1, <1>6, <2>1, <2>3
  <2> QED
      BY <2>2, <2>4 DEF n, total, cur
<1> QED
    BY <1>1, <1>7, <1>8

\* The data of block b summarise its samples.
MatchesAt(b) ==
    \A i \in Columns :
        /\ \A s \in 0 .. h.d_sample_count - 1 :
            read_d_block(b, i)[s] =
                Summary(IdOf(i), Group(b, IdOf(i), s, Decimation1))
        /\ \A s \in 0 .. h.dd_sample_count - 1 :
            read_dd_block(b, i)[s] =
                Summary(IdOf(i), Group(b, IdOf(i), s, Decimation))

LEMMA SummaryKept ==
    ASSUME IInv, UNCHANGED <<header, capture>>
    PROVE  /\ h' = h /\ Blocks' = Blocks /\ Columns' = Columns
           /\ input_frame_count' = input_frame_count
           /\ Decimation1' = Decimation1 /\ Decimation' = Decimation
           /\ \A i \in Columns : IdOf(i)' = IdOf(i)
           /\ \A id, samples : Summary(id, samples)' = Summary(id, samples)
           /\ \A id, z, n, s : Whole(id, z, n, s)' = Whole(id, z, n, s)
           /\ \A s, i : d_data_offset(h, s, i)' = d_data_offset(h, s, i)
           /\ \A b, s, i : DDAddress(b, s, i)' = DDAddress(b, s, i)
<1>1. /\ h' = h /\ Blocks' = Blocks /\ Columns' = Columns /\ capture' = capture
      /\ input_frame_count' = input_frame_count
      /\ \A i \in Columns : IdOf(i)' = IdOf(i)
    BY PreparedKept
<1>2. Decimation1' = Decimation1 /\ Decimation' = Decimation
    BY <1>1 DEF Decimation1, Decimation
<1>3. \A id, samples : Summary(id, samples)' = Summary(id, samples)
    BY <1>1, Zenon DEF Summary, Combined
<1>4. \A id, z, n, s : Whole(id, z, n, s)' = Whole(id, z, n, s)
    BY <1>3 DEF Whole, Frames
<1> QED
    BY <1>1, <1>2, <1>3, <1>4 DEF d_data_offset, DDAddress

LEMMA OthersMatch ==
    ASSUME IInv, DecimatedDataMatches, UNCHANGED <<header, capture>>,
           NEW b \in Blocks, b # current_major_block,
           disk'[b] = disk[b], data_index'[b] = data_index[b],
           data_index'[b].duration # 0,
           \A i \in Columns, s \in 0 .. h.dd_sample_count - 1 :
                dd_area'[DDAddress(b, s, i)] = dd_area[DDAddress(b, s, i)]
    PROVE  MatchesAt(b)'
<1>1. b \in Valid
    BY DEF Valid
<1>2. MatchesAt(b)
    BY <1>1 DEF DecimatedDataMatches, MatchesAt
<1>3. /\ h' = h /\ Columns' = Columns
      /\ Decimation1' = Decimation1 /\ Decimation' = Decimation
      /\ \A i \in Columns : IdOf(i)' = IdOf(i)
      /\ \A id, samples : Summary(id, samples)' = Summary(id, samples)
    BY SummaryKept
<1>4. \A i, s : (read_d_block(b, i)[s])' = read_d_block(b, i)[s]
    BY <1>3 DEF read_d_block
<1>5. \A i \in Columns, s \in 0 .. h.dd_sample_count - 1 :
        (read_dd_block(b, i)[s])' = read_dd_block(b, i)[s]
    BY <1>3 DEF read_dd_block, DDAddress
<1>6. \A id, s, n : Group(b, id, s, n)' = Group(b, id, s, n)
    BY DEF Group
<1> QED
    BY <1>2, <1>3, <1>4, <1>5, <1>6 DEF MatchesAt

\* The block that is completed, with the entry of the index it was given.
LEMMA CompletedMatches ==
    ASSUME IInv, DecimationInv, EventsFit, NEW jitter \in Jitter,
           process_block(jitter), FaAdvanced >= h.major_sample_count,
           NEW b, b = current_major_block
    PROVE  MatchesAt(b)'
<1> DEFINE d == h.d_sample_count
           ids == h.archive_mask_count
           n == h.major_sample_count
<1>1. HeaderOK /\ FitInv /\ OffsetsInv /\ ShapeInv /\ b \in Blocks
    BY DEF IInv, PreparedInv, DecimationInv, ShapeInv
<1>2. /\ FaAdvanced = n /\ n \in Nat /\ ids \in Nat
      /\ DAdvanced = d /\ GroupsAfter = h.dd_sample_count
      /\ Decimation \in Nat /\ Decimation1 \in Nat /\ d \in Nat
      /\ h.dd_sample_count \in Nat
    BY <1>1, InputsFill, DecimatedFill, GroupsFill, Types
<1>3. /\ UNCHANGED <<header, capture>>
      /\ disk' = [disk EXCEPT ![current_major_block] = Gathered]
    BY <1>2 DEF process_block
<1>4. disk'[b] = Gathered
    BY <1>1, <1>3 DEF ShapeInv
<1>5. data_index'[b].id_zero = Origin /\ Origin \in Int
  <2> DEFINE stamps == Append(timestamps, Frame(input_frame_count) * Period + jitter)
             id_zero == IF timestamps = <<>> THEN Frame(0)
                        ELSE data_index[current_major_block].id_zero
             entry == FittedEntry(stamps)
  <2>1. id_zero = Origin /\ Origin \in Int
      BY BlockBegins
  <2>2. data_index' = [data_index EXCEPT ![current_major_block] =
                        [timestamp |-> entry.timestamp,
                         duration |-> entry.duration, id_zero |-> id_zero]]
      BY <1>2 DEF process_block
  <2> HIDE DEF stamps, entry, id_zero
  <2>3. data_index'[b] = [timestamp |-> entry.timestamp,
                          duration |-> entry.duration, id_zero |-> id_zero]
      BY <1>1, <2>2, IndexWritten
  <2> QED
      BY <2>1, <2>3
<1>6. /\ h' = h /\ Columns' = Columns
      /\ Decimation1' = Decimation1 /\ Decimation' = Decimation
      /\ \A i \in Columns : IdOf(i)' = IdOf(i)
      /\ \A id, samples : Summary(id, samples)' = Summary(id, samples)
    BY <1>3, SummaryKept
<1>7. ASSUME NEW i \in Columns, NEW s \in 0 .. d - 1
      PROVE  (read_d_block(b, i)[s])' = Whole(IdOf(i), Origin, Decimation1, s)
  <2>1. (read_d_block(b, i)[s])' = disk'[b][ids * n + DecimatedEntry * (d * i + s)]
      BY <1>6 DEF read_d_block
  <2>2. ids * n = n * ids /\ d * i = i * d
    <3>1. i \in Nat
        BY <1>1, Types DEF Columns
    <3>2. \A x, y \in Nat : x * y = y * x
        OBVIOUS
    <3> QED
        BY <1>2, <3>1, <3>2
  <2>3. (read_d_block(b, i)[s])' = Gathered[d_data_offset(h, s, i)]
      BY <1>4, <2>1, <2>2 DEF d_data_offset
  <2>4. s \in 0 .. DAdvanced - 1
      BY <1>2
  <2> QED
      BY <2>3, <2>4, DSamplesGathered
<1>8. ASSUME NEW i \in Columns, NEW s \in 0 .. h.dd_sample_count - 1
      PROVE  (read_dd_block(b, i)[s])' = Whole(IdOf(i), Origin, Decimation, s)
  <2>1. (read_dd_block(b, i)[s])' = dd_area'[DDAddress(b, s, i)]
      BY <1>6 DEF read_dd_block, DDAddress
  <2>2. s \in 0 .. GroupsAfter - 1
      BY <1>2
  <2> QED
      BY <2>1, <2>2, GroupsGathered
<1>9. ASSUME NEW i \in Columns, NEW s \in Nat
       PROVE  /\ (Summary(IdOf(i), Group(b, IdOf(i), s, Decimation1)))' =
                    Whole(IdOf(i), Origin, Decimation1, s)
              /\ (Summary(IdOf(i), Group(b, IdOf(i), s, Decimation)))' =
                    Whole(IdOf(i), Origin, Decimation, s)
  <2>1. /\ (Group(b, IdOf(i), s, Decimation1))' = FramesFrom(IdOf(i), Origin,
                s * Decimation1, (s + 1) * Decimation1)
        /\ (Group(b, IdOf(i), s, Decimation))' = FramesFrom(IdOf(i), Origin,
                s * Decimation, (s + 1) * Decimation)
      BY <1>5, <1>6 DEF Group, FramesFrom
  <2>2. \A id, samples : (Summary(id, samples))' = Summary(id, samples)
      BY <1>6
  <2>3. ASSUME NEW k \in Nat, NEW id
        PROVE  Summary(id, FramesFrom(id, Origin, s * k, (s + 1) * k))
                    = Whole(id, Origin, k, s)
    <3> DEFINE z == Origin
    <3>1. z \in Int
        BY <1>5
    <3> HIDE DEF z
    <3>2. Summary(id, FramesFrom(id, z, s * k, (s + 1) * k)) = Whole(id, z, k, s)
        BY <3>1, GroupIsFrames
    <3> QED
        BY <3>2 DEF z
  <2> QED
      BY <1>2, <1>6, <2>1, <2>2, <2>3
<1>10. \A s \in 0 .. d - 1 : s \in Nat
    OBVIOUS
<1>11. \A s \in 0 .. h.dd_sample_count - 1 : s \in Nat
    OBVIOUS
<1>12. h.d_sample_count' = d /\ h.dd_sample_count' = h.dd_sample_count
    BY <1>6
<1> QED
    BY <1>6, <1>7, <1>8, <1>9, <1>10, <1>11, <1>12 DEF MatchesAt

-----------------------------------------------------------------------------
(* Every step keeps decimated data. *)

\* Nothing is gathered of the current block yet.
Fresh ==
    /\ HeaderOK /\ fa_offset = 0 /\ d_offset = 0 /\ Origin \in Int
    /\ double_accumulators = Empty
    /\ current_major_block \in Nat
    /\ dd_offset = h.dd_sample_count * current_major_block
    /\ DOMAIN dd_area = 0 .. h.dd_total_count * h.archive_mask_count - 1

Begun == OffsetsInv /\ AccumulatorsInv /\ DGatherInv /\ DDGatherInv

LEMMA FreshIsBegun == Fresh => Begun
<1> SUFFICES ASSUME Fresh PROVE Begun
    OBVIOUS
<1>1. /\ Decimation \in Nat /\ Decimation > 0 /\ Decimation1 \in Nat
      /\ h.dd_sample_count * current_major_block \in Nat
    BY Types, Products DEF Fresh
<1>2. GroupsDone = 0
  <2>1. \A x \in Nat : x > 0 => 0 \div x = 0
      OBVIOUS
  <2> QED
      BY <1>1, <2>1 DEF GroupsDone, Fresh
<1>3. 0 * Decimation1 = 0 /\ 0 * Decimation = 0
    BY <1>1
<1>4. OffsetsInv
    BY <1>1, <1>2, <1>3 DEF OffsetsInv, Fresh
<1>5. AccumulatorsInv
  <2> DEFINE z == Origin
  <2>1. Origin + GroupsDone * Decimation = z /\ Origin + fa_offset = z /\ z \in Int
      BY <1>2, <1>3 DEF Fresh
  <2> HIDE DEF z
  <2>2. \A id : Frames(id, z, z) = {}
    <3>1. z .. z - 1 = {}
        BY <2>1
    <3> QED
        BY <3>1 DEF Frames
  <2> QED
      BY <2>1, <2>2 DEF AccumulatorsInv, Empty, Fresh
<1>6. DGatherInv /\ DDGatherInv
  <2>1. 0 .. d_offset - 1 = {} /\ 0 .. GroupsDone - 1 = {}
      BY <1>2 DEF Fresh
  <2> QED
      BY <2>1 DEF DGatherInv, DDGatherInv, Fresh
<1> QED
    BY <1>4, <1>5, <1>6 DEF Begun

\* Only the entry of the current block is written.
LEMMA IndexElsewhere ==
    ASSUME IInv, NEW jitter \in Jitter, process_block(jitter),
           NEW b \in Blocks, b # current_major_block
    PROVE  data_index'[b] = data_index[b]
<1> DEFINE stamps == Append(timestamps, Frame(input_frame_count) * Period + jitter)
           id_zero == IF timestamps = <<>> THEN Frame(0)
                      ELSE data_index[current_major_block].id_zero
           entry == FittedEntry(stamps)
<1>1. \/ data_index' = [data_index EXCEPT ![current_major_block] =
                        [timestamp |-> entry.timestamp,
                         duration |-> entry.duration, id_zero |-> id_zero]]
      \/ data_index' = [data_index EXCEPT ![current_major_block].id_zero = id_zero]
    BY DEF process_block
<1> HIDE DEF stamps, id_zero, entry
<1> QED
    BY <1>1, IndexWritten DEF IInv

\* There is a place left in the block for the group that is not its last.
LEMMA PlaceLeft ==
    ASSUME IInv, FitInv, OffsetsInv, ~(FaAdvanced >= h.major_sample_count),
           CompletesDD(FaAdvanced)
    PROVE  dd_offset + 1 \in 0 .. h.dd_total_count - 1
<1> DEFINE n == h.dd_sample_count
           d == Decimation
           cur == current_major_block
<1>1. HeaderOK /\ cur \in Blocks
    BY DEF IInv, PreparedInv, ShapeInv
<1>2. /\ n \in Nat /\ d \in Nat /\ GroupsDone \in Nat
      /\ GroupsAfter = GroupsDone + 1 /\ FaAdvanced = (GroupsDone + 1) * d
      /\ FaAdvanced \in Int /\ h.major_sample_count \in Int
      /\ GroupsAfter <= n
    BY <1>1, Types, GroupsFill, InputsFill
<1>3. GroupsAfter # n
  <2>1. h.major_sample_count = n * d
      BY <1>1, WholeGroups
  <2> QED
      BY <1>2, <2>1
<1>4. GroupsDone + 1 \in 0 .. n - 1
    BY <1>2, <1>3
<1>5. n * cur + (GroupsDone + 1) \in 0 .. h.dd_total_count - 1
  <2>1. PICK i \in Columns : TRUE
      BY <1>1, Types DEF Columns
  <2> QED
      BY <1>1, <1>4, <2>1, DDAddresses
<1>6. dd_offset = n * cur + GroupsDone /\ n * cur \in Nat
  <2>1. cur \in Nat
      BY <1>1, Types DEF Blocks
  <2> QED
      BY <1>2, <2>1, Products DEF OffsetsInv
<1> HIDE DEF n, cur
<1>7. dd_offset + 1 = n * cur + (GroupsDone + 1)
    BY <1>2, <1>6
<1> QED
    BY <1>5, <1>7

LEMMA DecimationCompleted ==
    ASSUME IInv, DecimationInv, EventsFit, NEW jitter \in Jitter,
           process_block(jitter), FaAdvanced >= h.major_sample_count
    PROVE  DecimationInv'
<1>1. HeaderOK /\ FitInv /\ OffsetsInv /\ ShapeInv
    BY DEF IInv, PreparedInv, DecimationInv
<1>2. FaAdvanced = h.major_sample_count /\ CompletesDD(FaAdvanced)
  <2>1. FaAdvanced = h.major_sample_count
      BY <1>1, InputsFill, Types
  <2> QED
      BY <1>1, <2>1, GroupsFill
<1>3. /\ UNCHANGED <<header, capture>> /\ fa_offset' = 0 /\ d_offset' = 0
      /\ double_accumulators' = Empty
      /\ dd_offset' = (dd_offset + 1) % h.dd_total_count
      /\ current_major_block' = NextBlock(current_major_block)
      /\ disk' = [disk EXCEPT ![current_major_block] = Gathered]
    BY <1>2 DEF process_block
<1>4. /\ h' = h /\ Blocks' = Blocks /\ Columns' = Columns
      /\ input_frame_count' = input_frame_count
      /\ Decimation1' = Decimation1 /\ Decimation' = Decimation
      /\ HeaderOK'
    BY <1>1, <1>3, SummaryKept DEF HeaderOK
<1>5. IInv'
    BY BlockCompleted
<1>6. FitInv'
    BY <1>1, <1>4 DEF FitInv
<1>7. Fresh'
  <2>1. dd_offset' = h'.dd_sample_count * current_major_block'
      BY <1>1, <1>2, <1>3, <1>4, PlaceAdvances
  <2>2. current_major_block' \in Nat
      BY <1>1, <1>3, NextIsBlock, Types DEF ShapeInv, Blocks
  <2>3. DOMAIN dd_area' = (0 .. h.dd_total_count * h.archive_mask_count - 1)'
      BY <1>4, GroupsGathered DEF DecimationInv, DDGatherInv
  <2>4. Origin' \in Int
    <3>1. inputs' \in Nat /\ input_frame_count' \in Nat
        BY <1>1, <1>4, <1>5, InputsFill DEF IInv, ShapeInv
    <3>2. inputs' * input_frame_count' \in Nat
        BY <3>1, Products
    <3> QED
        BY <1>3, <3>2 DEF Origin
  <2>5. Empty' = Empty
      BY <1>4 DEF Empty
  <2> QED
      BY <1>3, <1>4, <2>1, <2>2, <2>3, <2>4, <2>5 DEF Fresh
<1>8. Begun'
  <2>1. (Fresh => Begun)'
      BY FreshIsBegun, PTL
  <2> QED
      BY <1>7, <2>1
<1>9. DecimatedDataMatches'
  <2> SUFFICES ASSUME NEW b \in Valid' PROVE MatchesAt(b)'
      BY DEF DecimatedDataMatches, MatchesAt
  <2>1. b \in Blocks /\ data_index'[b].duration # 0
      BY <1>4 DEF Valid
  <2>2. CASE b = current_major_block
      BY <2>2, CompletedMatches
  <2>3. CASE b # current_major_block
    <3>1. disk'[b] = disk[b]
        BY <1>1, <1>3, <2>1, <2>3 DEF ShapeInv
    <3>2. data_index'[b] = data_index[b]
        BY <2>1, <2>3, IndexElsewhere
    <3>3. \A i \in Columns, s \in 0 .. h.dd_sample_count - 1 :
            dd_area'[DDAddress(b, s, i)] = dd_area[DDAddress(b, s, i)]
        BY <2>1, <2>3, GroupsGathered
    <3> QED
        BY <1>3, <2>1, <2>3, <3>1, <3>2, <3>3, OthersMatch DEF DecimationInv
  <2> QED
      BY <2>2, <2>3
<1> QED
    BY <1>6, <1>8, <1>9 DEF DecimationInv, Begun

LEMMA DecimationContinued ==
    ASSUME IInv, DecimationInv, EventsFit, NEW jitter \in Jitter,
           process_block(jitter), ~(FaAdvanced >= h.major_sample_count)
    PROVE  DecimationInv'
<1>1. HeaderOK /\ FitInv /\ OffsetsInv /\ ShapeInv
    BY DEF IInv, PreparedInv, DecimationInv
<1>2. /\ UNCHANGED <<header, capture, disk, current_buffer, current_major_block>>
      /\ fa_offset' = FaAdvanced /\ d_offset' = DAdvanced
      /\ buffers' = [buffers EXCEPT ![current_buffer] = Gathered]
      /\ inputs' = inputs + 1
    BY DEF process_block
<1>3. /\ h' = h /\ Blocks' = Blocks /\ Columns' = Columns
      /\ input_frame_count' = input_frame_count
      /\ Decimation1' = Decimation1 /\ Decimation' = Decimation
      /\ \A i \in Columns : IdOf(i)' = IdOf(i)
      /\ \A id, z, n, s : Whole(id, z, n, s)' = Whole(id, z, n, s)
      /\ \A s, i : d_data_offset(h, s, i)' = d_data_offset(h, s, i)
      /\ \A b, s, i : DDAddress(b, s, i)' = DDAddress(b, s, i)
    BY <1>2, SummaryKept
<1>4. GroupsDone' = GroupsAfter
    BY <1>2, <1>3 DEF GroupsDone, GroupsAfter
<1>5. Origin' = Origin
  <2>1. /\ inputs \in Nat /\ input_frame_count \in Nat /\ fa_offset \in Nat
        /\ FaAdvanced = fa_offset + input_frame_count
        /\ \A x, y \in Nat : (x + 1) * y = x * y + y /\ x * y \in Nat
      BY <1>1, InputsFill DEF ShapeInv
  <2>2. inputs' * input_frame_count' = inputs * input_frame_count + input_frame_count
      BY <1>2, <1>3, <2>1
  <2> QED
      BY <1>2, <2>1, <2>2 DEF Origin
<1>6. FitInv'
    BY <1>1, <1>3 DEF FitInv
<1>7. OffsetsInv'
  <2>1. DAdvanced * Decimation1 = FaAdvanced
      BY <1>1, DecimatedFill
  <2>2. dd_offset' = h.dd_sample_count * current_major_block + GroupsAfter
    <3>1. h.dd_sample_count * current_major_block \in Nat /\ GroupsDone \in Nat
      <4>1. h.dd_sample_count \in Nat /\ current_major_block \in Nat
          BY <1>1, Types DEF ShapeInv, Blocks
      <4> QED
          BY <1>1, <4>1, GroupsFill, Products
    <3>2. dd_offset = h.dd_sample_count * current_major_block + GroupsDone
        BY <1>1 DEF OffsetsInv
    <3>3. CASE ~CompletesDD(FaAdvanced)
        BY <1>1, <3>2, <3>3, GroupsFill DEF process_block
    <3>4. CASE CompletesDD(FaAdvanced)
      <4>1. dd_offset' = (dd_offset + 1) % h.dd_total_count
          BY <3>4 DEF process_block
      <4>2. GroupsAfter = GroupsDone + 1
          BY <1>1, <3>4, GroupsFill
      <4>3. dd_offset + 1 \in 0 .. h.dd_total_count - 1
          BY <1>1, <3>4, PlaceLeft
      <4>4. \A x, y \in Nat : x < y => x % y = x
          OBVIOUS
      <4>5. h.dd_total_count \in Nat
          BY <1>1, Types
      <4> QED
          BY <3>1, <3>2, <4>1, <4>2, <4>3, <4>4, <4>5
    <3> QED
        BY <3>3, <3>4
  <2> QED
      BY <1>2, <1>3, <1>4, <2>1, <2>2 DEF OffsetsInv
<1>8. AccumulatorsInv'
    BY <1>2, <1>3, <1>4, <1>5, GroupsGathered DEF AccumulatorsInv
<1>9. DGatherInv'
  <2>1. (buffers[current_buffer])' = Gathered
      BY <1>2, BuffersKept
  <2> SUFFICES ASSUME NEW i \in Columns', NEW s \in (0 .. d_offset - 1)'
               PROVE  (buffers[current_buffer][d_data_offset(h, s, i)])' =
                            (Whole(IdOf(i), Origin, Decimation1, s))'
      BY DEF DGatherInv
  <2>2. i \in Columns /\ s \in 0 .. DAdvanced - 1
      BY <1>2, <1>3
  <2>3. Gathered[d_data_offset(h, s, i)] = Whole(IdOf(i), Origin, Decimation1, s)
      BY <2>2, DSamplesGathered
  <2> QED
      BY <1>3, <1>5, <2>1, <2>2, <2>3
<1>10. DDGatherInv'
  <2>1. DOMAIN dd_area' = (0 .. h.dd_total_count * h.archive_mask_count - 1)'
      BY <1>3, GroupsGathered DEF DecimationInv, DDGatherInv
  <2> SUFFICES ASSUME NEW i \in Columns', NEW s \in (0 .. GroupsDone - 1)'
               PROVE  (dd_area[DDAddress(current_major_block, s, i)])' =
                            (Whole(IdOf(i), Origin, Decimation, s))'
      BY <2>1 DEF DDGatherInv
  <2>2. i \in Columns /\ s \in 0 .. GroupsAfter - 1
      BY <1>3, <1>4
  <2>3. dd_area'[DDAddress(current_major_block, s, i)] =
            Whole(IdOf(i), Origin, Decimation, s)
      BY <2>2, GroupsGathered
  <2> QED
      BY <1>2, <1>3, <1>5, <2>2, <2>3
<1>11. DecimatedDataMatches'
  <2> SUFFICES ASSUME NEW b \in Valid' PROVE MatchesAt(b)'
      BY DEF DecimatedDataMatches, MatchesAt
  <2>1. b \in Blocks /\ b # current_major_block /\ data_index'[b].duration # 0
      BY <1>2, <1>3 DEF Valid
  <2>2. disk'[b] = disk[b]
      BY <1>2
  <2>3. data_index'[b] = data_index[b]
      BY <2>1, IndexElsewhere
  <2>4. \A i \in Columns, s \in 0 .. h.dd_sample_count - 1 :
            dd_area'[DDAddress(b, s, i)] = dd_area[DDAddress(b, s, i)]
      BY <2>1, GroupsGathered
  <2> QED
      BY <1>2, <2>1, <2>2, <2>3, <2>4, OthersMatch DEF DecimationInv
<1> QED
    BY <1>6, <1>7, <1>8, <1>9, <1>10, <1>11 DEF DecimationInv

\* What was gathered is thrown away, and the groups of the block with it.
LEMMA DecimationAbandoned ==
    ASSUME IInv, DecimationInv, UNCHANGED <<header, capture, archived>>,
           inputs' = inputs + 1, fa_offset' = 0, d_offset' = 0,
           double_accumulators' = Empty,
           dd_offset' = current_major_block * h.dd_sample_count
    PROVE  DecimationInv'
<1>1. /\ HeaderOK /\ FitInv /\ ShapeInv /\ DDGatherInv
      /\ UNCHANGED <<current_major_block, data_index, dd_area, disk>>
    BY DEF IInv, PreparedInv, DecimationInv, archived
<1>2. /\ h' = h /\ Blocks' = Blocks /\ Columns' = Columns
      /\ input_frame_count' = input_frame_count
      /\ Decimation1' = Decimation1 /\ Decimation' = Decimation
      /\ HeaderOK'
    BY <1>1, SummaryKept DEF HeaderOK
<1>3. Fresh'
  <2>1. current_major_block \in Nat /\ h.dd_sample_count \in Nat
      BY <1>1, Types DEF ShapeInv, Blocks
  <2>2. dd_offset' = h'.dd_sample_count * current_major_block'
    <3>1. \A x, y \in Nat : x * y = y * x
        OBVIOUS
    <3> QED
        BY <1>1, <1>2, <2>1, <3>1
  <2>3. DOMAIN dd_area' = (0 .. h.dd_total_count * h.archive_mask_count - 1)'
      BY <1>1, <1>2 DEF DDGatherInv
  <2>4. Origin' \in Int
    <3>1. inputs' \in Nat /\ input_frame_count' \in Nat
        BY <1>1, <1>2, InputsFill DEF ShapeInv
    <3>2. inputs' * input_frame_count' \in Nat
        BY <3>1, Products
    <3> QED
        BY <3>2 DEF Origin
  <2>5. Empty' = Empty
      BY <1>2 DEF Empty
  <2> QED
      BY <1>1, <1>2, <2>1, <2>2, <2>3, <2>4, <2>5 DEF Fresh
<1>4. Begun'
  <2>1. (Fresh => Begun)'
      BY FreshIsBegun, PTL
  <2> QED
      BY <1>3, <2>1
<1>5. FitInv'
    BY <1>1, <1>2 DEF FitInv
<1>6. DecimatedDataMatches'
  <2> SUFFICES ASSUME NEW b \in Valid' PROVE MatchesAt(b)'
      BY DEF DecimatedDataMatches, MatchesAt
  <2>1. b \in Blocks /\ b # current_major_block /\ data_index'[b].duration # 0
      BY <1>1, <1>2 DEF Valid
  <2> QED
      BY <1>1, <2>1, OthersMatch DEF DecimationInv
<1> QED
    BY <1>4, <1>5, <1>6 DEF DecimationInv, Begun

LEMMA DecimationNext ==
    ASSUME IInv, DecimationInv, EventsFit, [Next]_vars
    PROVE  DecimationInv'
<1>1. ASSUME NEW j \in Jitter, process_block(j) PROVE DecimationInv'
  <2>1. CASE FaAdvanced >= h.major_sample_count
      BY <1>1, <2>1, DecimationCompleted
  <2>2. CASE ~(FaAdvanced >= h.major_sample_count)
      BY <1>1, <2>2, DecimationContinued
  <2> QED
      BY <2>1, <2>2
<1>2. CASE process_gap
  <2>1. /\ UNCHANGED <<header, capture, archived>>
        /\ inputs' = inputs + 1 /\ fa_offset' = 0 /\ d_offset' = 0
        /\ double_accumulators' = Empty
        /\ dd_offset' = current_major_block * h.dd_sample_count
      BY <1>2 DEF process_gap, reset_block, reset_double_decimation
  <2> QED
      BY <2>1, DecimationAbandoned
<1>3. CASE initialise_transform
  <2>1. /\ UNCHANGED <<header, capture, archived>>
        /\ inputs' = inputs + 1 /\ fa_offset' = 0 /\ d_offset' = 0
        /\ double_accumulators' = Empty
        /\ dd_offset' = current_major_block * h.dd_sample_count
      BY <1>3 DEF initialise_transform
  <2> QED
      BY <2>1, DecimationAbandoned
<1>4. CASE UNCHANGED vars
  <2>1. /\ UNCHANGED <<header, capture, inputs, current_major_block, data_index>>
        /\ UNCHANGED <<dd_area, disk, buffers, current_buffer, fa_offset, d_offset>>
        /\ UNCHANGED <<double_accumulators, dd_offset>>
      BY <1>4 DEF vars, archived, gathered
  <2>2. /\ h' = h /\ Blocks' = Blocks /\ Columns' = Columns
        /\ input_frame_count' = input_frame_count
        /\ Decimation1' = Decimation1 /\ Decimation' = Decimation
        /\ \A i \in Columns : IdOf(i)' = IdOf(i)
        /\ \A id, z, n, s : Whole(id, z, n, s)' = Whole(id, z, n, s)
        /\ \A s, i : d_data_offset(h, s, i)' = d_data_offset(h, s, i)
        /\ \A b, s, i : DDAddress(b, s, i)' = DDAddress(b, s, i)
      BY <2>1, SummaryKept
  <2>3. Origin' = Origin /\ GroupsDone' = GroupsDone
      BY <2>1, <2>2 DEF Origin, GroupsDone
  <2>4. FitInv' /\ OffsetsInv'
      BY <2>1, <2>2, <2>3 DEF DecimationInv, FitInv, OffsetsInv
  <2>5. AccumulatorsInv'
      BY <2>1, <2>2, <2>3 DEF DecimationInv, AccumulatorsInv
  <2>6. DGatherInv'
      BY <2>1, <2>2, <2>3 DEF DecimationInv, DGatherInv
  <2>7. DDGatherInv'
      BY <2>1, <2>2, <2>3 DEF DecimationInv, DDGatherInv
  <2>8. DecimatedDataMatches'
    <3> SUFFICES ASSUME NEW b \in Valid' PROVE MatchesAt(b)'
        BY DEF DecimatedDataMatches, MatchesAt
    <3>1. b \in Blocks /\ b # current_major_block /\ data_index'[b].duration # 0
        BY <2>1, <2>2 DEF Valid
    <3> QED
        BY <2>1, <3>1, OthersMatch DEF DecimationInv
  <2> QED
      BY <2>4, <2>5, <2>6, <2>7, <2>8 DEF DecimationInv
<1> QED
    BY <1>1, <1>2, <1>3, <1>4 DEF Next

LEMMA DecimationInit == InputsFit /\ Init => DecimationInv
<1> SUFFICES ASSUME InputsFit, Init PROVE DecimationInv
    OBVIOUS
<1>1. IInv /\ HeaderOK
    BY InvInit DEF IInv, PreparedInv
<1>2. FitInv
  <2>1. PICK p \in Params : Accepted(p) /\ header = initialise_header(p)
      BY DEF Init
  <2>2. /\ h.input_sample_count = p.input
        /\ h.first_decimation_log2 = p.first_log2
        /\ h.second_decimation_log2 = p.second_log2
      BY <2>1 DEF initialise_header, h
  <2> QED
      BY <2>1, <2>2 DEF InputsFit, FitInv, input_frame_count, Decimation, Decimation1
<1>3. Fresh
  <2>1. /\ fa_offset = 0 /\ d_offset = 0 /\ double_accumulators = Empty
        /\ current_major_block = 0 /\ dd_offset = 0 /\ inputs = 0
        /\ DOMAIN dd_area = 0 .. h.dd_total_count * h.archive_mask_count - 1
      BY DEF Init
  <2>2. input_frame_count \in Nat /\ h.dd_sample_count \in Nat
      BY <1>1, Types, InputsFill
  <2>3. Origin \in Int /\ dd_offset = h.dd_sample_count * current_major_block
      BY <2>1, <2>2 DEF Origin
  <2> QED
      BY <1>1, <2>1, <2>3 DEF Fresh
<1>4. DecimatedDataMatches
  <2>1. \A b \in Blocks : data_index[b].duration = 0
      BY DEF Init, ZeroIndex
  <2> QED
      BY <2>1 DEF DecimatedDataMatches, Valid
<1> QED
    BY <1>2, <1>3, <1>4, FreshIsBegun DEF DecimationInv, Begun

\* The decimated data of a valid block summarise exactly its samples, for every
\* layout whose input block is a number of first decimations and fits into a
\* second one, and every archived mask and id of events that goes with it.
THEOREM DecimatedInPlace ==
    ASSUME InputsFit, EventsFit
    PROVE  Spec => []DecimatedDataMatches
<1>1. Init => DecimationInv
    BY DecimationInit
<1>2. IInv /\ DecimationInv /\ [Next]_vars => DecimationInv'
    BY DecimationNext
<1>3. DecimationInv => DecimatedDataMatches
    BY DEF DecimationInv
<1> QED
    BY <1>1, <1>2, <1>3, TransformInvariance, PTL DEF Spec

-----------------------------------------------------------------------------
(* Sums. *)

\* s has the sums of the first elements of f.
Running(s, f, n) ==
    /\ s \in [0 .. n -> Int] /\ s[0] = 0
    /\ \A i \in 0 .. n - 1 : s[i + 1] = s[i] + f[i + 1]

\* SumOver is the last of the running sums.
LEMMA SumRuns ==
    ASSUME NEW n \in Nat, NEW f \in [1 .. n -> Int]
    PROVE  \E s : Running(s, f, n) /\ SumOver(f, n) = s[n]
<1> DEFINE Has == {k \in Nat : k <= n => \E s : Running(s, f, k)}
<1>1. 0 \in Has
  <2>1. Running([i \in 0 .. 0 |-> 0], f, 0)
    BY DEF Running
  <2> QED
    BY <2>1
<1>2. ASSUME NEW k \in Nat, k \in Has PROVE k + 1 \in Has
  <2> SUFFICES ASSUME k + 1 <= n PROVE \E s : Running(s, f, k + 1)
    OBVIOUS
  <2>1. PICK s : Running(s, f, k)
    BY <1>2
  <2> DEFINE t == [i \in 0 .. k + 1 |-> IF i = k + 1 THEN s[k] + f[k + 1] ELSE s[i]]
  <2>2. /\ s \in [0 .. k -> Int] /\ s[0] = 0
        /\ \A i \in 0 .. k - 1 : s[i + 1] = s[i] + f[i + 1]
        /\ f[k + 1] \in Int
    BY <2>1 DEF Running
  <2>3. t \in [0 .. k + 1 -> Int] /\ t[0] = 0
    BY <2>2
  <2>4. ASSUME NEW i \in 0 .. k PROVE t[i + 1] = t[i] + f[i + 1]
    <3>1. CASE i = k
      <4>1. t[k + 1] = s[k] + f[k + 1] /\ t[k] = s[k]
        OBVIOUS
      <4> HIDE DEF t
      <4> QED
        BY <3>1, <4>1
    <3>2. CASE i # k
      <4>1. i \in 0 .. k - 1 /\ i + 1 # k + 1 /\ i # k + 1
        BY <3>2
      <4> QED
        BY <4>1, <2>2
    <3> QED
      BY <3>1, <3>2
  <2>5. (k + 1) - 1 = k
    OBVIOUS
  <2> HIDE DEF t
  <2>6. Running(t, f, k + 1)
    BY <2>3, <2>4, <2>5 DEF Running
  <2> QED
    BY <2>6
<1>3. PICK s : Running(s, f, n)
  <2> HIDE DEF Has
  <2>1. \A i \in Nat : i \in Has
    BY <1>1, <1>2, SetInduction
  <2> QED
    <3>1. n \in Has /\ n <= n
      BY <2>1
    <3> QED
      BY <3>1 DEF Has
<1> DEFINE E(g) == [i \in 0 .. n |-> IF i = 0 THEN 0 ELSE g[i - 1] + f[i]]
           sum == CHOOSE g : g = E(g)
<1>4. /\ s \in [0 .. n -> Int] /\ s[0] = 0
      /\ \A i \in 0 .. n - 1 : s[i + 1] = s[i] + f[i + 1]
    BY <1>3 DEF Running
<1>5. s = E(s)
  <2>1. ASSUME NEW i \in 0 .. n PROVE s[i] = E(s)[i]
    <3>1. CASE i = 0
      BY <1>4, <3>1
    <3>2. CASE i # 0
      <4>1. i - 1 \in 0 .. n - 1 /\ (i - 1) + 1 = i
        BY <3>2
      <4> QED
        BY <1>4, <3>2, <4>1
    <3> QED
      BY <3>1, <3>2
  <2> QED
    BY <1>4, <2>1
<1>6. sum = E(sum)
  <2> HIDE DEF E
  <2> QED
    BY <1>5
<1>7. SumOver(f, n) = sum[n]
    BY DEF SumOver
<1> HIDE DEF sum
<1> DEFINE Same == {i \in Nat : i <= n => sum[i] = s[i]}
<1>8. 0 \in Same
    BY <1>4, <1>6
<1>9. ASSUME NEW i \in Nat, i \in Same PROVE i + 1 \in Same
  <2> SUFFICES ASSUME i + 1 <= n PROVE sum[i + 1] = s[i + 1]
    OBVIOUS
  <2>1. i + 1 \in 0 .. n /\ i + 1 # 0 /\ (i + 1) - 1 = i /\ i \in 0 .. n - 1
    OBVIOUS
  <2>2. sum[i + 1] = sum[i] + f[i + 1]
    BY <1>6, <2>1
  <2>3. sum[i] = s[i]
    BY <1>9, <2>1
  <2> QED
    BY <1>4, <2>1, <2>2, <2>3
<1>10. sum[n] = s[n]
  <2> HIDE DEF Same
  <2>1. \A i \in Nat : i \in Same
    BY <1>8, <1>9, SetInduction
  <2> QED
    <3>1. n \in Same /\ n <= n
      BY <2>1
    <3> QED
      BY <3>1 DEF Same
<1> QED
    BY <1>3, <1>7, <1>10

-----------------------------------------------------------------------------
(* The fit. *)

\* A product of numbers that are no larger than J and K.
LEMMA ProductBounded ==
    ASSUME NEW J \in Nat, NEW K \in Nat, NEW u \in -J .. J, NEW v \in -K .. K
    PROVE  -(J * K) <= u * v /\ u * v <= J * K
<1>1. \A a \in Nat, b \in Nat : a * b >= 0
    OBVIOUS
<1>2. /\ (J - u) * (K + v) >= 0 /\ (J + u) * (K - v) >= 0
      /\ (J - u) * (K - v) >= 0 /\ (J + u) * (K + v) >= 0
  <2>1. J - u \in Nat /\ J + u \in Nat /\ K - v \in Nat /\ K + v \in Nat
    OBVIOUS
  <2> QED
    BY <1>1, <2>1
<1> DEFINE p == u * v
           q == J * K
<1>3. /\ (J - u) * (K + v) = q + J * v - K * u - p
      /\ (J + u) * (K - v) = q - J * v + K * u - p
      /\ (J - u) * (K - v) = q - J * v - K * u + p
      /\ (J + u) * (K + v) = q + J * v + K * u + p
    OBVIOUS
<1>4. p \in Int /\ q \in Int /\ J * v \in Int /\ K * u \in Int
    OBVIOUS
<1> HIDE DEF p, q
<1> DEFINE r == J * v
           t == K * u
<1>5. /\ q + r - t - p >= 0 /\ q - r + t - p >= 0
      /\ q - r - t + p >= 0 /\ q + r + t + p >= 0
    BY <1>2, <1>3
<1>6. r \in Int /\ t \in Int
    BY <1>4
<1> HIDE DEF r, t
<1>7. -q <= p /\ p <= q
    BY <1>4, <1>5, <1>6
<1> QED
    BY <1>7 DEF p, q

\* The timestamps of n input blocks, a apart but for what was added to each.
Stamps(x, e, a, n, J) ==
    /\ e \in [1 .. n -> 0 .. J]
    /\ x = [i \in 1 .. n |-> a * (i - 1) + e[i] - e[1]]

\* The sum of the timestamps, up to what was added.
LEMMA SumOfStamps ==
    ASSUME NEW n \in Nat, n > 0, NEW a \in Nat, NEW J \in Nat, NEW e, NEW x,
           Stamps(x, e, a, n, J)
    PROVE  /\ SumOver(x, n) \in Int
           /\ a * (n * (n - 1)) - 2 * (n * e[1]) <= 2 * SumOver(x, n)
           /\ 2 * SumOver(x, n) <= a * (n * (n - 1)) + 2 * (n * (J - e[1]))
<1>1. e \in [1 .. n -> 0 .. J] /\ x = [i \in 1 .. n |-> a * (i - 1) + e[i] - e[1]]
    BY DEF Stamps
<1>2. x \in [1 .. n -> Int] /\ e[1] \in 0 .. J
    BY <1>1
<1>3. PICK s : Running(s, x, n) /\ SumOver(x, n) = s[n]
    BY <1>2, SumRuns
<1>4. /\ s \in [0 .. n -> Int] /\ s[0] = 0
      /\ \A i \in 0 .. n - 1 : s[i + 1] = s[i] + x[i + 1]
    BY <1>3 DEF Running
<1> DEFINE Good(i) ==
            /\ a * (i * (i - 1)) - 2 * (i * e[1]) <= 2 * s[i]
            /\ 2 * s[i] <= a * (i * (i - 1)) + 2 * (i * (J - e[1]))
           Goods == {i \in Nat : i <= n => Good(i)}
<1>5. 0 \in Goods
  <2>1. 0 * (0 - 1) = 0 /\ a * 0 = 0 /\ 0 * e[1] = 0 /\ 0 * (J - e[1]) = 0
    BY <1>2
  <2> QED
    BY <1>4, <2>1
<1>6. ASSUME NEW i \in Nat, i \in Goods PROVE i + 1 \in Goods
  <2> SUFFICES ASSUME i + 1 <= n PROVE Good(i + 1)
    OBVIOUS
  <2>1. i \in 0 .. n - 1 /\ i <= n /\ i + 1 \in 1 .. n /\ (i + 1) - 1 = i
    OBVIOUS
  <2>2. Good(i)
    BY <1>6, <2>1
  <2>3. s[i + 1] = s[i] + (a * i + e[i + 1] - e[1])
    BY <1>1, <1>4, <2>1
  <2>4. s[i] \in Int /\ e[i + 1] \in 0 .. J
    <3>1. i \in 0 .. n
      OBVIOUS
    <3>2. s[i] \in Int
      BY <1>4, <3>1
    <3>3. e[i + 1] \in 0 .. J
      BY <1>1, <2>1
    <3> QED
      BY <3>2, <3>3
  <2> DEFINE A == a * (i * (i - 1))
             B == a * i
             f == e[1]
             C == i * f
             D == i * (J - f)
  <2>5. a * ((i + 1) * ((i + 1) - 1)) = A + 2 * B
    OBVIOUS
  <2>6. (i + 1) * f = C + f /\ (i + 1) * (J - f) = D + J - f
    BY <1>2
  <2>7. A \in Int /\ B \in Int /\ C \in Int /\ D \in Int /\ f \in 0 .. J
    BY <1>2
  <2>8. A - 2 * C <= 2 * s[i] /\ 2 * s[i] <= A + 2 * D
    BY <2>2
  <2> DEFINE g == e[i + 1]
             y == s[i]
             z == s[i + 1]
  <2>9. z = y + (B + g - f) /\ y \in Int /\ g \in 0 .. J
        /\ A - 2 * C <= 2 * y /\ 2 * y <= A + 2 * D
    BY <2>3, <2>4, <2>8
  <2> HIDE DEF A, B, C, D, f, g, y, z
  <2>10. /\ (A + 2 * B) - 2 * (C + f) <= 2 * z
         /\ 2 * z <= (A + 2 * B) + 2 * (D + J - f)
    BY <2>7, <2>9
  <2> QED
    BY <2>5, <2>6, <2>10 DEF f, z
<1>7. Good(n)
  <2> HIDE DEF Good
  <2>1. \A i \in Nat : i \in Goods
    <3> HIDE DEF Goods
    <3> QED
      BY <1>5, <1>6, SetInduction
  <2> QED
    BY <2>1
<1> QED
  <2>1. SumOver(x, n) \in Int
    BY <1>3, <1>4
  <2> QED
    BY <1>3, <1>7, <2>1

\* What the first i timestamps contribute to the slope, six times, if all that
\* was added were half of the most that can be.
Slope(a, n, J, first, i) ==
    a * (i * (i - 1) * (4 * i + 1 - 3 * n)) + (3 * J - 6 * first) * (i * (i - n))

\* What one timestamp more contributes.
LEMMA SlopeGrows ==
    ASSUME NEW a \in Int, NEW n \in Int, NEW J \in Int, NEW first \in Int,
           NEW i \in Int
    PROVE  Slope(a, n, J, first, i + 1) =
            Slope(a, n, J, first, i)
                + 6 * ((a * i) * (2 * (i + 1) - n - 1))
                + (3 * J - 6 * first) * (2 * (i + 1) - n - 1)
<1>1. (i + 1) * ((i + 1) - 1) * (4 * (i + 1) + 1 - 3 * n)
        = i * (i - 1) * (4 * i + 1 - 3 * n) + 6 * (i * (2 * (i + 1) - n - 1))
    OBVIOUS
<1>2. (i + 1) * ((i + 1) - n) = i * (i - n) + (2 * (i + 1) - n - 1)
    OBVIOUS
<1> DEFINE w == 2 * (i + 1) - n - 1
           A == i * (i - 1) * (4 * i + 1 - 3 * n)
           B == i * (i - n)
           c == 3 * J - 6 * first
<1>3. w \in Int /\ A \in Int /\ B \in Int /\ c \in Int
    OBVIOUS
<1>4. Slope(a, n, J, first, i) = a * A + c * B
    BY DEF Slope
<1>5. Slope(a, n, J, first, i + 1) = a * (A + 6 * (i * w)) + c * (B + w)
    BY <1>1, <1>2 DEF Slope
<1> HIDE DEF w, A, B, c
<1>6. a * (A + 6 * (i * w)) = a * A + 6 * ((a * i) * w)
    BY <1>3
<1>7. c * (B + w) = c * B + c * w
    BY <1>3
<1>8. a * A \in Int /\ c * B \in Int /\ c * w \in Int /\ (a * i) * w \in Int
    BY <1>3
<1>9. Slope(a, n, J, first, i + 1)
        = (a * A + c * B) + 6 * ((a * i) * w) + c * w
    BY <1>5, <1>6, <1>7, <1>8
<1> QED
    BY <1>4, <1>9 DEF w, c

\* The sum of the timestamps with their weights, up to what was added.
LEMMA SlopeOfStamps ==
    ASSUME NEW n \in Nat, n > 0, NEW a \in Nat, NEW J \in Nat, NEW e, NEW x, NEW y,
           Stamps(x, e, a, n, J),
           y = [i \in 1 .. n |-> x[i] * (2 * i - n - 1)]
    PROVE  /\ SumOver(y, n) \in Int
           /\ a * (n * (n - 1) * (n + 1)) - 3 * (J * (n - 1) * n)
                <= 6 * SumOver(y, n)
           /\ 6 * SumOver(y, n)
                <= a * (n * (n - 1) * (n + 1)) + 3 * (J * (n - 1) * n)
<1>1. e \in [1 .. n -> 0 .. J] /\ x = [i \in 1 .. n |-> a * (i - 1) + e[i] - e[1]]
    BY DEF Stamps
<1>2. x \in [1 .. n -> Int] /\ e[1] \in 0 .. J
    BY <1>1
<1>3. \A i \in 1 .. n : x[i] * (2 * i - n - 1) \in Int
  <2> SUFFICES ASSUME NEW i \in 1 .. n PROVE x[i] * (2 * i - n - 1) \in Int
    OBVIOUS
  <2>1. x[i] \in Int
    BY <1>2
  <2> QED
    BY <2>1
<1>4. y \in [1 .. n -> Int]
    BY <1>3
<1>5. PICK s : Running(s, y, n) /\ SumOver(y, n) = s[n]
    BY <1>4, SumRuns
<1>6. /\ s \in [0 .. n -> Int] /\ s[0] = 0
      /\ \A i \in 0 .. n - 1 : s[i + 1] = s[i] + y[i + 1]
    BY <1>5 DEF Running
<1> DEFINE f == e[1]
           L(i) == Slope(a, n, J, f, i)
           K == J * (n - 1)
           Good(i) == /\ L(i) - 3 * (K * i) <= 6 * s[i]
                      /\ 6 * s[i] <= L(i) + 3 * (K * i)
           Goods == {i \in Nat : i <= n => Good(i)}
<1>7. \A i \in Int : L(i) \in Int
  <2> SUFFICES ASSUME NEW i \in Int PROVE Slope(a, n, J, f, i) \in Int
    OBVIOUS
  <2>1. f \in Int
    BY <1>2
  <2> HIDE DEF f
  <2>2. a * (i * (i - 1) * (4 * i + 1 - 3 * n)) \in Int
    OBVIOUS
  <2>3. (3 * J - 6 * f) * (i * (i - n)) \in Int
    BY <2>1
  <2> QED
    BY <2>2, <2>3 DEF Slope
<1>8. K \in Nat
  <2>1. n - 1 \in Nat
    OBVIOUS
  <2> QED
    BY <2>1
<1>9. f \in 0 .. J
    BY <1>2
<1>10. 0 \in Goods
  <2>1. 0 * (0 - 1) * (4 * 0 + 1 - 3 * n) = 0 /\ 0 * (0 - n) = 0
    OBVIOUS
  <2>2. \A c \in Int : c * 0 = 0
    OBVIOUS
  <2> HIDE DEF f
  <2>3. L(0) = 0
    BY <2>1, <2>2, <1>9 DEF Slope
  <2>4. K * 0 = 0
    BY <2>2, <1>8
  <2> HIDE DEF L, K
  <2> QED
    BY <1>6, <2>3, <2>4
<1>11. ASSUME NEW i \in Nat, i \in Goods PROVE i + 1 \in Goods
  <2> SUFFICES ASSUME i + 1 <= n PROVE Good(i + 1)
    OBVIOUS
  <2>1. i \in 0 .. n - 1 /\ i \in 0 .. n /\ i <= n /\ i + 1 \in 1 .. n
        /\ (i + 1) - 1 = i
    OBVIOUS
  <2>2. L(i) - 3 * (K * i) <= 6 * s[i] /\ 6 * s[i] <= L(i) + 3 * (K * i)
    BY <1>11, <2>1
  <2> DEFINE w == 2 * (i + 1) - n - 1
             g == e[i + 1]
  <2>3. g \in 0 .. J
    BY <1>1, <2>1
  <2>4. s[i + 1] = s[i] + (a * i + g - f) * w
    <3>1. x[i + 1] = a * i + g - f
      BY <1>1, <2>1
    <3>2. y[i + 1] = x[i + 1] * w
      BY <2>1
    <3> QED
      BY <1>6, <2>1, <3>1, <3>2
  <2>5. w \in -(n - 1) .. n - 1 /\ w \in Int
    BY <2>1
  <2>6. L(i + 1) = L(i) + 6 * ((a * i) * w) + (3 * J - 6 * f) * w
    <3>1. a \in Int /\ n \in Int /\ J \in Int /\ f \in Int /\ i \in Int
      BY <1>9
    <3> HIDE DEF f
    <3> QED
      BY <3>1, SlopeGrows
  <2>7. s[i] \in Int /\ L(i) \in Int /\ L(i + 1) \in Int
    <3>1. s[i] \in Int
      BY <1>6, <2>1
    <3>2. i \in Int /\ i + 1 \in Int
      OBVIOUS
    <3> HIDE DEF L
    <3>3. L(i) \in Int /\ L(i + 1) \in Int
      BY <1>7, <3>2
    <3> QED
      BY <3>1, <3>3
  <2>8. -K <= (2 * g - J) * w /\ (2 * g - J) * w <= K
    <3>1. 2 * g - J \in -J .. J /\ n - 1 \in Nat
      BY <2>3
    <3> HIDE DEF w, g
    <3> QED
      BY <2>5, <3>1, ProductBounded
  <2>9. K * (i + 1) = K * i + K /\ K * i \in Int
    BY <1>8
  <2> DEFINE A == (a * i) * w
             B == g * w
             C == f * w
             D == J * w
  <2>10. A \in Int /\ B \in Int /\ C \in Int /\ D \in Int
    <3> HIDE DEF w, g, f
    <3> QED
      BY <1>9, <2>3, <2>5
  <2>11. /\ (a * i + g - f) * w = A + B - C
         /\ (3 * J - 6 * f) * w = 3 * D - 6 * C
         /\ (2 * g - J) * w = 2 * B - D
    <3> HIDE DEF w, g, f
    <3> QED
      BY <1>9, <2>3, <2>5
  <2> DEFINE z == s[i]
             t == s[i + 1]
             M == L(i)
             N == L(i + 1)
             k == K * i
  <2>12. /\ t = z + (A + B - C)
         /\ N = M + 6 * A + (3 * D - 6 * C)
         /\ -K <= 2 * B - D /\ 2 * B - D <= K
         /\ M - 3 * k <= 6 * z /\ 6 * z <= M + 3 * k
         /\ z \in Int /\ M \in Int /\ k \in Int
    BY <2>2, <2>4, <2>6, <2>7, <2>8, <2>9, <2>11
  <2> HIDE DEF A, B, C, D, z, t, M, N, k, K
  <2>13. N - 3 * (k + K) <= 6 * t /\ 6 * t <= N + 3 * (k + K)
    BY <2>10, <2>12, <1>8
  <2> QED
    BY <2>9, <2>13 DEF N, t, k
<1>12. Good(n)
  <2> HIDE DEF Good
  <2>1. \A i \in Nat : i \in Goods
    <3> HIDE DEF Goods
    <3> QED
      BY <1>10, <1>11, SetInduction
  <2> QED
    BY <2>1
<1>13. L(n) = a * (n * (n - 1) * (n + 1))
  <2>1. n * (n - 1) * (4 * n + 1 - 3 * n) = n * (n - 1) * (n + 1) /\ n * (n - n) = 0
    OBVIOUS
  <2>2. \A c \in Int : c * 0 = 0
    OBVIOUS
  <2> HIDE DEF f
  <2>3. a * (n * (n - 1) * (n + 1)) \in Int /\ 3 * J - 6 * f \in Int
    BY <1>9
  <2> QED
    BY <2>1, <2>2, <2>3 DEF Slope
<1>14. SumOver(y, n) \in Int
    BY <1>5, <1>6
<1> HIDE DEF L
<1> QED
    BY <1>5, <1>12, <1>13, <1>14

\* Division loses less than one.
LEMMA QuotientIsNear ==
    ASSUME NEW a \in Int, NEW b \in Nat, b > 0
    PROVE  /\ Quotient(a, b) \in Int
           /\ a - b < b * Quotient(a, b) /\ b * Quotient(a, b) < a + b
<1>1. \A x \in Nat : x \div b \in Nat /\ x = b * (x \div b) + (x % b)
                     /\ x % b \in 0 .. b - 1
  <2>1. \A x, y \in Nat : y > 0 => x \div y \in Nat
    OBVIOUS
  <2>2. \A x, y \in Nat : y > 0 => x = y * (x \div y) + (x % y)
    OBVIOUS
  <2>3. \A x, y \in Nat : y > 0 => x % y \in 0 .. y - 1
    OBVIOUS
  <2> QED
    BY <2>1, <2>2, <2>3
<1>2. CASE a >= 0
  <2> DEFINE q == a \div b
             r == a % b
  <2>1. q \in Int /\ a = b * q + r /\ r \in 0 .. b - 1
    BY <1>1, <1>2
  <2>2. Quotient(a, b) = q
    BY <1>2 DEF Quotient
  <2> HIDE DEF q, r
  <2> DEFINE p == b * q
  <2>3. p \in Int /\ a = p + r
    BY <2>1
  <2> HIDE DEF p
  <2>4. a - b < p /\ p < a + b
    BY <2>1, <2>3
  <2> QED
    BY <2>1, <2>2, <2>4 DEF p
<1>3. CASE ~(a >= 0)
  <2> DEFINE q == (-a) \div b
             r == (-a) % b
  <2>1. q \in Int /\ -a = b * q + r /\ r \in 0 .. b - 1
    BY <1>1, <1>3
  <2>2. Quotient(a, b) = -q
    BY <1>3 DEF Quotient
  <2> HIDE DEF q, r
  <2> DEFINE p == b * q
  <2>3. p \in Int /\ -a = p + r /\ b * (-q) = -p
    BY <2>1
  <2> HIDE DEF p
  <2>4. a - b < -p /\ -p < a + b
    BY <2>1, <2>3
  <2> QED
    BY <2>1, <2>2, <2>3, <2>4
<1> QED
    BY <1>2, <1>3

\* (n * n - 1) * n is the product of three numbers in a row.
LEMMA ThreeInARow ==
    ASSUME NEW n \in Nat, n > 1
    PROVE  /\ ((n * n - 1) * n) \div 3 \in Nat
           /\ ((n * n - 1) * n) \div 3 > 0
           /\ 3 * (((n * n - 1) * n) \div 3) = n * (n - 1) * (n + 1)
<1> DEFINE q == n \div 3
           c == n * (n - 1) * (n + 1)
<1>1. n = 3 * q \/ n = 3 * q + 1 \/ n = 3 * q + 2
    OBVIOUS
<1>2. q \in Nat
    OBVIOUS
<1> HIDE DEF q
<1>3. c = (n * n - 1) * n
    OBVIOUS
<1>4. \E k \in Int : c = 3 * k
  <2>1. CASE n = 3 * q
    <3>1. c = 3 * (q * (3 * q - 1) * (3 * q + 1))
      BY <1>2, <2>1
    <3>2. q * (3 * q - 1) * (3 * q + 1) \in Int
      BY <1>2
    <3> QED
      BY <3>1, <3>2
  <2>2. CASE n = 3 * q + 1
    <3>1. c = 3 * ((3 * q + 1) * q * (3 * q + 2))
      BY <1>2, <2>2
    <3>2. (3 * q + 1) * q * (3 * q + 2) \in Int
      BY <1>2
    <3> QED
      BY <3>1, <3>2
  <2>3. CASE n = 3 * q + 2
    <3>1. c = 3 * ((3 * q + 2) * (3 * q + 1) * (q + 1))
      BY <1>2, <2>3
    <3>2. (3 * q + 2) * (3 * q + 1) * (q + 1) \in Int
      BY <1>2
    <3> QED
      BY <3>1, <3>2
  <2> QED
    BY <1>1, <2>1, <2>2, <2>3
<1>5. c > 0
  <2>1. \A x \in Nat, y \in Nat : x > 0 /\ y > 0 => x * y \in Nat /\ x * y > 0
    OBVIOUS
  <2>2. n - 1 \in Nat /\ n - 1 > 0 /\ n + 1 \in Nat /\ n + 1 > 0
    OBVIOUS
  <2>3. n * (n - 1) \in Nat /\ n * (n - 1) > 0
    BY <2>1, <2>2
  <2> QED
    BY <2>1, <2>2, <2>3
<1> HIDE DEF c
<1>6. PICK k \in Int : c = 3 * k
    BY <1>4
<1>7. c \div 3 = k /\ k > 0
    BY <1>5, <1>6
<1>8. c \div 3 \in Nat /\ c \div 3 > 0 /\ 3 * (c \div 3) = c
    BY <1>6, <1>7
<1> QED
  <2>1. ((n * n - 1) * n) \div 3 = c \div 3
    BY <1>3
  <2> QED
    BY <1>8, <2>1 DEF c

\* The entry for frames at z and n input blocks of m frames that follow, p
\* between frames: off by what was added, and no more than so many times.
EntryNear(entry, z, n, m, p, J) ==
    /\ entry.timestamp \in Int /\ entry.duration \in Int
    /\ -(3 * J + 2) <= 2 * (entry.timestamp - z * p)
    /\ 2 * (entry.timestamp - z * p) <= 5 * J + 2
    /\ -(3 * J) <= entry.duration - (n * m) * p
    /\ entry.duration - (n * m) * p <= 3 * J

\* c is T times v, nearly.
LEMMA Scaled ==
    ASSUME NEW T \in Nat, T > 0, NEW v \in Int, NEW k \in Int,
           -((k + 1) * T) < T * v, T * v < (k + 1) * T
    PROVE  -k <= v /\ v <= k
<1>1. \A x \in Int : x > k => x >= k + 1
    OBVIOUS
<1>2. \A x \in Int : x >= 0 => x * T >= 0
    OBVIOUS
<1>3. CASE v > k
  <2>1. (v - (k + 1)) * T >= 0
    BY <1>2, <1>3
  <2>2. (v - (k + 1)) * T = T * v - (k + 1) * T
    OBVIOUS
  <2>3. T * v \in Int /\ (k + 1) * T \in Int
    OBVIOUS
  <2> QED
    BY <2>1, <2>2, <2>3
<1>4. CASE v < -k
  <2>1. (-v - (k + 1)) * T >= 0
    BY <1>2, <1>4
  <2>2. (-v - (k + 1)) * T = -(T * v) - (k + 1) * T
    OBVIOUS
  <2>3. T * v \in Int /\ (k + 1) * T \in Int
    OBVIOUS
  <2> QED
    BY <2>1, <2>2, <2>3
<1> QED
  <2>1. v > k \/ v < -k \/ (-k <= v /\ v <= k)
    OBVIOUS
  <2> QED
    BY <1>3, <1>4, <2>1

\* The slope, and what a line with it has at its ends.
LEMMA SlopeIsNear ==
    ASSUME NEW n \in Nat, n > 1, NEW a \in Nat, NEW J \in Nat, NEW X \in Int,
           NEW T \in Nat, T > 0, 3 * T = n * (n - 1) * (n + 1),
           a * (n * (n - 1) * (n + 1)) - 3 * (J * (n - 1) * n) <= 6 * X,
           6 * X <= a * (n * (n - 1) * (n + 1)) + 3 * (J * (n - 1) * n)
    PROVE  /\ Quotient(2 * n * X, T) \in Int
           /\ Quotient((n + 1) * X, T) \in Int
           /\ -(3 * J) <= Quotient(2 * n * X, T) - n * a
           /\ Quotient(2 * n * X, T) - n * a <= 3 * J
           /\ -(3 * J + 1) <= 2 * Quotient((n + 1) * X, T) - (n + 1) * a
           /\ 2 * Quotient((n + 1) * X, T) - (n + 1) * a <= 3 * J + 1
<1> DEFINE c == n * (n - 1)
           y == 2 * X - a * T
<1>1. c \in Nat
  <2>1. n - 1 \in Nat
    OBVIOUS
  <2> QED
    BY <2>1
<1>2. J * (n - 1) * n = J * c /\ n * (n - 1) * (n + 1) = 3 * T
    OBVIOUS
<1>3. a * (3 * T) = 3 * (a * T)
    OBVIOUS
<1>4. a * T \in Int /\ J * c \in Nat
    BY <1>1
<1>5. y \in Int /\ 2 * X = a * T + y
    BY <1>4
<1>6. -(J * c) <= y /\ y <= J * c
  <2>1. 3 * (a * T) - 3 * (J * c) <= 6 * X /\ 6 * X <= 3 * (a * T) + 3 * (J * c)
    BY <1>2, <1>3
  <2> DEFINE u == a * T
             v == J * c
  <2>2. u \in Int /\ v \in Nat /\ 2 * X = u + y
    BY <1>4, <1>5
  <2>3. 3 * u - 3 * v <= 6 * X /\ 6 * X <= 3 * u + 3 * v
    BY <2>1
  <2> HIDE DEF u, v, y, c
  <2>4. -v <= y /\ y <= v
    BY <1>5, <2>2, <2>3
  <2> QED
    BY <2>4 DEF v
<1>7. ASSUME NEW d \in Nat, d <= n + 1
      PROVE  -(3 * (J * T)) <= d * y /\ d * y <= 3 * (J * T)
  <2>1. \A r, s, t \in Int : r >= 0 /\ s <= t => r * s <= r * t
    OBVIOUS
  <2>2. d * y <= d * (J * c) /\ d * (-(J * c)) <= d * y
    BY <1>4, <1>5, <1>6, <2>1
  <2>3. (J * c) * d <= (J * c) * (n + 1)
    BY <1>4, <1>7, <2>1
  <2>4. (J * c) * (n + 1) = 3 * (J * T)
    <3>1. (J * c) * (n + 1) = J * (n * (n - 1) * (n + 1))
      OBVIOUS
    <3>2. J * (3 * T) = 3 * (J * T)
      OBVIOUS
    <3> QED
      BY <1>2, <3>1, <3>2
  <2> DEFINE v == J * c
  <2>5. v \in Nat
    BY <1>4
  <2> HIDE DEF v, y, c
  <2>6. v * d = d * v /\ d * (-v) = -(d * v) /\ d * v \in Int /\ d * y \in Int
        /\ J * T \in Int
    BY <1>5, <2>5
  <2>7. d * y <= d * v /\ d * (-v) <= d * y /\ v * d <= v * (n + 1)
        /\ v * (n + 1) = 3 * (J * T)
    BY <2>2, <2>3, <2>4 DEF v
  <2> QED
    BY <2>6, <2>7
<1> HIDE DEF y, c
<1>8. /\ Quotient(2 * n * X, T) \in Int
      /\ -(3 * J) <= Quotient(2 * n * X, T) - n * a
      /\ Quotient(2 * n * X, T) - n * a <= 3 * J
  <2> DEFINE q == Quotient(2 * n * X, T)
             b == 2 * n * X
  <2>1. b \in Int
    OBVIOUS
  <2>2. b = n * (a * T) + n * y
    <3>1. b = n * (2 * X)
      OBVIOUS
    <3> HIDE DEF b
    <3>2. n * (a * T + y) = n * (a * T) + n * y
      BY <1>4, <1>5
    <3> QED
      BY <1>5, <3>1, <3>2
  <2> HIDE DEF b
  <2>3. q \in Int /\ b - T < T * q /\ T * q < b + T
    BY <2>1, QuotientIsNear DEF b
  <2> HIDE DEF q
  <2>4. T * (q - n * a) = T * q - n * (a * T)
    BY <2>3
  <2>5. -(3 * (J * T)) <= n * y /\ n * y <= 3 * (J * T)
    BY <1>7
  <2>6. (3 * J + 1) * T = 3 * (J * T) + T
    OBVIOUS
  <2>7. T * q \in Int /\ n * (a * T) \in Int /\ n * y \in Int /\ J * T \in Int
        /\ q - n * a \in Int /\ n * a \in Int
    BY <1>5, <2>3
  <2> DEFINE u == T * q
             v == n * (a * T)
             w == n * y
             g == J * T
             k == T * (q - n * a)
  <2>8. /\ u \in Int /\ v \in Int /\ w \in Int /\ g \in Int /\ b = v + w
        /\ b - T < u /\ u < b + T /\ -(3 * g) <= w /\ w <= 3 * g /\ k = u - v
    BY <2>2, <2>3, <2>4, <2>5, <2>7
  <2> HIDE DEF u, v, w, g, k
  <2>9. -(3 * g + T) < k /\ k < 3 * g + T
    BY <2>8
  <2>10. -((3 * J + 1) * T) < T * (q - n * a) /\ T * (q - n * a) < (3 * J + 1) * T
    BY <2>6, <2>9 DEF g, k
  <2>11. -(3 * J) <= q - n * a /\ q - n * a <= 3 * J
    BY <2>7, <2>10, Scaled
  <2> QED
    BY <2>3, <2>11 DEF q
<1>9. /\ Quotient((n + 1) * X, T) \in Int
      /\ -(3 * J + 1) <= 2 * Quotient((n + 1) * X, T) - (n + 1) * a
      /\ 2 * Quotient((n + 1) * X, T) - (n + 1) * a <= 3 * J + 1
  <2> DEFINE q == Quotient((n + 1) * X, T)
             b == (n + 1) * X
             l == n + 1
  <2>1. b \in Int
    OBVIOUS
  <2>2. 2 * b = l * (a * T) + l * y
    <3>1. 2 * b = l * (2 * X)
      OBVIOUS
    <3> HIDE DEF b
    <3>2. l * (a * T + y) = l * (a * T) + l * y
      BY <1>4, <1>5
    <3> QED
      BY <1>5, <3>1, <3>2
  <2> HIDE DEF b
  <2>3. q \in Int /\ b - T < T * q /\ T * q < b + T
    BY <2>1, QuotientIsNear DEF b
  <2>4. -(3 * (J * T)) <= l * y /\ l * y <= 3 * (J * T)
    BY <1>7
  <2>5. l \in Nat
    OBVIOUS
  <2> HIDE DEF q, l
  <2>6. T * (2 * q - l * a) = 2 * (T * q) - l * (a * T)
    BY <2>3, <2>5
  <2>7. ((3 * J + 1) + 1) * T = 3 * (J * T) + 2 * T
    OBVIOUS
  <2>8. T * q \in Int /\ l * (a * T) \in Int /\ l * y \in Int /\ J * T \in Int
        /\ 2 * q - l * a \in Int /\ l * a \in Int
    BY <1>5, <2>3, <2>5
  <2> DEFINE u == T * q
             v == l * (a * T)
             w == l * y
             g == J * T
             k == T * (2 * q - l * a)
  <2>9. /\ u \in Int /\ v \in Int /\ w \in Int /\ g \in Int /\ 2 * b = v + w
        /\ b - T < u /\ u < b + T /\ -(3 * g) <= w /\ w <= 3 * g /\ k = 2 * u - v
    BY <2>2, <2>3, <2>4, <2>6, <2>8
  <2> HIDE DEF u, v, w, g, k
  <2>10. -(3 * g + 2 * T) < k /\ k < 3 * g + 2 * T
    BY <2>1, <2>9
  <2>11. -(((3 * J + 1) + 1) * T) < T * (2 * q - l * a)
         /\ T * (2 * q - l * a) < ((3 * J + 1) + 1) * T
    BY <2>7, <2>10 DEF g, k
  <2>12. 3 * J + 1 \in Int
    OBVIOUS
  <2>13. -(3 * J + 1) <= 2 * q - l * a /\ 2 * q - l * a <= 3 * J + 1
    BY <2>8, <2>11, <2>12, Scaled
  <2> QED
    BY <2>3, <2>13 DEF q, l
<1> QED
    BY <1>8, <1>9

\* v is less than k if T times v is less than T times k.
LEMMA ScaledBelow ==
    ASSUME NEW T \in Nat, T > 0, NEW v \in Int, NEW k \in Int, T * v < k * T
    PROVE  v < k
<1> SUFFICES ASSUME v >= k PROVE FALSE
    OBVIOUS
<1>1. \A x \in Int : x >= 0 => x * T >= 0
    OBVIOUS
<1>2. (v - k) * T >= 0
    BY <1>1
<1>3. (v - k) * T = T * v - k * T /\ T * v \in Int /\ k * T \in Int
    OBVIOUS
<1> QED
    BY <1>2, <1>3

\* The mean of the timestamps.
LEMMA MeanIsNear ==
    ASSUME NEW n \in Nat, n > 1, NEW a \in Nat, NEW J \in Nat, NEW f \in 0 .. J,
           NEW S \in Int,
           a * (n * (n - 1)) - 2 * (n * f) <= 2 * S,
           2 * S <= a * (n * (n - 1)) + 2 * (n * (J - f))
    PROVE  /\ Quotient(S, n) \in Int
           /\ -(2 * f + 1) <= 2 * Quotient(S, n) - a * (n - 1)
           /\ 2 * Quotient(S, n) - a * (n - 1) <= 2 * (J - f) + 1
<1> DEFINE q == Quotient(S, n)
           A == a * (n * (n - 1))
           b == a * (n - 1)
           g == J - f
<1>1. q \in Int /\ S - n < n * q /\ n * q < S + n
    BY QuotientIsNear
<1> HIDE DEF q
<1>2. A = n * b /\ b \in Int /\ g \in Int
  <2>1. n - 1 \in Int
    OBVIOUS
  <2> QED
    BY <2>1
<1>3. A - 2 * (n * f) <= 2 * S /\ 2 * S <= A + 2 * (n * g)
    OBVIOUS
<1> HIDE DEF A, b, g
<1>4. /\ n * (2 * q - b - 2 * g) = 2 * (n * q) - n * b - 2 * (n * g)
      /\ n * (b - 2 * q - 2 * f) = n * b - 2 * (n * q) - 2 * (n * f)
    BY <1>1, <1>2
<1>5. n * q \in Int /\ n * b \in Int /\ n * g \in Int /\ n * f \in Int
    BY <1>1, <1>2
<1> DEFINE u == n * q
           v == n * b
           w == n * g
           t == n * f
           k == n * (2 * q - b - 2 * g)
           l == n * (b - 2 * q - 2 * f)
<1>6. /\ u \in Int /\ v \in Int /\ w \in Int /\ t \in Int
      /\ S - n < u /\ u < S + n /\ v - 2 * t <= 2 * S /\ 2 * S <= v + 2 * w
      /\ k = 2 * u - v - 2 * w /\ l = v - 2 * u - 2 * t
    BY <1>1, <1>2, <1>3, <1>4, <1>5
<1> HIDE DEF u, v, w, t, k, l
<1>7. k < 2 * n /\ l < 2 * n
    BY <1>6
<1>8. n * (2 * q - b - 2 * g) < 2 * n /\ n * (b - 2 * q - 2 * f) < 2 * n
    BY <1>7 DEF k, l
<1>9. 2 * q - b - 2 * g \in Int /\ b - 2 * q - 2 * f \in Int /\ n > 0
    BY <1>1, <1>2
<1>10. 2 * q - b - 2 * g < 2
    BY <1>8, <1>9, ScaledBelow
<1>11. b - 2 * q - 2 * f < 2
    BY <1>8, <1>9, ScaledBelow
<1>12. -(2 * f + 1) <= 2 * q - b /\ 2 * q - b <= 2 * g + 1
    BY <1>1, <1>2, <1>10, <1>11
<1> QED
    BY <1>1, <1>12 DEF q, b, g

\* The line that advance_index fits through timestamps that are off by J at
\* most begins and ends where it should, nearly.
LEMMA FittedIsNear ==
    ASSUME timestamp_count \in Nat, timestamp_count > 1,
           NEW J \in Nat, NEW z \in Int, NEW m \in Nat, NEW p \in Nat, NEW stamps,
           \A i \in 1 .. timestamp_count :
                stamps[i] \in Int /\ stamps[i] - (z + i * m) * p \in 0 .. J
    PROVE  EntryNear(FittedEntry(stamps), z, timestamp_count, m, p, J)
<1> DEFINE n == timestamp_count
           a == m * p
           e == [i \in 1 .. n |-> stamps[i] - (z + i * m) * p]
           x == [i \in 1 .. n |-> stamps[i] - stamps[1]]
           y == [i \in 1 .. n |-> x[i] * (2 * i - n - 1)]
           T == ((n * n - 1) * n) \div 3
           S == SumOver(x, n)
           X == SumOver(y, n)
           f == e[1]
           entry == FittedEntry(stamps)
<1>1. entry = [duration |-> Quotient(2 * n * X, T),
               timestamp |-> stamps[1] + Quotient(S, n) - Quotient((n + 1) * X, T)]
    BY DEF FittedEntry, Weight
<1>2. n \in Nat /\ n > 1 /\ n > 0 /\ 1 \in 1 .. n
    OBVIOUS
<1>3. \A i \in 1 .. n : stamps[i] \in Int /\ stamps[i] - (z + i * m) * p \in 0 .. J
    OBVIOUS
<1> HIDE DEF n, entry
<1>4. a \in Nat
    BY Products
<1>5. e \in [1 .. n -> 0 .. J] /\ f \in 0 .. J
    BY <1>2, <1>3
<1>6. ASSUME NEW i \in 1 .. n PROVE x[i] = a * (i - 1) + e[i] - e[1]
  <2>1. /\ stamps[i] = (z + i * m) * p + e[i] /\ stamps[1] = (z + 1 * m) * p + e[1]
        /\ e[i] \in Int /\ e[1] \in Int
    <3>1. \A k \in 1 .. n : (z + k * m) * p \in Int
      BY <1>2
    <3>2. \A s \in Int, t \in Int : s = t + (s - t)
      OBVIOUS
    <3>3. stamps[i] \in Int /\ stamps[1] \in Int
      BY <1>2, <1>3
    <3>4. stamps[i] = (z + i * m) * p + e[i] /\ stamps[1] = (z + 1 * m) * p + e[1]
      BY <1>2, <3>1, <3>2, <3>3
    <3> QED
      BY <1>2, <1>5, <3>4
  <2>2. x[i] = stamps[i] - stamps[1]
    OBVIOUS
  <2> HIDE DEF e, x
  <2>3. (z + i * m) * p - (z + 1 * m) * p = (m * p) * (i - 1)
    BY <1>2
  <2>4. (z + i * m) * p \in Int /\ (z + 1 * m) * p \in Int /\ (m * p) * (i - 1) \in Int
    BY <1>2
  <2> DEFINE u == (z + i * m) * p
             v == (z + 1 * m) * p
             w == (m * p) * (i - 1)
             d == e[i]
             g == e[1]
  <2>5. u \in Int /\ v \in Int /\ w \in Int /\ d \in Int /\ g \in Int
        /\ u - v = w /\ x[i] = (u + d) - (v + g)
    BY <2>1, <2>2, <2>3, <2>4
  <2> HIDE DEF u, v, w, d, g
  <2>6. x[i] = w + d - g
    BY <2>5
  <2> QED
    BY <2>6 DEF w, d, g
<1>7. Stamps(x, e, a, n, J)
  <2>1. x = [i \in 1 .. n |-> a * (i - 1) + e[i] - e[1]]
    <3> HIDE DEF a, e
    <3> QED
      BY <1>6
  <2> HIDE DEF x, e, a
  <2> QED
    BY <1>5, <2>1 DEF Stamps
<1>8. stamps[1] \in Int /\ stamps[1] = z * p + a + f
  <2>1. stamps[1] \in Int /\ f = stamps[1] - (z + 1 * m) * p
    BY <1>2, <1>3
  <2>2. (z + 1 * m) * p = z * p + m * p /\ z * p \in Int /\ m * p \in Int
    OBVIOUS
  <2> HIDE DEF f
  <2> DEFINE u == z * p
             v == m * p
             w == (z + 1 * m) * p
  <2>3. w = u + v /\ u \in Int /\ v \in Int /\ f = stamps[1] - w
    BY <2>1, <2>2
  <2> HIDE DEF u, v, w
  <2>4. stamps[1] = u + v + f
    BY <2>1, <2>3
  <2> QED
    BY <2>1, <2>4 DEF u, v
<1> HIDE DEF x, e, a, T
<1>9. /\ S \in Int /\ a * (n * (n - 1)) - 2 * (n * f) <= 2 * S
      /\ 2 * S <= a * (n * (n - 1)) + 2 * (n * (J - f))
    BY <1>2, <1>4, <1>7, SumOfStamps
<1>10. y = [i \in 1 .. n |-> x[i] * (2 * i - n - 1)]
    OBVIOUS
<1> HIDE DEF y
<1>11. /\ X \in Int
       /\ a * (n * (n - 1) * (n + 1)) - 3 * (J * (n - 1) * n) <= 6 * X
       /\ 6 * X <= a * (n * (n - 1) * (n + 1)) + 3 * (J * (n - 1) * n)
    BY <1>2, <1>4, <1>7, <1>10, SlopeOfStamps
<1>12. T \in Nat /\ T > 0 /\ 3 * T = n * (n - 1) * (n + 1)
    BY <1>2, ThreeInARow DEF T
<1> HIDE DEF S, X, f
<1> DEFINE d == Quotient(2 * n * X, T)
           q == Quotient(S, n)
           r == Quotient((n + 1) * X, T)
<1>13. /\ d \in Int /\ r \in Int /\ -(3 * J) <= d - n * a /\ d - n * a <= 3 * J
       /\ -(3 * J + 1) <= 2 * r - (n + 1) * a /\ 2 * r - (n + 1) * a <= 3 * J + 1
    BY <1>2, <1>4, <1>11, <1>12, SlopeIsNear
<1>14. f \in 0 .. J
    BY <1>5 DEF f
<1>15. /\ q \in Int /\ -(2 * f + 1) <= 2 * q - a * (n - 1)
       /\ 2 * q - a * (n - 1) <= 2 * (J - f) + 1
    BY <1>2, <1>4, <1>9, <1>14, MeanIsNear
<1>16. entry.duration = d /\ entry.timestamp = stamps[1] + q - r
    BY <1>1
<1> HIDE DEF d, q, r
<1>17. /\ -(3 * J + 2) <= 2 * (entry.timestamp - z * p)
       /\ 2 * (entry.timestamp - z * p) <= 5 * J + 2
       /\ entry.timestamp \in Int
  <2>1. (n + 1) * a = n * a + a /\ a * (n - 1) = n * a - a /\ n * a \in Int
    BY <1>2, <1>4
  <2> DEFINE N == n * a
             Z == z * p
             s == entry.timestamp
             t == stamps[1]
  <2>2. /\ N \in Int /\ Z \in Int /\ t \in Int /\ t = Z + a + f
        /\ s = t + q - r
        /\ -(3 * J + 1) <= 2 * r - (N + a) /\ 2 * r - (N + a) <= 3 * J + 1
        /\ -(2 * f + 1) <= 2 * q - (N - a) /\ 2 * q - (N - a) <= 2 * (J - f) + 1
    BY <1>8, <1>13, <1>15, <1>16, <2>1
  <2> HIDE DEF N, Z, s, t
  <2>3. -(3 * J + 2) <= 2 * (s - Z) /\ 2 * (s - Z) <= 5 * J + 2 /\ s \in Int
    BY <1>4, <1>13, <1>14, <1>15, <2>2
  <2> QED
    BY <2>3 DEF s, Z
<1>18. /\ entry.duration \in Int
       /\ -(3 * J) <= entry.duration - (n * m) * p
       /\ entry.duration - (n * m) * p <= 3 * J
  <2>1. n * a = (n * m) * p
    BY <1>2 DEF a
  <2> QED
    BY <1>13, <1>16, <2>1
<1>19. EntryNear(entry, z, n, m, p, J)
    BY <1>17, <1>18 DEF EntryNear
<1> QED
    BY <1>19 DEF entry, n

-----------------------------------------------------------------------------
(* The timestamps in the index. *)

\* What is added to timestamps has to be small against MAX_DELTA_T, and both
\* against the time of an input block; a line needs two points.
JitterFits(J) ==
    /\ Jitter \subseteq 0 .. J /\ 7 * J + 2 <= MaxDelta
    /\ \A p \in Params : Accepted(p) =>
        /\ p.input < p.samples
        /\ p.input * Period > MaxDelta + 7 * J + 2

\* An entry is that of a number of input blocks, and has their times.
EntryFits(entry, J) ==
    /\ \E k \in Int : entry.id_zero = k * input_frame_count
    /\ EntryNear(entry, entry.id_zero, timestamp_count, input_frame_count,
                 Period, J)

\* There is a timestamp for each input block gathered, that of its end.
StampsInv(J) ==
    /\ Len(timestamps) * input_frame_count = fa_offset
    /\ \A i \in 1 .. Len(timestamps) :
        timestamps[i] - (Origin + i * input_frame_count) * Period \in 0 .. J

InputsShort(J) ==
    /\ input_frame_count < h.major_sample_count
    /\ input_frame_count * Period > MaxDelta + 7 * J + 2

TimesInv(J) ==
    /\ InputsShort(J) /\ StampsInv(J)
    /\ \A b \in Valid : EntryFits(data_index[b], J)

\* The numbers of a block.
LEMMA TimeTypes ==
    ASSUME IInv, NEW J \in Nat, InputsShort(J)
    PROVE  /\ input_frame_count \in Nat /\ input_frame_count > 0
           /\ timestamp_count \in Nat /\ timestamp_count > 1
           /\ timestamp_count * input_frame_count = h.major_sample_count
           /\ Period \in Nat /\ inputs \in Nat /\ Origin \in Int
           /\ fa_offset \in Nat /\ FaAdvanced = fa_offset + input_frame_count
           /\ timestamps \in Seq(Int)
<1> DEFINE m == input_frame_count
           M == h.major_sample_count
           n == timestamp_count
<1>1. M \in Nat /\ m \in Nat /\ m > 0 /\ M % m = 0 /\ m < M
    BY Types DEF IInv, PreparedInv, input_frame_count, InputsShort
<1>2. n = M \div m
    BY DEF timestamp_count
<1> HIDE DEF m, M, n
<1>3. \A x, y \in Nat : y > 0 /\ x % y = 0 => x \div y \in Nat /\ x = (x \div y) * y
    OBVIOUS
<1>4. n \in Nat /\ M = n * m
    BY <1>1, <1>2, <1>3
<1>5. n > 1
  <2>1. n # 0 /\ n # 1
    <3>1. 0 * m = 0 /\ 1 * m = m
      BY <1>1
    <3> QED
      BY <1>1, <1>4, <3>1
  <2> QED
    BY <1>4, <2>1
<1>6. Period \in Nat
    BY TransformAssumption
<1>7. inputs \in Nat /\ timestamps \in Seq(Int)
    BY DEF IInv, ShapeInv
<1>8. Origin \in Int
    BY BlockBegins
<1>9. fa_offset \in Nat /\ FaAdvanced = fa_offset + m
    BY InputsFill DEF m
<1> QED
    BY <1>1, <1>4, <1>5, <1>6, <1>7, <1>8, <1>9 DEF m, M, n

\* The timestamp of the next input block belongs to those there are.
LEMMA StampAdded ==
    ASSUME IInv, NEW J \in Nat, InputsShort(J), StampsInv(J),
           NEW j \in 0 .. J, NEW stamps,
           stamps = Append(timestamps, Frame(input_frame_count) * Period + j)
    PROVE  /\ Len(stamps) = Len(timestamps) + 1
           /\ Len(stamps) * input_frame_count = FaAdvanced
           /\ \A i \in 1 .. Len(stamps) :
                /\ stamps[i] \in Int
                /\ stamps[i] - (Origin + i * input_frame_count) * Period \in 0 .. J
<1> DEFINE m == input_frame_count
           l == Len(timestamps)
           stamp == Frame(m) * Period + j
<1>1. /\ m \in Nat /\ Period \in Nat /\ inputs \in Nat /\ Origin \in Int
      /\ fa_offset \in Nat /\ FaAdvanced = fa_offset + m
      /\ timestamps \in Seq(Int)
    BY TimeTypes
<1>2. l \in Nat /\ l * m = fa_offset
    BY <1>1 DEF StampsInv
<1>3. Frame(m) = Origin + (l + 1) * m
  <2>1. Frame(m) = inputs * m + m
    BY DEF Frame
  <2>2. Origin = inputs * m - fa_offset
    BY DEF Origin
  <2>3. (l + 1) * m = l * m + m /\ inputs * m \in Int
    BY <1>1, <1>2
  <2> HIDE DEF m, l
  <2> QED
    BY <1>1, <1>2, <2>1, <2>2, <2>3
<1>4. Frame(m) \in Int
    BY <1>1, <1>2, <1>3
<1>5. stamp \in Int /\ stamp - (Origin + (l + 1) * m) * Period = j
  <2>1. Frame(m) * Period \in Int
    BY <1>1, <1>4
  <2>2. (Origin + (l + 1) * m) * Period = Frame(m) * Period
    BY <1>3
  <2> DEFINE u == Frame(m) * Period
  <2>3. stamp = u + j /\ u \in Int
    BY <2>1
  <2> HIDE DEF u, stamp
  <2>4. stamp - u = j /\ stamp \in Int
    BY <2>3
  <2> QED
    BY <2>2, <2>4 DEF u
<1> HIDE DEF stamp
<1>6. stamps = Append(timestamps, stamp)
    BY DEF stamp
<1>7. /\ Len(stamps) = l + 1 /\ stamps[l + 1] = stamp
      /\ \A i \in 1 .. l : stamps[i] = timestamps[i]
    BY <1>1, <1>6
<1>8. \A i \in 1 .. l : timestamps[i] \in Int
        /\ timestamps[i] - (Origin + i * m) * Period \in 0 .. J
  <2>1. \A i \in 1 .. l : timestamps[i] \in Int
    BY <1>1
  <2>2. \A i \in 1 .. l : timestamps[i] - (Origin + i * m) * Period \in 0 .. J
    BY DEF StampsInv
  <2> QED
    BY <2>1, <2>2
<1>9. (l + 1) * m = FaAdvanced
  <2> HIDE DEF l, m
  <2>1. (l + 1) * m = l * m + m
    BY <1>1, <1>2
  <2> QED
    BY <1>1, <1>2, <2>1
<1> HIDE DEF l, m
<1>10. ASSUME NEW i \in 1 .. l + 1
       PROVE  stamps[i] \in Int /\ stamps[i] - (Origin + i * m) * Period \in 0 .. J
  <2>1. CASE i = l + 1
    BY <1>5, <1>7, <2>1
  <2>2. CASE i # l + 1
    <3>1. i \in 1 .. l
      BY <1>2, <2>2
    <3> QED
      BY <1>7, <1>8, <3>1
  <2> QED
    BY <2>1, <2>2
<1> QED
    BY <1>7, <1>9, <1>10 DEF l, m

\* What a step keeps.
LEMMA TimesKept ==
    ASSUME NEW J \in Nat, UNCHANGED <<header>>
    PROVE  /\ h' = h /\ Blocks' = Blocks
           /\ input_frame_count' = input_frame_count
           /\ timestamp_count' = timestamp_count
           /\ InputsShort(J)' <=> InputsShort(J)
           /\ \A entry : EntryFits(entry, J)' <=> EntryFits(entry, J)
<1>1. h' = h
    BY DEF h
<1>2. /\ Blocks' = Blocks /\ input_frame_count' = input_frame_count
      /\ timestamp_count' = timestamp_count
    BY <1>1 DEF Blocks, input_frame_count, timestamp_count
<1>3. InputsShort(J)' <=> InputsShort(J)
    BY <1>1, <1>2 DEF InputsShort
<1>4. \A entry : EntryFits(entry, J)' <=> EntryFits(entry, J)
    BY <1>2 DEF EntryFits
<1> QED
    BY <1>1, <1>2, <1>3, <1>4

\* The index has the times of the block that is complete.
LEMMA TimesCompleted ==
    ASSUME IInv, NEW J \in Nat, JitterFits(J), TimesInv(J),
           NEW j \in Jitter, process_block(j), FaAdvanced >= h.major_sample_count
    PROVE  TimesInv(J)'
<1> DEFINE stamps == Append(timestamps, Frame(input_frame_count) * Period + j)
           id_zero == IF timestamps = <<>> THEN Frame(0)
                      ELSE data_index[current_major_block].id_zero
           entry == FittedEntry(stamps)
<1>1. /\ UNCHANGED <<header>> /\ fa_offset' = 0 /\ timestamps' = <<>>
      /\ data_index' = [data_index EXCEPT ![current_major_block] =
                        [timestamp |-> entry.timestamp,
                         duration |-> entry.duration, id_zero |-> id_zero]]
    BY DEF process_block
<1>2. stamps = Append(timestamps, Frame(input_frame_count) * Period + j)
    OBVIOUS
<1> HIDE DEF stamps, entry
<1>3. id_zero = Origin /\ Origin \in Int
    BY BlockBegins
<1> HIDE DEF id_zero
<1>4. InputsShort(J) /\ StampsInv(J) /\ j \in 0 .. J
    BY DEF TimesInv, JitterFits
<1>5. /\ h' = h /\ Blocks' = Blocks
      /\ input_frame_count' = input_frame_count
      /\ InputsShort(J)'
      /\ \A e : EntryFits(e, J)' <=> EntryFits(e, J)
    BY <1>1, <1>4, TimesKept
<1>6. /\ DOMAIN data_index' = Blocks
      /\ \A b \in Blocks : b # current_major_block => data_index'[b] = data_index[b]
      /\ data_index'[current_major_block] =
            [timestamp |-> entry.timestamp, duration |-> entry.duration,
             id_zero |-> id_zero]
    BY <1>1, IndexWritten DEF IInv
<1> DEFINE m == input_frame_count
           n == timestamp_count
<1>7. /\ m \in Nat /\ m > 0 /\ n \in Nat /\ n > 1 /\ n * m = h.major_sample_count
      /\ Period \in Nat /\ inputs \in Nat
    BY <1>4, TimeTypes
<1>8. /\ Len(stamps) * m = FaAdvanced
      /\ \A i \in 1 .. Len(stamps) :
            stamps[i] \in Int /\ stamps[i] - (Origin + i * m) * Period \in 0 .. J
      /\ Len(stamps) = Len(timestamps) + 1
    BY <1>2, <1>4, StampAdded
<1>9. FaAdvanced = h.major_sample_count
  <2>1. h.major_sample_count \in Nat
    BY Types DEF IInv, PreparedInv
  <2> QED
    BY <2>1, InputsFill
<1>10. Len(stamps) = n
  <2>1. Len(stamps) \in Nat
    BY <1>4, <1>8, TimeTypes
  <2>2. \A a, b, c \in Nat : c > 0 /\ a * c = b * c => a = b
    OBVIOUS
  <2> HIDE DEF n, m
  <2> QED
    BY <1>7, <1>8, <1>9, <2>1, <2>2
<1>11. EntryNear(entry, Origin, n, m, Period, J)
  <2>1. \A i \in 1 .. n :
            stamps[i] \in Int /\ stamps[i] - (Origin + i * m) * Period \in 0 .. J
    BY <1>8, <1>10
  <2> HIDE DEF m
  <2> QED
    BY <1>3, <1>7, <2>1, FittedIsNear DEF entry
<1>12. \E k \in Int : Origin = k * m
  <2>1. Len(timestamps) \in Nat /\ Len(timestamps) * m = fa_offset
    BY <1>4, TimeTypes DEF StampsInv
  <2>2. Origin = inputs * m - fa_offset
    BY DEF Origin
  <2> DEFINE l == Len(timestamps)
  <2> HIDE DEF l, m
  <2>3. inputs * m - l * m = (inputs - l) * m /\ inputs - l \in Int
    BY <1>7, <2>1 DEF l
  <2> QED
    BY <2>1, <2>2, <2>3 DEF l
<1>13. EntryFits(data_index'[current_major_block], J)
  <2>1. /\ data_index'[current_major_block].timestamp = entry.timestamp
        /\ data_index'[current_major_block].duration = entry.duration
        /\ data_index'[current_major_block].id_zero = Origin
    BY <1>3, <1>6
  <2> HIDE DEF m, n
  <2>2. EntryNear(data_index'[current_major_block], Origin, n, m, Period, J)
    BY <1>11, <2>1 DEF EntryNear
  <2> QED
    BY <1>12, <2>1, <2>2 DEF EntryFits, m, n
<1>14. ASSUME NEW b \in Valid' PROVE EntryFits(data_index[b], J)'
  <2>1. b \in Blocks /\ data_index'[b].duration # 0
    BY <1>5 DEF Valid
  <2>2. EntryFits(data_index'[b], J)
    <3>1. CASE b = current_major_block
      BY <1>13, <3>1
    <3>2. CASE b # current_major_block
      <4>1. data_index'[b] = data_index[b]
        BY <1>6, <2>1, <3>2
      <4>2. b \in Valid
        BY <2>1, <3>2, <4>1 DEF Valid
      <4> QED
        BY <4>1, <4>2 DEF TimesInv
    <3> QED
      BY <3>1, <3>2
  <2> QED
    BY <1>5, <2>2 DEF EntryFits
<1>15. StampsInv(J)'
  <2>1. Len(timestamps') = 0 /\ 1 .. Len(timestamps') = {}
    BY <1>1
  <2>2. 0 * input_frame_count' = 0
    BY <1>5, <1>7
  <2> QED
    BY <1>1, <2>1, <2>2 DEF StampsInv
<1> QED
    BY <1>5, <1>14, <1>15 DEF TimesInv

\* The timestamps that a block which is not complete has.
LEMMA TimesContinued ==
    ASSUME IInv, NEW J \in Nat, JitterFits(J), TimesInv(J),
           NEW j \in Jitter, process_block(j), ~(FaAdvanced >= h.major_sample_count)
    PROVE  TimesInv(J)'
<1> DEFINE stamps == Append(timestamps, Frame(input_frame_count) * Period + j)
           id_zero == IF timestamps = <<>> THEN Frame(0)
                      ELSE data_index[current_major_block].id_zero
<1>1. /\ UNCHANGED <<header>> /\ fa_offset' = FaAdvanced /\ timestamps' = stamps
      /\ inputs' = inputs + 1
      /\ UNCHANGED current_major_block
      /\ data_index' = [data_index EXCEPT ![current_major_block].id_zero = id_zero]
    BY DEF process_block
<1>2. stamps = Append(timestamps, Frame(input_frame_count) * Period + j)
    OBVIOUS
<1> HIDE DEF stamps, id_zero
<1>3. InputsShort(J) /\ StampsInv(J) /\ j \in 0 .. J
    BY DEF TimesInv, JitterFits
<1>4. /\ h' = h /\ Blocks' = Blocks
      /\ input_frame_count' = input_frame_count
      /\ InputsShort(J)'
      /\ \A e : EntryFits(e, J)' <=> EntryFits(e, J)
    BY <1>1, <1>3, TimesKept
<1>5. \A b \in Blocks : b # current_major_block => data_index'[b] = data_index[b]
    BY <1>1, IndexWritten DEF IInv
<1>6. /\ Len(stamps) * input_frame_count = FaAdvanced
      /\ \A i \in 1 .. Len(stamps) :
            stamps[i] - (Origin + i * input_frame_count) * Period \in 0 .. J
    BY <1>2, <1>3, StampAdded
<1>7. Origin' = Origin
  <2> DEFINE m == input_frame_count
  <2>1. m \in Nat /\ inputs \in Nat /\ fa_offset \in Nat /\ FaAdvanced = fa_offset + m
    BY <1>3, TimeTypes
  <2>2. Origin' = (inputs + 1) * m - FaAdvanced
    BY <1>1, <1>4 DEF Origin
  <2>3. Origin = inputs * m - fa_offset
    BY DEF Origin
  <2> HIDE DEF m
  <2>4. (inputs + 1) * m = inputs * m + m /\ inputs * m \in Int
    BY <2>1
  <2> QED
    BY <2>1, <2>2, <2>3, <2>4
<1>8. StampsInv(J)'
    BY <1>1, <1>4, <1>6, <1>7 DEF StampsInv
<1>9. ASSUME NEW b \in Valid' PROVE EntryFits(data_index[b], J)'
  <2>1. b \in Blocks /\ b # current_major_block /\ data_index'[b].duration # 0
    BY <1>1, <1>4 DEF Valid
  <2>2. data_index'[b] = data_index[b]
    BY <1>5, <2>1
  <2>3. EntryFits(data_index'[b], J)
    BY <2>1, <2>2 DEF Valid, TimesInv
  <2> QED
    BY <1>4, <2>3 DEF EntryFits
<1> QED
    BY <1>4, <1>8, <1>9 DEF TimesInv

\* No timestamps are left after a gap or in a new process.
LEMMA TimesAbandoned ==
    ASSUME IInv, NEW J \in Nat, TimesInv(J), UNCHANGED <<header, archived>>,
           fa_offset' = 0, timestamps' = <<>>
    PROVE  TimesInv(J)'
<1>1. InputsShort(J) /\ input_frame_count \in Nat
    BY TimeTypes DEF TimesInv
<1>2. /\ h' = h /\ Blocks' = Blocks /\ input_frame_count' = input_frame_count
      /\ InputsShort(J)' /\ \A e : EntryFits(e, J)' <=> EntryFits(e, J)
    BY <1>1, TimesKept
<1>3. UNCHANGED <<current_major_block, data_index>>
    BY DEF archived
<1>4. StampsInv(J)'
  <2>1. Len(timestamps') = 0 /\ 1 .. Len(timestamps') = {}
    OBVIOUS
  <2>2. 0 * input_frame_count' = 0
    BY <1>1, <1>2
  <2> QED
    BY <2>1, <2>2 DEF StampsInv
<1>5. ASSUME NEW b \in Valid' PROVE EntryFits(data_index[b], J)'
  <2>1. b \in Valid /\ data_index'[b] = data_index[b]
    BY <1>2, <1>3 DEF Valid
  <2>2. EntryFits(data_index'[b], J)
    BY <2>1 DEF TimesInv
  <2> QED
    BY <1>2, <2>2 DEF EntryFits
<1> QED
    BY <1>2, <1>4, <1>5 DEF TimesInv

\* Every step keeps the times right.
LEMMA TimesNext ==
    ASSUME IInv, NEW J \in Nat, JitterFits(J), TimesInv(J), [Next]_vars
    PROVE  TimesInv(J)'
<1>1. ASSUME NEW j \in Jitter, process_block(j) PROVE TimesInv(J)'
  <2>1. CASE FaAdvanced >= h.major_sample_count
    BY <1>1, <2>1, TimesCompleted
  <2>2. CASE ~(FaAdvanced >= h.major_sample_count)
    BY <1>1, <2>2, TimesContinued
  <2> QED
    BY <2>1, <2>2
<1>2. CASE process_gap
  <2>1. UNCHANGED <<header, archived>> /\ fa_offset' = 0 /\ timestamps' = <<>>
    BY <1>2 DEF process_gap, reset_block
  <2> QED
    BY <2>1, TimesAbandoned
<1>3. CASE initialise_transform
  <2>1. UNCHANGED <<header, archived>> /\ fa_offset' = 0 /\ timestamps' = <<>>
    BY <1>3 DEF initialise_transform
  <2> QED
    BY <2>1, TimesAbandoned
<1>4. CASE UNCHANGED vars
  <2>1. /\ UNCHANGED <<header, inputs, current_major_block, data_index>>
        /\ UNCHANGED <<fa_offset, timestamps>>
    BY <1>4 DEF vars, archived, gathered
  <2>2. /\ h' = h /\ Blocks' = Blocks /\ input_frame_count' = input_frame_count
        /\ InputsShort(J)' /\ \A e : EntryFits(e, J)' <=> EntryFits(e, J)
    BY <2>1, TimesKept DEF TimesInv
  <2>3. Origin' = Origin
    BY <2>1, <2>2 DEF Origin
  <2>4. StampsInv(J)'
    BY <2>1, <2>2, <2>3 DEF TimesInv, StampsInv
  <2>5. ASSUME NEW b \in Valid' PROVE EntryFits(data_index[b], J)'
    <3>1. b \in Valid /\ data_index'[b] = data_index[b]
      BY <2>1, <2>2 DEF Valid
    <3>2. EntryFits(data_index'[b], J)
      BY <3>1 DEF TimesInv
    <3> QED
      BY <2>2, <3>2 DEF EntryFits
  <2> QED
    BY <2>2, <2>4, <2>5 DEF TimesInv
<1> QED
    BY <1>1, <1>2, <1>3, <1>4 DEF Next

\* There are no timestamps and no blocks to begin with.
LEMMA TimesInit ==
    ASSUME NEW J \in Nat, JitterFits(J), Init
    PROVE  TimesInv(J)
<1>1. InputsShort(J)
  <2>1. PICK p \in Params : Accepted(p) /\ header = initialise_header(p)
    BY DEF Init
  <2>2. h.input_sample_count = p.input /\ h.major_sample_count = p.samples
    BY <2>1 DEF initialise_header, h
  <2> QED
    BY <2>1, <2>2 DEF JitterFits, InputsShort, input_frame_count
<1>2. IInv /\ input_frame_count \in Nat
    BY <1>1, InvInit, TimeTypes
<1>3. StampsInv(J)
  <2>1. fa_offset = 0 /\ timestamps = <<>>
    BY DEF Init
  <2>2. Len(timestamps) = 0 /\ 1 .. Len(timestamps) = {}
    BY <2>1
  <2>3. 0 * input_frame_count = 0
    BY <1>2
  <2> QED
    BY <2>1, <2>2, <2>3 DEF StampsInv
<1>4. Valid = {}
    BY DEF Init, ZeroIndex, Valid
<1> QED
    BY <1>1, <1>3, <1>4 DEF TimesInv

\* Two blocks in a row: the second begins where the first ends, nearly, unless
\* an input block is missing.
LEMMA TimesShowGaps ==
    ASSUME IInv, NEW J \in Nat, JitterFits(J), TimesInv(J)
    PROVE  GapsAreSeen
<1> SUFFICES ASSUME NEW b \in Valid, NextBlock(b) \in Valid
             PROVE  LET this == data_index[b]
                        next == data_index[NextBlock(b)]
                        delta == next.timestamp - (this.timestamp + this.duration)
                        lost == next.id_zero - (this.id_zero + h.major_sample_count)
                    IN lost >= 0 => (lost > 0 <=> delta > MaxDelta \/ delta < -MaxDelta)
    BY DEF GapsAreSeen
<1> DEFINE m == input_frame_count
           n == timestamp_count
           this == data_index[b]
           next == data_index[NextBlock(b)]
           s == this.timestamp
           t == next.timestamp
           d == this.duration
<1>1. /\ m \in Nat /\ m > 0 /\ n \in Nat /\ n * m = h.major_sample_count
      /\ Period \in Nat /\ m * Period > MaxDelta + 7 * J + 2
    BY TimeTypes DEF TimesInv, InputsShort
<1>2. MaxDelta \in Nat /\ 7 * J + 2 <= MaxDelta
    BY TransformAssumption DEF JitterFits
<1>3. EntryFits(this, J) /\ EntryFits(next, J)
    BY DEF TimesInv
<1>4. PICK k \in Int : this.id_zero = k * m
    BY <1>3 DEF EntryFits
<1>5. PICK l \in Int : next.id_zero = l * m
    BY <1>3 DEF EntryFits
<1>6. /\ s \in Int /\ d \in Int /\ t \in Int
      /\ -(3 * J + 2) <= 2 * (s - (k * m) * Period)
      /\ 2 * (s - (k * m) * Period) <= 5 * J + 2
      /\ -(3 * J) <= d - (n * m) * Period
      /\ d - (n * m) * Period <= 3 * J
      /\ -(3 * J + 2) <= 2 * (t - (l * m) * Period)
      /\ 2 * (t - (l * m) * Period) <= 5 * J + 2
    BY <1>3, <1>4, <1>5 DEF EntryFits, EntryNear
<1> DEFINE lost == next.id_zero - (this.id_zero + h.major_sample_count)
           delta == t - (s + d)
           g == l - k - n
<1>7. lost = g * m /\ g \in Int
  <2>1. lost = l * m - (k * m + n * m)
    BY <1>1, <1>4, <1>5
  <2> HIDE DEF lost, m, n
  <2> QED
    BY <1>1, <2>1
<1>8. (l * m) * Period - (k * m) * Period - (n * m) * Period = g * (m * Period)
  <2> HIDE DEF m, n
  <2> QED
    BY <1>1
<1> HIDE DEF s, t, d, m, n, lost, g
<1>9. delta \in Int /\ -(7 * J + 2) <= delta - g * (m * Period)
      /\ delta - g * (m * Period) <= 7 * J + 2
  <2> DEFINE u == (k * m) * Period
             v == (l * m) * Period
             w == (n * m) * Period
             y == g * (m * Period)
  <2>1. u \in Int /\ v \in Int /\ w \in Int /\ y \in Int
    BY <1>1, <1>7
  <2>2. /\ -(3 * J + 2) <= 2 * (s - u) /\ 2 * (s - u) <= 5 * J + 2
        /\ -(3 * J) <= d - w /\ d - w <= 3 * J
        /\ -(3 * J + 2) <= 2 * (t - v) /\ 2 * (t - v) <= 5 * J + 2
        /\ v - u - w = y
    BY <1>6, <1>8
  <2> HIDE DEF u, v, w, y
  <2>3. delta \in Int /\ -(7 * J + 2) <= delta - y /\ delta - y <= 7 * J + 2
    BY <1>6, <2>1, <2>2
  <2> QED
    BY <2>3 DEF y
<1> HIDE DEF delta
<1>10. ASSUME lost >= 0
       PROVE  lost > 0 <=> delta > MaxDelta \/ delta < -MaxDelta
  <2>1. CASE lost = 0
    <3>1. g = 0
      <4>1. \A x \in Int, y \in Nat : y > 0 /\ x * y = 0 => x = 0
        OBVIOUS
      <4> QED
        BY <1>1, <1>7, <2>1, <4>1
    <3>2. 0 * (m * Period) = 0
      BY <1>1
    <3>3. -(7 * J + 2) <= delta /\ delta <= 7 * J + 2
      BY <1>9, <3>1, <3>2
    <3> QED
      BY <1>2, <1>9, <2>1, <3>3
  <2>2. CASE lost > 0
    <3>1. g >= 1
      <4>1. \A x \in Int, y \in Nat : x * y > 0 => x > 0
        OBVIOUS
      <4> QED
        BY <1>1, <1>7, <2>2, <4>1
    <3> DEFINE y == m * Period
    <3>2. y \in Nat /\ y > MaxDelta + 7 * J + 2
      BY <1>1
    <3> HIDE DEF y
    <3>3. g * y >= y /\ g * y \in Int
      <4>1. \A x \in Int, z \in Nat : x >= 1 => x * z >= z
        OBVIOUS
      <4> QED
        BY <1>7, <3>1, <3>2, <4>1
    <3> DEFINE e == g * y
    <3>4. e >= y /\ e \in Int /\ -(7 * J + 2) <= delta - e
      BY <1>9, <3>3 DEF y
    <3> HIDE DEF e
    <3>5. delta > MaxDelta
      BY <1>2, <1>9, <3>2, <3>4
    <3> QED
      BY <2>2, <3>5
  <2>3. lost \in Int
    BY <1>1, <1>7
  <2> QED
    BY <1>10, <2>1, <2>2, <2>3
<1> QED
    BY <1>10 DEF lost, delta, s, t, d

\* The fit finds every missing input block and no other gap, for every layout
\* with several input blocks in a major block, and any timestamps that are off
\* by so much less than MAX_DELTA_T.
THEOREM GapsFound ==
    ASSUME NEW J \in Nat, JitterFits(J)
    PROVE  Spec => []GapsAreSeen
<1>1. Init => TimesInv(J)
    BY TimesInit
<1>2. IInv /\ TimesInv(J) /\ [Next]_vars => TimesInv(J)'
    BY TimesNext
<1>3. IInv /\ TimesInv(J) => GapsAreSeen
    BY TimesShowGaps
<1> QED
    BY <1>1, <1>2, <1>3, TransformInvariance, PTL DEF Spec

=============================================================================
