------------------------------ MODULE PoolProofs ------------------------------
(***************************************************************************)
(* Proofs about the pool of buffers, for any number of clients, of buffers *)
(* and of requests of any size: every buffer is free or held once, a       *)
(* request's delayed buffers suffice, and it is refused only if somebody   *)
(* else has buffers.                                                       *)
(***************************************************************************)
EXTENDS BufferPool, SequenceTheorems, FiniteSetTheorems, TLAPS

-----------------------------------------------------------------------------
(* Taking buffers from the front of the free list, and putting them back. *)

LEMMA PoolSplits ==
    ASSUME NEW S, NEW s \in Seq(S), IsInjective(s), NEW n \in 0 .. Len(s)
    PROVE  LET p == SubSeq(s, 1, n)
               q == SubSeq(s, n + 1, Len(s))
           IN /\ p \in Seq(S) /\ q \in Seq(S)
              /\ Len(q) = Len(s) - n
              /\ IsInjective(p) /\ IsInjective(q)
              /\ ToSet(p) \cap ToSet(q) = {}
              /\ ToSet(p) \cup ToSet(q) = ToSet(s)
<1> DEFINE p == SubSeq(s, 1, n)
           q == SubSeq(s, n + 1, Len(s))
<1>1. Len(s) \in Nat /\ \A i \in 1 .. Len(s) : s[i] \in S
    BY LenProperties, ElementOfSeq
<1>2. /\ p \in Seq(S) /\ Len(p) = n
      /\ \A i \in 1 .. n : p[i] = s[i]
    BY <1>1, SubSeqProperties
<1>3. /\ q \in Seq(S) /\ Len(q) = Len(s) - n
      /\ \A i \in 1 .. Len(s) - n : q[i] = s[n + i]
    BY <1>1, SubSeqProperties
<1>4. /\ DOMAIN s = 1 .. Len(s) /\ DOMAIN p = 1 .. n
      /\ DOMAIN q = 1 .. Len(s) - n
    BY <1>2, <1>3, LenProperties
<1> HIDE DEF p, q
<1>a. ASSUME NEW i \in 1 .. n
      PROVE  i \in 1 .. Len(s) /\ p[i] = s[i]
    BY <1>1, <1>2
<1>b. ASSUME NEW i \in 1 .. Len(s) - n
      PROVE  n + i \in 1 .. Len(s) /\ q[i] = s[n + i]
    BY <1>1, <1>3
<1>c. \A a, b \in 1 .. Len(s) : s[a] = s[b] => a = b
    BY <1>4 DEF IsInjective
<1>5. IsInjective(p) /\ IsInjective(q)
  <2>1. ASSUME NEW a \in 1 .. n, NEW b \in 1 .. n, p[a] = p[b] PROVE a = b
    BY <1>a, <1>c, <2>1
  <2>2. ASSUME NEW a \in 1 .. Len(s) - n, NEW b \in 1 .. Len(s) - n,
               q[a] = q[b]
        PROVE  a = b
    <3>1. n + a = n + b
        BY <1>b, <1>c, <2>2
    <3> QED
        BY <3>1
  <2> QED
    BY <1>4, <2>1, <2>2 DEF IsInjective
<1>6. ToSet(p) \cap ToSet(q) = {}
  <2>1. ASSUME NEW a \in 1 .. n, NEW b \in 1 .. Len(s) - n PROVE p[a] # q[b]
    <3>1. a # n + b
        BY <1>1
    <3> QED
        BY <1>a, <1>b, <1>c, <3>1
  <2> QED
    BY <1>4, <2>1 DEF ToSet
<1>7. ToSet(p) \cup ToSet(q) = ToSet(s)
  <2>1. ASSUME NEW i \in 1 .. Len(s) PROVE s[i] \in ToSet(p) \cup ToSet(q)
    <3>1. CASE i <= n
        BY <1>1, <1>2, <1>4, <3>1 DEF ToSet
    <3>2. CASE i > n
        <4>1. i - n \in 1 .. Len(s) - n /\ q[i - n] = s[i]
            BY <1>1, <1>3, <3>2
        <4> QED
            BY <1>4, <4>1 DEF ToSet
    <3> QED
        BY <1>1, <3>1, <3>2
  <2>2. ToSet(p) \subseteq ToSet(s) /\ ToSet(q) \subseteq ToSet(s)
    BY <1>4, <1>a, <1>b DEF ToSet
  <2> QED
    BY <1>4, <2>1, <2>2 DEF ToSet
<1> QED
    BY <1>2, <1>3, <1>5, <1>6, <1>7 DEF p, q

LEMMA PoolJoins ==
    ASSUME NEW S, NEW s \in Seq(S), NEW t \in Seq(S),
           IsInjective(s), IsInjective(t), ToSet(s) \cap ToSet(t) = {}
    PROVE  LET j == Reverse(t) \o s
           IN /\ j \in Seq(S) /\ Len(j) = Len(s) + Len(t)
              /\ IsInjective(j)
              /\ ToSet(j) = ToSet(s) \cup ToSet(t)
<1> DEFINE r == Reverse(t)
           j == r \o s
<1>1. /\ Len(s) \in Nat /\ \A i \in 1 .. Len(s) : s[i] \in S
      /\ Len(t) \in Nat /\ \A i \in 1 .. Len(t) : t[i] \in S
      /\ DOMAIN s = 1 .. Len(s) /\ DOMAIN t = 1 .. Len(t)
    BY LenProperties, ElementOfSeq
<1>2. r = [i \in 1 .. Len(t) |-> t[(Len(t) - i) + 1]]
    BY DEF Reverse
<1>3. r \in [1 .. Len(t) -> S] /\ \A i \in 1 .. Len(t) : r[i] = t[(Len(t) - i) + 1]
    BY <1>1, <1>2
<1>4. r \in Seq(S) /\ Len(r) = Len(t)
    BY <1>1, <1>3, SeqDef, LenProperties
<1> HIDE DEF r
<1>5. /\ j \in Seq(S) /\ Len(j) = Len(t) + Len(s)
      /\ \A i \in 1 .. Len(r) + Len(s) :
            j[i] = IF i <= Len(r) THEN r[i] ELSE s[i - Len(r)]
    BY <1>4, ConcatProperties
<1>6. DOMAIN j = 1 .. Len(t) + Len(s)
    BY <1>5, LenProperties
<1> HIDE DEF j
<1> DEFINE m == Len(t)
           n == Len(s)
<1>7. ASSUME NEW i \in 1 .. m
      PROVE  /\ i \in 1 .. m + n /\ (m - i) + 1 \in 1 .. m
             /\ j[i] = t[(m - i) + 1]
  <2>1. i \in 1 .. m + n /\ i <= m /\ (m - i) + 1 \in 1 .. m
    BY <1>1
  <2> QED
    BY <1>3, <1>4, <1>5, <2>1
<1>8. ASSUME NEW i \in 1 .. n
      PROVE  m + i \in 1 .. m + n /\ j[m + i] = s[i]
  <2>1. m + i \in 1 .. m + n /\ ~(m + i <= m) /\ (m + i) - m = i
    BY <1>1
  <2> QED
    BY <1>4, <1>5, <2>1
<1>9. ASSUME NEW a \in 1 .. m + n
      PROVE  a \in 1 .. m \/ \E i \in 1 .. n : a = m + i
  <2>1. CASE a > m
    <3>1. a - m \in 1 .. n /\ a = m + (a - m)
        BY <1>1, <2>1
    <3> QED
        BY <3>1
  <2> QED
    BY <1>1, <2>1
<1> HIDE DEF m, n
<1>10. IsInjective(j)
  <2> SUFFICES ASSUME NEW a \in 1 .. m + n, NEW b \in 1 .. m + n, j[a] = j[b]
               PROVE  a = b
    BY <1>6 DEF IsInjective, m, n
  <2>1. CASE a \in 1 .. m /\ b \in 1 .. m
    <3>1. (m - a) + 1 = (m - b) + 1
        BY <1>1, <1>7, <2>1 DEF IsInjective, m
    <3> QED
        BY <1>1, <2>1, <3>1 DEF m
  <2>a. ASSUME NEW i \in 1 .. n PROVE j[m + i] \in ToSet(s)
    BY <1>1, <1>8 DEF ToSet, n
  <2>b. ASSUME NEW i \in 1 .. m PROVE j[i] \in ToSet(t)
    BY <1>1, <1>7 DEF ToSet, m
  <2>2. ASSUME NEW i \in 1 .. n, a = m + i, b \in 1 .. m PROVE FALSE
    BY <2>2, <2>a, <2>b
  <2>3. ASSUME NEW i \in 1 .. n, b = m + i, a \in 1 .. m PROVE FALSE
    BY <2>3, <2>a, <2>b
  <2>4. ASSUME NEW i \in 1 .. n, NEW k \in 1 .. n, a = m + i, b = m + k
        PROVE  a = b
    BY <1>1, <1>8, <2>4 DEF IsInjective, n
  <2> QED
    BY <1>9, <2>1, <2>2, <2>3, <2>4
<1>11. ToSet(j) = ToSet(s) \cup ToSet(t)
  <2>1. ASSUME NEW a \in 1 .. m + n PROVE j[a] \in ToSet(s) \cup ToSet(t)
    BY <1>1, <1>7, <1>8, <1>9 DEF ToSet, m, n
  <2>2. ASSUME NEW i \in 1 .. n PROVE s[i] \in ToSet(j)
    BY <1>6, <1>8 DEF ToSet, m, n
  <2>3. ASSUME NEW i \in 1 .. m PROVE t[i] \in ToSet(j)
    <3>1. (m - i) + 1 \in 1 .. m /\ (m - ((m - i) + 1)) + 1 = i
        BY <1>1 DEF m
    <3>2. /\ j[(m - i) + 1] = t[i]
          /\ (m - i) + 1 \in 1 .. m + n
        BY <1>7, <3>1
    <3> QED
        BY <1>6, <3>2 DEF ToSet, m, n
  <2>4. DOMAIN j = 1 .. m + n /\ DOMAIN s = 1 .. n /\ DOMAIN t = 1 .. m
    BY <1>1, <1>6 DEF m, n
  <2> QED
    BY <2>1, <2>2, <2>3, <2>4 DEF ToSet
<1> QED
    BY <1>1, <1>5, <1>10, <1>11 DEF r, j

LEMMA NoneTaken ==
    /\ <<>> \in Seq(Buffers) /\ IsInjective(<<>>) /\ ToSet(<<>>) = {}
    BY EmptySeq DEF IsInjective, ToSet

-----------------------------------------------------------------------------
(* The order in which a request takes buffers and gives them back. *)

\* The kinds not taken yet when it is the turn of k, and those given back.
NotYet(k) ==
    CASE k = "read" -> Kinds
      [] k = "out" -> Kinds \ {"read"}
      [] k = "timestamps" -> Delayed
      [] k = "durations" -> {"durations", "id0s"}
      [] k = "id0s" -> {"id0s"}

Done(k) ==
    CASE k = "timestamps" -> {}
      [] k = "durations" -> {"timestamps"}
      [] k = "id0s" -> {"timestamps", "durations"}
      [] k = "out" -> Delayed
      [] k = "read" -> Delayed \cup {"out"}

InOrder(r, k) ==
    /\ k \in Kinds
    /\ k \in Delayed => r.at_end
    /\ k = "id0s" => r.send_id0

LEMMA NextTaken ==
    ASSUME NEW r, r.at_end \in BOOLEAN, r.send_id0 \in BOOLEAN,
           NEW k, InOrder(r, k), k # Last(Taken(r)),
           NEW n, n = Successor(Taken(r), k)
    PROVE  InOrder(r, n) /\ NotYet(n) = NotYet(k) \ {k}
<1>1. CASE ~r.at_end
  <2>1. /\ Taken(r) = <<"read", "out">>
        /\ k = "read"
    BY <1>1 DEF Taken, InOrder, Kinds, Delayed, Last
  <2>2. n = "out"
    BY <2>1 DEF Successor
  <2> QED
    BY <2>1, <2>2 DEF InOrder, NotYet, Kinds, Delayed
<1>2. CASE r.at_end /\ ~r.send_id0
  <2>1. /\ Taken(r) = <<"read", "out", "timestamps", "durations">>
        /\ k \in {"read", "out", "timestamps"}
    BY <1>2 DEF Taken, InOrder, Kinds, Delayed, Last
  <2>2. /\ k = "read" => n = "out"
        /\ k = "out" => n = "timestamps"
        /\ k = "timestamps" => n = "durations"
    BY <2>1 DEF Successor
  <2> QED
    BY <1>2, <2>1, <2>2 DEF InOrder, NotYet, Kinds, Delayed
<1>3. CASE r.at_end /\ r.send_id0
  <2>1. /\ Taken(r) = <<"read", "out", "timestamps", "durations", "id0s">>
        /\ k \in {"read", "out", "timestamps", "durations"}
    BY <1>3 DEF Taken, InOrder, Kinds, Delayed, Last
  <2>2. /\ k = "read" => n = "out"
        /\ k = "out" => n = "timestamps"
        /\ k = "timestamps" => n = "durations"
        /\ k = "durations" => n = "id0s"
    BY <2>1 DEF Successor
  <2> QED
    BY <1>3, <2>1, <2>2 DEF InOrder, NotYet, Kinds, Delayed
<1> QED
    BY <1>1, <1>2, <1>3

LEMMA NextGivenBack ==
    ASSUME NEW r, r.send_id0 \in BOOLEAN,
           NEW k \in Kinds, k = "id0s" => r.send_id0, k # Last(GivenBack(r)),
           NEW n, n = Successor(GivenBack(r), k)
    PROVE  /\ n \in Kinds
           /\ n = "id0s" => r.send_id0
           /\ Done(n) \subseteq Done(k) \cup {k} \cup {"id0s"}
           /\ r.send_id0 => Done(n) = Done(k) \cup {k}
           /\ k # "read"
<1>1. CASE ~r.send_id0
  <2>1. /\ GivenBack(r) = <<"timestamps", "durations", "out", "read">>
        /\ k \in {"timestamps", "durations", "out"}
    BY <1>1 DEF GivenBack, Kinds, Delayed, Last
  <2>2. /\ k = "timestamps" => n = "durations"
        /\ k = "durations" => n = "out"
        /\ k = "out" => n = "read"
    BY <2>1 DEF Successor
  <2> QED
    BY <1>1, <2>1, <2>2 DEF Done, Kinds, Delayed
<1>2. CASE r.send_id0
  <2>1. /\ GivenBack(r) =
                <<"timestamps", "durations", "id0s", "out", "read">>
        /\ k \in {"timestamps", "durations", "id0s", "out"}
    BY <1>2 DEF GivenBack, Kinds, Delayed, Last
  <2>2. /\ k = "timestamps" => n = "durations"
        /\ k = "durations" => n = "id0s"
        /\ k = "id0s" => n = "out"
        /\ k = "out" => n = "read"
    BY <2>1 DEF Successor
  <2> QED
    BY <1>2, <2>1, <2>2 DEF Done, Kinds, Delayed
<1> QED
    BY <1>1, <1>2

LEMMA LastGivenBack ==
    ASSUME NEW r, r.send_id0 \in BOOLEAN
    PROVE  Last(GivenBack(r)) = "read"
    BY DEF GivenBack, Last

-----------------------------------------------------------------------------
(* The inductive invariant. *)

PoolTypes ==
    /\ buffer_pool \in Seq(Buffers)
    /\ stage \in [Clients -> {"idle", "lock", "open", "transfer", "aborted",
                              "unlock"}]
    /\ kind \in [Clients -> Kinds]
    /\ request \in [Clients -> [ids : Nat, samples : Nat, offset : Nat,
                                at_end : BOOLEAN, send_id0 : BOOLEAN]]
    /\ held \in [Clients -> [Kinds -> Seq(Buffers)]]

\* PoolIsWhole, for each pair of a client and a kind.
Whole ==
    /\ pool_size = Len(buffer_pool)
    /\ IsInjective(buffer_pool)
    /\ \A c \in Clients, k \in Kinds :
        /\ IsInjective(held[c][k])
        /\ ToSet(buffer_pool) \cap ToSet(held[c][k]) = {}
        /\ \A d \in Clients, l \in Kinds :
            c # d \/ k # l => ToSet(held[c][k]) \cap ToSet(held[d][l]) = {}
    /\ \A b \in Buffers :
        \/ b \in ToSet(buffer_pool)
        \/ \E c \in Clients, k \in Kinds : b \in ToSet(held[c][k])

\* A request takes its buffers in order and gives them back in order.
Progress(c) ==
    /\ stage[c] = "idle" => \A k \in Kinds : held[c][k] = <<>>
    /\ stage[c] = "lock" =>
        /\ InOrder(request[c], kind[c])
        /\ \A k \in NotYet(kind[c]) : held[c][k] = <<>>
    /\ stage[c] = "unlock" =>
        /\ kind[c] = "id0s" => request[c].send_id0
        /\ \A k \in Done(kind[c]) : held[c][k] = <<>>
    /\ ~request[c].send_id0 => held[c]["id0s"] = <<>>

IInv == PoolTypes /\ Whole /\ \A c \in Clients : Progress(c)

LEMMA WantedType ==
    ASSUME NEW r \in [ids : Nat, samples : Nat, offset : Nat,
                      at_end : BOOLEAN, send_id0 : BOOLEAN],
           NEW k \in Kinds
    PROVE  Wanted(r, k) \in Nat
<1>1. /\ SamplesPerBlock \in Nat /\ SamplesPerBlock > 0
      /\ MajorSampleCount \in Nat /\ MajorSampleCount > 0
    BY PoolAssumption
<1>2. ASSUME NEW a \in Nat, NEW b \in Nat, b > 0 PROVE a \div b \in Nat
    BY <1>2
<1>3. Timestamps(r) \in Nat
    BY <1>1, <1>2 DEF Timestamps
<1>4. ASSUME NEW b \in Nat, b > 0 PROVE RoundUp(Timestamps(r), b) \in Nat
  <2>1. Timestamps(r) + b - 1 \in Nat
    BY <1>3, <1>4
  <2> QED
    BY <1>2, <1>4, <2>1 DEF RoundUp
<1>5. /\ pooled_buffer_size \div 2 \in Nat /\ pooled_buffer_size \div 2 > 0
      /\ pooled_buffer_size \div 1 \in Nat /\ pooled_buffer_size \div 1 > 0
    BY <1>1 DEF pooled_buffer_size
<1> QED
    BY <1>4, <1>5 DEF Wanted, Kinds

LEMMA WholePool == PoolTypes /\ Whole => PoolIsWhole
<1> SUFFICES ASSUME PoolTypes, Whole PROVE PoolIsWhole
    OBVIOUS
<1>1. /\ ToSet(buffer_pool) \subseteq Buffers
      /\ \A c \in Clients, k \in Kinds : ToSet(held[c][k]) \subseteq Buffers
  <2>1. ASSUME NEW s \in Seq(Buffers) PROVE ToSet(s) \subseteq Buffers
    BY ElementOfSeq, LenProperties DEF ToSet
  <2> QED
    BY <2>1 DEF PoolTypes
<1>2. \A c \in Clients : ToSet(buffer_pool) \cap HeldBuffers(c) = {}
    BY DEF Whole, HeldBuffers
<1>3. \A c \in Clients : \A d \in Clients \ {c} :
        HeldBuffers(c) \cap HeldBuffers(d) = {}
    BY DEF Whole, HeldBuffers
<1>4. ToSet(buffer_pool) \cup UNION {HeldBuffers(c) : c \in Clients} = Buffers
    BY <1>1 DEF Whole, HeldBuffers
<1> QED
    BY <1>2, <1>3, <1>4 DEF Whole, PoolIsWhole

LEMMA InvInit == Init => IInv
<1> SUFFICES ASSUME Init PROVE IInv
    OBVIOUS
<1> DEFINE all == [b \in Buffers |-> b]
<1>1. FaEntryCount \in Nat
    BY PoolAssumption
<1>2. all \in Seq(Buffers) /\ Len(all) = FaEntryCount
  <2>1. all \in [1 .. FaEntryCount -> Buffers]
    BY DEF Buffers
  <2> QED
    BY <1>1, <2>1, SeqDef, LenProperties
<1>3. IsInjective(all) /\ ToSet(all) = Buffers
    BY DEF IsInjective, ToSet
<1>4. Reverse(all) \in Seq(Buffers)
  <2>1. Reverse(all) \in [1 .. FaEntryCount -> Buffers]
    BY <1>1, <1>2 DEF Reverse, Buffers
  <2> QED
    BY <1>1, <2>1, SeqDef
<1>a. buffer_pool = Reverse(all) \o <<>>
  <2>1. buffer_pool = Reverse(all)
    BY DEF Init
  <2> QED
    BY <1>4, <2>1, ConcatEmptySeq
<1> DEFINE none == <<>>
<1>b. /\ none \in Seq(Buffers) /\ IsInjective(none) /\ ToSet(none) = {}
      /\ Len(none) = 0
    BY NoneTaken
<1>e. buffer_pool = Reverse(all) \o none
    BY <1>a
<1> HIDE DEF all, none
<1>f. ToSet(none) \cap ToSet(all) = {}
    BY <1>b
<1>c. /\ buffer_pool \in Seq(Buffers)
      /\ Len(buffer_pool) = Len(none) + Len(all)
      /\ IsInjective(buffer_pool)
      /\ ToSet(buffer_pool) = ToSet(none) \cup ToSet(all)
  <2>1. all \in Seq(Buffers) /\ none \in Seq(Buffers)
    BY <1>2, <1>b
  <2>2. IsInjective(all) /\ IsInjective(none)
    BY <1>3, <1>b
  <2>3. LET j == Reverse(all) \o none
        IN /\ j \in Seq(Buffers) /\ Len(j) = Len(none) + Len(all)
           /\ IsInjective(j)
           /\ ToSet(j) = ToSet(none) \cup ToSet(all)
    BY <1>f, <2>1, <2>2, PoolJoins, ZenonT(90)
  <2> QED
    BY <1>e, <2>3
<1>d. Len(buffer_pool) = FaEntryCount /\ ToSet(buffer_pool) = Buffers
    BY <1>1, <1>2, <1>3, <1>b, <1>c
<1>5. \A c \in Clients, k \in Kinds : held[c][k] = <<>>
    BY DEF Init, NoBuffers
<1>6. PoolTypes
    BY <1>c, NoneTaken DEF Init, PoolTypes, NoBuffers, NoRequest, Kinds
<1>7. Whole
    BY <1>5, <1>c, <1>d, NoneTaken DEF Init, Whole
<1>8. \A c \in Clients : Progress(c)
    BY <1>5 DEF Init, Progress, Kinds, Delayed
<1> QED
    BY <1>6, <1>7, <1>8 DEF IInv

-----------------------------------------------------------------------------
(* Taking and giving back. *)

\* One of the buffers lists is exchanged with the free list.
LEMMA Exchange ==
    ASSUME PoolTypes, Whole, NEW c \in Clients, NEW k \in Kinds,
           NEW p \in Seq(Buffers), IsInjective(p),
           buffer_pool' \in Seq(Buffers), IsInjective(buffer_pool'),
           pool_size' = Len(buffer_pool'),
           held' = [held EXCEPT ![c][k] = p],
           ToSet(buffer_pool') \cap ToSet(p) = {},
           ToSet(buffer_pool') \cup ToSet(p)
                = ToSet(buffer_pool) \cup ToSet(held[c][k])
    PROVE  Whole'
<1>1. /\ held'[c][k] = p
      /\ \A d \in Clients, l \in Kinds :
            c # d \/ k # l => held'[d][l] = held[d][l]
    BY DEF PoolTypes
<1>2. ASSUME NEW d \in Clients, NEW l \in Kinds, c # d \/ k # l
      PROVE  /\ IsInjective(held'[d][l])
             /\ ToSet(buffer_pool') \cap ToSet(held'[d][l]) = {}
             /\ ToSet(p) \cap ToSet(held'[d][l]) = {}
  <2>1. /\ IsInjective(held[d][l])
        /\ ToSet(buffer_pool) \cap ToSet(held[d][l]) = {}
        /\ ToSet(held[c][k]) \cap ToSet(held[d][l]) = {}
    BY <1>2 DEF Whole
  <2> QED
    BY <1>1, <1>2, <2>1
<1>3. ASSUME NEW d \in Clients, NEW l \in Kinds,
             NEW e \in Clients, NEW m \in Kinds, d # e \/ l # m
      PROVE  ToSet(held'[d][l]) \cap ToSet(held'[e][m]) = {}
  <2>1. CASE d = c /\ l = k
    BY <1>1, <1>2, <1>3, <2>1
  <2>2. CASE e = c /\ m = k
    BY <1>1, <1>2, <1>3, <2>2
  <2>3. CASE ~(d = c /\ l = k) /\ ~(e = c /\ m = k)
    <3>1. held'[d][l] = held[d][l] /\ held'[e][m] = held[e][m]
        BY <1>1, <2>3
    <3> QED
        BY <1>3, <3>1 DEF Whole
  <2> QED
    BY <2>1, <2>2, <2>3
<1>4. ASSUME NEW b \in Buffers
      PROVE  \/ b \in ToSet(buffer_pool')
             \/ \E d \in Clients, l \in Kinds : b \in ToSet(held'[d][l])
  <2>1. CASE b \in ToSet(buffer_pool) \/ b \in ToSet(held[c][k])
    BY <1>1, <2>1
  <2>2. ASSUME NEW d \in Clients, NEW l \in Kinds, b \in ToSet(held[d][l]),
               c # d \/ k # l
        PROVE  b \in ToSet(held'[d][l])
    BY <1>1, <2>2
  <2> QED
    BY <2>1, <2>2 DEF Whole
<1> QED
    BY <1>1, <1>2, <1>3, <1>4 DEF Whole

LEMMA LockStep ==
    ASSUME IInv, NEW c \in Clients, lock_buffers(c) PROVE IInv'
<1> DEFINE k == kind[c]
           r == request[c]
           count == Wanted(r, k)
<1>0. PoolTypes /\ Whole /\ \A d \in Clients : Progress(d)
    BY DEF IInv
<1>1. /\ k \in Kinds /\ stage[c] = "lock" /\ UNCHANGED request
      /\ r \in [ids : Nat, samples : Nat, offset : Nat,
                 at_end : BOOLEAN, send_id0 : BOOLEAN]
      /\ InOrder(r, k)
      /\ \A l \in NotYet(k) : held[c][l] = <<>>
      /\ ~r.send_id0 => held[c]["id0s"] = <<>>
    BY <1>0 DEF PoolTypes, Progress, lock_buffers
<1>2. count \in Nat
    BY <1>1, WantedType
<1>3. CASE Enough(count)
  <2> DEFINE p == SubSeq(buffer_pool, 1, count)
             q == SubSeq(buffer_pool, count + 1, Len(buffer_pool))
  <2>1. /\ pool_size' = pool_size - count /\ buffer_pool' = q
        /\ held' = [held EXCEPT ![c][k] = p]
        /\ IF k = Last(Taken(r))
           THEN GoTo(c, "open", "read")
           ELSE GoTo(c, "lock", Successor(Taken(r), k))
    BY <1>1, <1>3 DEF lock_buffers
  <2>2. /\ buffer_pool \in Seq(Buffers) /\ IsInjective(buffer_pool)
        /\ pool_size = Len(buffer_pool) /\ count \in 0 .. Len(buffer_pool)
        /\ Len(buffer_pool) \in Nat
    BY <1>0, <1>2, <1>3, LenProperties DEF PoolTypes, Whole, Enough
  <2>3. /\ p \in Seq(Buffers) /\ q \in Seq(Buffers)
        /\ Len(q) = Len(buffer_pool) - count
        /\ IsInjective(p) /\ IsInjective(q)
        /\ ToSet(p) \cap ToSet(q) = {}
        /\ ToSet(p) \cup ToSet(q) = ToSet(buffer_pool)
    BY <2>2, PoolSplits
  <2> HIDE DEF p, q, count
  <2>4. held[c][k] = <<>>
    BY <1>1 DEF NotYet, InOrder, Kinds, Delayed
  <2>5. Whole'
    <3>1. ToSet(q) \cup ToSet(p) = ToSet(buffer_pool) \cup ToSet(held[c][k])
        BY <2>3, <2>4, NoneTaken
    <3>2. ToSet(q) \cap ToSet(p) = {}
        BY <2>3
    <3> QED
        BY <1>0, <1>1, <2>1, <2>2, <2>3, <3>1, <3>2, Exchange
  <2>6. CASE k = Last(Taken(r))
    <3>1. /\ stage' = [stage EXCEPT ![c] = "open"]
          /\ kind' = [kind EXCEPT ![c] = "read"]
        BY <2>1, <2>6 DEF GoTo
    <3>2. PoolTypes'
        BY <1>0, <1>1, <2>1, <2>3, <3>1 DEF PoolTypes, Kinds
    <3>3. \A d \in Clients : Progress(d)'
        BY <1>0, <1>1, <2>1, <2>4, <3>1
        DEF PoolTypes, Progress, InOrder
    <3> QED
        BY <2>5, <3>2, <3>3 DEF IInv
  <2>7. CASE k # Last(Taken(r))
    <3> DEFINE n == Successor(Taken(r), k)
    <3>1. InOrder(r, n) /\ NotYet(n) = NotYet(k) \ {k}
        BY <1>1, <2>7, NextTaken
    <3>2. /\ stage' = [stage EXCEPT ![c] = "lock"]
          /\ kind' = [kind EXCEPT ![c] = n]
        BY <2>1, <2>7 DEF GoTo
    <3> HIDE DEF n
    <3>3. PoolTypes'
        BY <1>0, <1>1, <2>1, <2>3, <3>1, <3>2 DEF PoolTypes, InOrder
    <3>4. Progress(c)'
        BY <1>0, <1>1, <2>1, <2>4, <3>1, <3>2 DEF PoolTypes, Progress, InOrder
    <3>5. ASSUME NEW d \in Clients, d # c PROVE Progress(d)'
        BY <1>0, <1>1, <2>1, <3>2, <3>5 DEF PoolTypes, Progress
    <3> QED
        BY <2>5, <3>3, <3>4, <3>5 DEF IInv
  <2> QED
    BY <2>6, <2>7
<1>4. CASE ~Enough(count)
  <2>1. /\ stage' = [stage EXCEPT ![c] = "unlock"]
        /\ kind' = [kind EXCEPT ![c] = "timestamps"]
        /\ UNCHANGED <<pool, held, request>>
    BY <1>1, <1>4 DEF lock_buffers, Refuse, Release, GoTo
  <2> HIDE DEF count, k, r
  <2>2. PoolTypes'
    BY <1>0, <2>1 DEF PoolTypes, pool, Kinds, Delayed
  <2>3. Whole'
    BY <1>0, <2>1 DEF Whole, pool
  <2>4. \A d \in Clients : Progress(d)'
    BY <1>0, <2>1 DEF PoolTypes, Progress, Done
  <2> QED
    BY <2>2, <2>3, <2>4 DEF IInv
<1> QED
    BY <1>3, <1>4

LEMMA UnlockStep ==
    ASSUME IInv, NEW c \in Clients, unlock_buffers(c) PROVE IInv'
<1> DEFINE k == kind[c]
           r == request[c]
           p == <<>>
<1>0. PoolTypes /\ Whole /\ \A d \in Clients : Progress(d)
    BY DEF IInv
<1>1. /\ k \in Kinds /\ stage[c] = "unlock"
      /\ r \in [ids : Nat, samples : Nat, offset : Nat,
                 at_end : BOOLEAN, send_id0 : BOOLEAN]
      /\ k = "id0s" => r.send_id0
      /\ \A l \in Done(k) : held[c][l] = <<>>
      /\ ~r.send_id0 => held[c]["id0s"] = <<>>
    BY <1>0 DEF PoolTypes, Progress, unlock_buffers
<1> DEFINE t == held[c][k]
           s == buffer_pool
           j == Reverse(t) \o s
<1>2. /\ buffer_pool' = j
      /\ pool_size' = pool_size + Len(t)
      /\ held' = [held EXCEPT ![c][k] = p]
      /\ IF k = Last(GivenBack(r))
         THEN /\ GoTo(c, "idle", "read")
              /\ request' = [request EXCEPT ![c] = NoRequest]
         ELSE /\ GoTo(c, "unlock", Successor(GivenBack(r), k))
              /\ UNCHANGED request
    BY DEF unlock_buffers, SizeAfterUnlock
<1>3. /\ s \in Seq(Buffers) /\ IsInjective(s) /\ pool_size = Len(s)
      /\ t \in Seq(Buffers) /\ IsInjective(t)
      /\ ToSet(s) \cap ToSet(t) = {}
    BY <1>0, <1>1 DEF PoolTypes, Whole
<1>4. /\ p \in Seq(Buffers) /\ IsInjective(p) /\ ToSet(p) = {}
    BY NoneTaken
<1>5. \A l \in Kinds : l # k => held'[c][l] = held[c][l]
    BY <1>0, <1>1, <1>2 DEF PoolTypes
<1>6. held'[c][k] = <<>>
    BY <1>0, <1>1, <1>2 DEF PoolTypes
<1> HIDE DEF s, t, p
<1>7. /\ j \in Seq(Buffers) /\ Len(j) = Len(s) + Len(t)
      /\ IsInjective(j)
      /\ ToSet(j) = ToSet(s) \cup ToSet(t)
  <2>1. LET q == Reverse(t) \o s
        IN /\ q \in Seq(Buffers) /\ Len(q) = Len(s) + Len(t)
           /\ IsInjective(q)
           /\ ToSet(q) = ToSet(s) \cup ToSet(t)
    <3>1. s \in Seq(Buffers) /\ t \in Seq(Buffers)
        BY <1>3
    <3>2. IsInjective(s) /\ IsInjective(t)
        BY <1>3
    <3>3. ToSet(s) \cap ToSet(t) = {}
        BY <1>3
    <3> HIDE DEF j, k, r
    <3> QED
        BY <3>1, <3>2, <3>3, PoolJoins, ZenonT(90)
  <2> QED
    BY <2>1
<1> HIDE DEF j
<1>8. Whole'
    BY <1>0, <1>1, <1>2, <1>3, <1>4, <1>7, Exchange DEF s, t
<1>9. held' \in [Clients -> [Kinds -> Seq(Buffers)]]
    BY <1>0, <1>1, <1>2, <1>4 DEF PoolTypes
<1>10. CASE k = Last(GivenBack(r))
  <2>1. k = "read"
    BY <1>1, <1>10, LastGivenBack
  <2>2. /\ stage' = [stage EXCEPT ![c] = "idle"]
        /\ kind' = [kind EXCEPT ![c] = "read"]
        /\ request' = [request EXCEPT ![c] = NoRequest]
    BY <1>2, <1>10 DEF GoTo
  <2>3. PoolTypes'
    BY <1>0, <1>2, <1>7, <1>9, <2>2 DEF PoolTypes, Kinds, NoRequest
  <2>4. \A l \in Kinds : held'[c][l] = <<>>
    BY <1>1, <1>5, <1>6, <2>1 DEF Done, Kinds
  <2>5. Progress(c)'
    BY <1>0, <2>2, <2>4 DEF PoolTypes, Progress, Kinds, Delayed
  <2>6. ASSUME NEW d \in Clients, d # c PROVE Progress(d)'
    BY <1>0, <1>1, <1>2, <2>2, <2>6 DEF PoolTypes, Progress
  <2> QED
    BY <1>8, <2>3, <2>5, <2>6 DEF IInv
<1>11. CASE k # Last(GivenBack(r))
  <2> DEFINE n == Successor(GivenBack(r), k)
  <2>1. /\ n \in Kinds
        /\ n = "id0s" => r.send_id0
        /\ Done(n) \subseteq Done(k) \cup {k} \cup {"id0s"}
        /\ r.send_id0 => Done(n) = Done(k) \cup {k}
    BY <1>1, <1>11, NextGivenBack
  <2>2. /\ stage' = [stage EXCEPT ![c] = "unlock"]
        /\ kind' = [kind EXCEPT ![c] = n]
        /\ UNCHANGED request
    BY <1>2, <1>11 DEF GoTo
  <2> HIDE DEF n
  <2>3. PoolTypes'
    BY <1>0, <1>2, <1>7, <1>9, <2>1, <2>2 DEF PoolTypes
  <2>4. ~r.send_id0 => held'[c]["id0s"] = <<>>
    BY <1>1, <1>5, <1>6 DEF Kinds, Delayed
  <2>5. \A l \in Done(n) : held'[c][l] = <<>>
    <3>1. Done(n) \subseteq Kinds
        BY <2>1 DEF Done, Kinds, Delayed
    <3> QED
        BY <1>1, <1>5, <1>6, <2>1, <2>4, <3>1
  <2>6. Progress(c)'
    BY <1>0, <2>1, <2>2, <2>4, <2>5 DEF PoolTypes, Progress
  <2>7. ASSUME NEW d \in Clients, d # c PROVE Progress(d)'
    BY <1>0, <1>1, <1>2, <2>2, <2>7 DEF PoolTypes, Progress
  <2> QED
    BY <1>8, <2>3, <2>6, <2>7 DEF IInv
<1> QED
    BY <1>10, <1>11

\* The other steps leave the pool and what is held alone.
LEMMA OtherSteps ==
    ASSUME IInv, NEW c \in Clients,
           \/ \E r \in Requests : Request(c, r)
           \/ OpenArchive(c) \/ TransferBlock(c) \/ TransferEnds(c)
    PROVE  IInv'
<1>0. PoolTypes /\ Whole /\ \A d \in Clients : Progress(d)
    BY DEF IInv
<1>1. UNCHANGED <<pool, held>>
    BY DEF Request, OpenArchive, TransferBlock, TransferEnds
<1>2. Whole'
    BY <1>0, <1>1 DEF Whole, pool
<1>3. CASE \E r \in Requests : Request(c, r)
  <2>1. PICK r \in Requests : Request(c, r)
    BY <1>3
  <2>2. r \in [ids : Nat, samples : Nat, offset : Nat,
               at_end : BOOLEAN, send_id0 : BOOLEAN]
    <3>1. Ids \subseteq Nat /\ 1 .. MaxSamples \subseteq Nat
          /\ 0 .. SamplesPerBlock - 1 \subseteq Nat
        BY PoolAssumption
    <3> QED
        BY <3>1 DEF Requests
  <2>3. /\ stage[c] = "idle"
        /\ stage' = [stage EXCEPT ![c] = "lock"]
        /\ kind' = [kind EXCEPT ![c] = "read"]
        /\ request' = [request EXCEPT ![c] = r]
    BY <2>1 DEF Request, GoTo
  <2>4. PoolTypes'
    BY <1>0, <1>1, <2>2, <2>3 DEF PoolTypes, pool, Kinds
  <2>5. \A d \in Clients : Progress(d)'
    BY <1>0, <1>1, <2>3
    DEF PoolTypes, Progress, InOrder, NotYet, Kinds, Delayed
  <2> QED
    BY <1>2, <2>4, <2>5 DEF IInv
<1>4. CASE OpenArchive(c) \/ TransferBlock(c) \/ TransferEnds(c)
  <2>1. /\ stage[c] \in {"open", "transfer"}
        /\ \/ UNCHANGED <<stage, kind>>
           \/ \E s \in {"transfer", "aborted"} :
                stage' = [stage EXCEPT ![c] = s]
                /\ kind' = [kind EXCEPT ![c] = "read"]
           \/ /\ stage' = [stage EXCEPT ![c] = "unlock"]
              /\ kind' = [kind EXCEPT ![c] = "timestamps"]
    BY <1>4 DEF OpenArchive, TransferBlock, TransferEnds, Release, GoTo
  <2> DEFINE Kept ==
        /\ request' \in [Clients -> [ids : Nat, samples : Nat, offset : Nat,
                                     at_end : BOOLEAN, send_id0 : BOOLEAN]]
        /\ \A d \in Clients : request'[d].send_id0 = request[d].send_id0
        /\ \A d \in Clients \ {c} : request'[d] = request[d]
  <2>2. Kept
    <3>1. CASE UNCHANGED request
        BY <1>0, <3>1 DEF PoolTypes
    <3>2. ASSUME NEW count,
                 count = IF request[c].samples
                            < SamplesPerBlock - request[c].offset
                         THEN request[c].samples
                         ELSE SamplesPerBlock - request[c].offset,
                 request' = [request EXCEPT ![c].samples = @ - count,
                                            ![c].offset = 0]
          PROVE  Kept
      <4>1. request[c] \in [ids : Nat, samples : Nat, offset : Nat,
                            at_end : BOOLEAN, send_id0 : BOOLEAN]
        BY <1>0 DEF PoolTypes
      <4>2. request[c].samples - count \in Nat
        BY <3>2, <4>1, PoolAssumption
      <4> QED
        BY <1>0, <3>2, <4>1, <4>2 DEF PoolTypes
    <3> HIDE DEF Kept
    <3>3. CASE OpenArchive(c) \/ TransferEnds(c)
        BY <3>1, <3>3 DEF OpenArchive, TransferEnds
    <3>4. CASE TransferBlock(c)
        BY <3>1, <3>2, <3>4 DEF TransferBlock
    <3> QED
        BY <1>4, <3>3, <3>4
  <2>3. PoolTypes'
    BY <1>0, <1>1, <2>1, <2>2 DEF PoolTypes, pool, Kinds, Delayed
  <2>4. ASSUME NEW d \in Clients, d # c PROVE Progress(d)'
    <3>1. /\ stage'[d] = stage[d] /\ kind'[d] = kind[d]
          /\ request'[d] = request[d] /\ UNCHANGED held
        BY <1>0, <1>1, <2>1, <2>2, <2>4 DEF PoolTypes
    <3> QED
        BY <1>0, <3>1 DEF Progress
  <2>5. Progress(c)'
    <3>1. stage'[c] \notin {"idle", "lock"}
        BY <1>0, <2>1 DEF PoolTypes
    <3>2. stage'[c] = "unlock" => kind'[c] = "timestamps"
        BY <1>0, <2>1 DEF PoolTypes
    <3> QED
        BY <1>0, <1>1, <2>2, <3>1, <3>2 DEF Progress, Done
  <2> QED
    BY <1>2, <2>3, <2>4, <2>5 DEF IInv
<1> QED
    BY <1>3, <1>4

LEMMA InvNext == IInv /\ [Next]_vars => IInv'
<1> SUFFICES ASSUME IInv, [Next]_vars PROVE IInv'
    OBVIOUS
<1>1. CASE UNCHANGED vars
  <2>1. UNCHANGED <<buffer_pool, pool_size, stage, kind, request, held>>
    BY <1>1 DEF vars, pool
  <2>2. PoolTypes'
    BY <2>1 DEF IInv, PoolTypes
  <2>a. Whole'
    <3>1. Whole /\ UNCHANGED <<pool, held>>
        BY <2>1 DEF IInv, pool
    <3> QED
        BY <3>1 DEF Whole, pool
  <2>3. \A c \in Clients : Progress(c)'
    BY <2>1 DEF IInv, Progress, InOrder
  <2> QED
    BY <2>2, <2>3, <2>a DEF IInv
<1>2. ASSUME NEW c \in Clients, Client(c) PROVE IInv'
    BY <1>2, LockStep, UnlockStep, OtherSteps DEF Client, Serve
<1> QED
    BY <1>1, <1>2 DEF Next

\* The inductive invariant: each list of buffers is disjoint from every other,
\* and a request takes and gives back its buffers in order.
THEOREM Invariance == Spec => []IInv
    BY InvInit, InvNext, PTL DEF Spec

\* However many requests are half way through taking or releasing their
\* buffers, each buffer is free or held once, and pool_size counts the free ones.
THEOREM PoolStaysWhole == Spec => []PoolIsWhole
<1>1. IInv => PoolIsWhole
    BY WholePool DEF IInv
<1> QED
    BY <1>1, Invariance, PTL

\* A request that is over, refused, failed or served, has given back everything.
THEOREM NothingIsLeaked == Spec => []NothingLeaked
<1>1. IInv => NothingLeaked
  <2> SUFFICES ASSUME IInv, NEW c \in Clients, stage[c] = "idle"
               PROVE  held[c] = NoBuffers
    BY DEF NothingLeaked
  <2>1. held[c] \in [Kinds -> Seq(Buffers)] /\ \A k \in Kinds : held[c][k] = <<>>
    BY DEF IInv, PoolTypes, Progress
  <2> QED
    BY <2>1 DEF NoBuffers
<1> QED
    BY <1>1, Invariance, PTL

-----------------------------------------------------------------------------
(* The estimate of allocate_timestamp_buffer. *)

ARequest == [ids : Nat, samples : Nat, offset : Nat,
             at_end : BOOLEAN, send_id0 : BOOLEAN]

LEMMA Sizes ==
    /\ SamplesPerBlock \in Nat /\ SamplesPerBlock > 0
    /\ pooled_buffer_size \in Nat /\ pooled_buffer_size >= 2
    /\ pooled_buffer_size \div 2 \in Nat
    /\ pooled_buffer_size = 2 * (pooled_buffer_size \div 2)
    /\ pooled_buffer_size \div 1 = pooled_buffer_size
    BY PoolAssumption DEF pooled_buffer_size

LEMMA DivBound ==
    ASSUME NEW x \in Nat, NEW b \in Nat, b > 0
    PROVE  /\ x \div b \in Nat
           /\ (x \div b) * b <= x
           /\ x < (x \div b) * b + b
    OBVIOUS

\* One timestamp for every block that a request reads from.
LEMMA BlocksEstimated ==
    ASSUME NEW r \in ARequest, r.offset < SamplesPerBlock
    PROVE  /\ Timestamps(r) \in Nat /\ Timestamps(r) >= 2
           /\ Timestamps(r) * SamplesPerBlock >= r.offset + r.samples
<1> DEFINE q == r.samples \div SamplesPerBlock
           b == SamplesPerBlock
<1>1. r.samples \in Nat /\ r.offset \in Nat /\ b \in Nat /\ b > 0
    BY Sizes DEF ARequest
<1>2. q \in Nat /\ r.samples < q * b + b
    BY <1>1, DivBound
<1>3. Timestamps(r) = 2 + q
    BY DEF Timestamps
<1>4. r.offset < b
    OBVIOUS
<1> HIDE DEF q, b
<1>5. (2 + q) * b = b + b + q * b /\ q * b \in Nat
    BY <1>1, <1>2
<1>6. Timestamps(r) * b >= r.offset + r.samples
    BY <1>1, <1>2, <1>3, <1>4, <1>5
<1> QED
    BY <1>2, <1>3, <1>6 DEF b

\* As many buffers as hold them.
LEMMA RoomEstimated ==
    ASSUME NEW r \in ARequest, r.offset < SamplesPerBlock, NEW k \in Delayed
    PROVE  /\ Wanted(r, k) \in Nat /\ Wanted(r, k) >= 1
           /\ Wanted(r, k) * pooled_buffer_size >= ItemSize(k) * Timestamps(r)
<1> DEFINE t == Timestamps(r)
           n == Wanted(r, k)
<1>1. t \in Nat /\ t >= 2
    BY BlocksEstimated
<1> HIDE DEF t
<1>2. ASSUME NEW b \in Nat, b > 0, n = RoundUp(t, b)
      PROVE  n \in Nat /\ n >= 1 /\ n * b >= t
  <2>1. t + b - 1 \in Nat /\ n = (t + b - 1) \div b
    BY <1>1, <1>2 DEF RoundUp
  <2> HIDE DEF n
  <2>2. n \in Nat /\ t + b - 1 < n * b + b
    BY <1>2, <2>1, DivBound
  <2>3. n * b >= t
    BY <1>1, <1>2, <2>2
  <2>4. n # 0
    <3>1. n = 0 => n * b = 0
        BY <1>2
    <3> QED
        BY <1>1, <2>3, <3>1
  <2> QED
    BY <2>2, <2>3, <2>4
<1>3. CASE k = "timestamps"
  <2> DEFINE b == pooled_buffer_size \div 2
  <2>1. n = RoundUp(t, b) /\ b \in Nat /\ b > 0 /\ pooled_buffer_size = 2 * b
    BY <1>3, Sizes DEF Wanted, t
  <2> HIDE DEF b
  <2>2. n \in Nat /\ n >= 1 /\ n * b >= t
    BY <1>2, <2>1
  <2>3. n * (2 * b) = 2 * (n * b)
    BY <2>1, <2>2
  <2>4. n * b \in Nat
    BY <2>1, <2>2
  <2> HIDE DEF n
  <2>5. n * pooled_buffer_size >= 2 * t
    BY <1>1, <2>1, <2>2, <2>3, <2>4
  <2> QED
    BY <1>3, <2>2, <2>5 DEF n, t, ItemSize
<1>4. CASE k # "timestamps"
  <2>1. n = RoundUp(t, pooled_buffer_size)
    BY <1>4, Sizes DEF Wanted, t, Delayed
  <2>2. n \in Nat /\ n >= 1 /\ n * pooled_buffer_size >= t
    BY <1>2, <2>1, Sizes
  <2> QED
    BY <1>1, <1>4, <2>2 DEF t, ItemSize
<1> QED
    BY <1>3, <1>4

-----------------------------------------------------------------------------
(* Filling delayed buffers. *)

AWriteBuffer == [current_buffer : Nat, out_pointers : Seq(Nat)]

\* What is left, of this buffer and those after it.
Room(w) ==
    (Len(w.out_pointers) - w.current_buffer) * pooled_buffer_size
        + pooled_buffer_size - w.out_pointers[w.current_buffer]

WellFilled(w, k) ==
    /\ w.current_buffer \in 1 .. Len(w.out_pointers)
    /\ w.out_pointers[w.current_buffer] <= pooled_buffer_size
    /\ \E j \in Nat : w.out_pointers[w.current_buffer] = ItemSize(k) * j
    /\ \A i \in 1 .. Len(w.out_pointers) :
        i > w.current_buffer => w.out_pointers[i] = 0

\* There is room for as many items as there are blocks still to be read.
Covers(w, k, r) ==
    \E left \in Nat :
        /\ left * SamplesPerBlock >= r.offset + r.samples
        /\ Room(w) >= ItemSize(k) * left

Busy(c) == stage[c] \in {"lock", "open", "transfer"}

DelayedOf(c) ==
    /\ stage[c] # "aborted"
    /\ Busy(c) => request[c].offset < SamplesPerBlock
    /\ \A k \in Delayed :
        /\ stage[c] = "idle" => written[c][k].current_buffer = 1
        /\ stage[c] = "lock" /\ held[c][k] = <<>> =>
                written[c][k].current_buffer = 1
        /\ Busy(c) /\ held[c][k] # <<>> =>
                /\ WellFilled(written[c][k], k)
                /\ Covers(written[c][k], k, request[c])

\* The inductive invariant, next to IInv.
DelayedInv ==
    /\ written \in [Clients -> [Delayed -> AWriteBuffer]]
    /\ \A c \in Clients : DelayedOf(c)

LEMMA ItemSizes == \A k \in Delayed : ItemSize(k) \in {1, 2}
    BY DEF ItemSize

LEMMA Unwritten ==
    ASSUME NEW w \in AWriteBuffer, NEW n \in Nat, n >= 1,
           w.current_buffer = 1, w.out_pointers = [i \in 1 .. n |-> 0],
           NEW k \in Delayed, NEW r,
           NEW left \in Nat, left * SamplesPerBlock >= r.offset + r.samples,
           n * pooled_buffer_size >= ItemSize(k) * left
    PROVE  WellFilled(w, k) /\ Covers(w, k, r)
<1>1. Len(w.out_pointers) = n /\ w.out_pointers[1] = 0 /\ 1 \in 1 .. n
    BY LenProperties DEF AWriteBuffer
<1>2. ItemSize(k) * 0 = 0
    BY ItemSizes
<1>3. WellFilled(w, k)
    BY <1>1, <1>2, Sizes DEF WellFilled
<1>4. Room(w) = n * pooled_buffer_size
  <2>1. (n - 1) * pooled_buffer_size = n * pooled_buffer_size - pooled_buffer_size
        /\ n * pooled_buffer_size \in Nat
    BY Sizes
  <2> QED
    BY <1>1, <2>1, Sizes DEF Room
<1> QED
    BY <1>3, <1>4 DEF Covers

\* As long as a sample is still to come there is room for its timestamp, and
\* afterwards for those of the blocks after it.
LEMMA WriteFits ==
    ASSUME NEW w \in AWriteBuffer, NEW k \in Delayed, NEW r \in ARequest,
           WellFilled(w, k), Covers(w, k, r), r.samples > 0,
           NEW s \in ARequest, s.offset = 0,
           \/ s.samples = 0
           \/ s.samples = r.samples - (SamplesPerBlock - r.offset)
    PROVE  /\ ~Full(w, ItemSize(k))
           /\ write_buffer(w, ItemSize(k)) \in AWriteBuffer
           /\ WellFilled(write_buffer(w, ItemSize(k)), k)
           /\ Covers(write_buffer(w, ItemSize(k)), k, s)
<1> DEFINE p == pooled_buffer_size
           n == Len(w.out_pointers)
           c == w.current_buffer
           o == w.out_pointers[c]
           m == ItemSize(k)
           v == write_buffer(w, m)
<1>0. /\ w.out_pointers \in Seq(Nat) /\ DOMAIN w.out_pointers = 1 .. n
      /\ r.samples \in Nat /\ r.offset \in Nat /\ s.samples \in Nat
    BY LenProperties DEF AWriteBuffer, ARequest
<1>1. /\ n \in Nat /\ c \in 1 .. n /\ o \in Nat /\ o <= p
      /\ p \in Nat /\ p >= 2 /\ m \in {1, 2}
    BY <1>0, Sizes, ItemSizes, LenProperties, ElementOfSeq DEF WellFilled
<1>2. PICK left \in Nat :
        /\ left * SamplesPerBlock >= r.offset + r.samples
        /\ Room(w) >= m * left
    BY DEF Covers
<1>3. PICK j \in Nat : o = m * j
    BY DEF WellFilled
<1>6. /\ Room(w) = (n - c) * p + p - o
      /\ (n - c) * p \in Nat
    BY <1>1 DEF Room
<1>g. Full(w, m) <=> o + m > p /\ c = n
    BY DEF Full
<1>h. \A i \in 1 .. n : i > c => w.out_pointers[i] = 0
    BY DEF WellFilled
<1>i. w.out_pointers[c] = o
    OBVIOUS
<1> DEFINE a == SamplesPerBlock
           before == r.offset + r.samples
           after == s.offset + s.samples
<1>j. /\ a \in Nat /\ before \in Nat /\ before > 0 /\ after \in Nat
      /\ after = 0 \/ after = before - a
    BY <1>0, Sizes
<1>k. left * a >= before
    BY <1>2
<1>l. m = 2 => \E h \in Nat : p = 2 * h
    BY Sizes
<1> HIDE DEF p, n, c, o, m, a, before, after
<1>4. left >= 1
  <2>1. left = 0 => left * a = 0
    BY <1>j
  <2> QED
    BY <1>j, <1>k, <2>1
<1>5. /\ left - 1 \in Nat
      /\ (left - 1) * a >= after
  <2>1. (left - 1) * a = left * a - a /\ (left - 1) * a \in Nat
        /\ left * a \in Nat
    BY <1>4, <1>j
  <2> QED
    BY <1>4, <1>j, <1>k, <2>1
<1>m. m * left >= m /\ m * (left - 1) = m * left - m /\ m * left \in Nat
    BY <1>1, <1>4
<1> DEFINE b == IF o + m > p THEN c + 1 ELSE c
<1>7. ~Full(w, m)
  <2>1. n - c = 0 => (n - c) * p = 0
    BY <1>1
  <2> QED
    BY <1>1, <1>2, <1>6, <1>g, <1>m, <2>1
<1>8. v = [current_buffer |-> b,
           out_pointers |-> [w.out_pointers EXCEPT ![b] = @ + m]]
    BY DEF write_buffer, p, o, c, m
<1>9. /\ b \in 1 .. n
      /\ w.out_pointers[b] \in Nat
      /\ w.out_pointers[b] + m <= p
      /\ \E i \in Nat : w.out_pointers[b] + m = m * i
      /\ (n - b) * p + p - w.out_pointers[b] = Room(w)
  <2>1. CASE o + m > p
    <3>1. c < n /\ b = c + 1 /\ b \in 1 .. n /\ w.out_pointers[b] = 0
        BY <1>1, <1>7, <1>g, <1>h, <2>1
    <3>2. o = p
      <4>1. CASE m = 1
        BY <1>1, <2>1, <4>1
      <4>2. CASE m = 2
        BY <1>1, <1>3, <1>l, <2>1, <4>2
      <4> QED
        BY <1>1, <4>1, <4>2
    <3>3. (n - b) * p + p = (n - c) * p
        BY <1>1, <3>1
    <3>4. m = m * 1 /\ 0 + m <= p
        BY <1>1
    <3>5. (n - b) * p + p - 0 = Room(w)
        BY <1>1, <1>6, <3>1, <3>2, <3>3
    <3>6. \E i \in Nat : 0 + m = m * i
        BY <1>1, <3>4
    <3> QED
        BY <3>1, <3>4, <3>5, <3>6
  <2>2. CASE ~(o + m > p)
    <3>1. m * (j + 1) = o + m /\ j + 1 \in Nat
        BY <1>1, <1>3
    <3>2. b = c /\ w.out_pointers[b] = o
        BY <1>i, <2>2
    <3> HIDE DEF b
    <3>3. o + m <= p
        BY <1>1, <2>2
    <3> QED
        BY <1>1, <1>6, <3>1, <3>2, <3>3
  <2> QED
    BY <2>1, <2>2
<1> HIDE DEF b, v
<1>a. /\ v.current_buffer = b
      /\ v.out_pointers = [w.out_pointers EXCEPT ![b] = @ + m]
    BY <1>8
<1>b. /\ v.out_pointers \in Seq(Nat) /\ Len(v.out_pointers) = n
      /\ v.out_pointers[b] = w.out_pointers[b] + m
      /\ \A i \in 1 .. n : i # b => v.out_pointers[i] = w.out_pointers[i]
  <2> DEFINE q == w.out_pointers
             e == q[b] + m
             u == [q EXCEPT ![b] = e]
  <2>a. w.out_pointers[b] \in Nat /\ m \in Nat
    BY <1>1, <1>9
  <2>1. q \in Seq(Nat) /\ b \in 1 .. Len(q) /\ e \in Nat
    BY <1>0, <1>9, <2>a DEF n
  <2>2. v.out_pointers = u
    BY <1>a
  <2> HIDE DEF q, e
  <2>3. /\ u \in Seq(Nat) /\ Len(u) = Len(q)
        /\ \A i \in 1 .. Len(q) : u[i] = IF i = b THEN e ELSE q[i]
    BY <2>1, ExceptSeq
  <2> HIDE DEF u
  <2> QED
    BY <2>1, <2>2, <2>3 DEF q, e, n
<1>c. v \in AWriteBuffer
    BY <1>1, <1>8, <1>9, <1>b, <1>a DEF AWriteBuffer
<1>d. WellFilled(v, k)
  <2>1. \A i \in 1 .. n : i > b => v.out_pointers[i] = 0
    <3>1. b >= c
        BY <1>1 DEF b
    <3>2. ASSUME NEW i \in 1 .. n, i > b PROVE i > c /\ i # b
        BY <1>1, <1>9, <3>1, <3>2
    <3> QED
        BY <1>b, <1>h, <3>2
  <2> QED
    BY <1>9, <1>a, <1>b, <2>1 DEF WellFilled, p, m
<1>e. Room(v) = Room(w) - m
  <2>1. Room(v) = (n - b) * p + p - (w.out_pointers[b] + m)
    BY <1>a, <1>b DEF Room, p
  <2>2. (n - b) * p \in Nat
    <3>1. n - b \in Nat
        BY <1>1, <1>9
    <3> QED
        BY <1>1, <3>1
  <2> QED
    BY <1>1, <1>9, <2>1, <2>2
<1>f. Covers(v, k, s)
  <2>1. Room(w) \in Int
    BY <1>1, <1>6
  <2>2. Room(v) >= m * (left - 1)
    BY <1>1, <1>2, <1>m, <1>e, <2>1
  <2> QED
    BY <1>5, <2>2 DEF Covers, m, a, after
<1> QED
    BY <1>7, <1>c, <1>d, <1>f DEF v, m

-----------------------------------------------------------------------------
(* The steps of a request. *)

LEMMA DelayedInit == Init => DelayedInv
<1> SUFFICES ASSUME Init PROVE DelayedInv
    OBVIOUS
<1>1. NothingWritten \in [Delayed -> AWriteBuffer]
    BY EmptySeq DEF NothingWritten, AWriteBuffer
<1>2. \A k \in Delayed : NothingWritten[k].current_buffer = 1
    BY DEF NothingWritten
<1> QED
    BY <1>1, <1>2 DEF Init, DelayedInv, DelayedOf, Busy

\* A client that the step was not about.
LEMMA DelayedElsewhere ==
    ASSUME DelayedInv, NEW d \in Clients,
           stage'[d] = stage[d], held'[d] = held[d],
           written'[d] = written[d], request'[d] = request[d]
    PROVE  DelayedOf(d)'
<1>1. Busy(d)' = Busy(d)
    BY DEF Busy
<1> QED
    BY <1>1 DEF DelayedInv, DelayedOf, Covers

LEMMA DelayedLock ==
    ASSUME IInv, DelayedInv, NEW c \in Clients, lock_buffers(c)
    PROVE  DelayedInv'
<1> DEFINE k == kind[c]
           r == request[c]
           count == Wanted(r, k)
<1>0. PoolTypes /\ Whole /\ Progress(c)
    BY DEF IInv
<1>1. /\ k \in Kinds /\ stage[c] = "lock" /\ UNCHANGED request
      /\ r \in ARequest /\ r.offset < SamplesPerBlock
      /\ held[c][k] = <<>>
  <2>1. k \in Kinds /\ stage[c] = "lock" /\ UNCHANGED request /\ r \in ARequest
    BY <1>0 DEF PoolTypes, lock_buffers, ARequest
  <2>2. InOrder(r, k) /\ \A l \in NotYet(k) : held[c][l] = <<>>
    BY <1>0, <2>1 DEF Progress
  <2>3. k \in NotYet(k)
    BY <2>2 DEF NotYet, InOrder, Kinds, Delayed
  <2>4. r.offset < SamplesPerBlock
    BY <2>1 DEF DelayedInv, DelayedOf, Busy
  <2> QED
    BY <2>1, <2>2, <2>3, <2>4
<1>2. CASE Enough(count)
  <2> DEFINE p == SubSeq(buffer_pool, 1, count)
             zeros == [i \in 1 .. count |-> 0]
  <2>1. /\ held' = [held EXCEPT ![c][k] = p]
        /\ written' = IF k \in Delayed
                      THEN [written EXCEPT ![c][k].out_pointers = zeros]
                      ELSE written
        /\ \E s \in {"open", "lock"} : stage' = [stage EXCEPT ![c] = s]
    BY <1>1, <1>2 DEF lock_buffers, GoTo
  <2>2. k \in Delayed => count \in Nat /\ count >= 1
    BY <1>1, RoomEstimated
  <2> HIDE DEF p
  <2>3. /\ held'[c][k] = p
        /\ \A l \in Kinds : l # k => held'[c][l] = held[c][l]
        /\ \A d \in Clients : d # c => held'[d] = held[d] /\ stage'[d] = stage[d]
        /\ stage'[c] \in {"open", "lock"}
    BY <1>0, <1>1, <2>1 DEF PoolTypes
  <2>4. \A d \in Clients : d # c => written'[d] = written[d]
    BY <2>1 DEF DelayedInv
  <2>5. \A l \in Delayed : l # k => written'[c][l] = written[c][l]
    BY <2>1 DEF DelayedInv
  <2>6. ASSUME k \in Delayed
        PROVE  /\ written' \in [Clients -> [Delayed -> AWriteBuffer]]
               /\ written'[c][k].out_pointers = zeros
               /\ written'[c][k].current_buffer = written[c][k].current_buffer
    <3>1. zeros \in Seq(Nat)
      <4>1. zeros \in [1 .. count -> Nat]
        OBVIOUS
      <4> QED
        BY <2>2, <2>6, <4>1, SeqDef
    <3> HIDE DEF zeros, count
    <3> DEFINE x == [written[c][k] EXCEPT !.out_pointers = zeros]
    <3>2. written[c][k] \in AWriteBuffer
        BY <2>6 DEF DelayedInv
    <3>3. /\ x \in AWriteBuffer /\ x.out_pointers = zeros
          /\ x.current_buffer = written[c][k].current_buffer
        BY <3>1, <3>2 DEF AWriteBuffer
    <3>4. written' = [written EXCEPT ![c][k] = x]
        BY <2>1, <2>6 DEF DelayedInv
    <3> HIDE DEF x
    <3>5. written'[c][k] = x
        BY <2>6, <3>4 DEF DelayedInv
    <3>6. written' \in [Clients -> [Delayed -> AWriteBuffer]]
        BY <2>6, <3>3, <3>4 DEF DelayedInv
    <3> QED
        BY <3>3, <3>5, <3>6
  <2>7. written' \in [Clients -> [Delayed -> AWriteBuffer]]
    <3>1. CASE k \in Delayed
        BY <2>6, <3>1
    <3>2. CASE k \notin Delayed
        BY <2>1, <3>2 DEF DelayedInv
    <3> QED
        BY <3>1, <3>2
  <2>8. ASSUME NEW l \in Delayed, l # k
        PROVE  /\ stage'[c] = "lock" /\ held'[c][l] = <<>> =>
                    written'[c][l].current_buffer = 1
               /\ held'[c][l] # <<>> =>
                    WellFilled(written'[c][l], l) /\ Covers(written'[c][l], l, r)
    <3>1. held'[c][l] = held[c][l] /\ written'[c][l] = written[c][l]
        BY <2>3, <2>5, <2>8 DEF Kinds
    <3> QED
        BY <1>1, <3>1 DEF DelayedInv, DelayedOf, Busy
  <2>9. ASSUME k \in Delayed
        PROVE  /\ held'[c][k] # <<>>
               /\ WellFilled(written'[c][k], k) /\ Covers(written'[c][k], k, r)
    <3>1. written'[c][k].current_buffer = 1
        BY <1>1, <2>6, <2>9 DEF DelayedInv, DelayedOf
    <3>2. held'[c][k] # <<>>
      <4>1. count \in 0 .. Len(buffer_pool) /\ Len(buffer_pool) \in Nat
            /\ buffer_pool \in Seq(Buffers)
        BY <1>0, <1>2, <2>2, <2>9, LenProperties DEF PoolTypes, Whole, Enough
      <4>2. Len(p) = count
        BY <4>1, SubSeqProperties DEF p
      <4>3. Len(<<>>) = 0
        BY EmptySeq
      <4> QED
        BY <2>2, <2>3, <2>9, <4>2, <4>3
    <3>3. /\ Timestamps(r) \in Nat
          /\ Timestamps(r) * SamplesPerBlock >= r.offset + r.samples
        BY <1>1, BlocksEstimated
    <3>4. count * pooled_buffer_size >= ItemSize(k) * Timestamps(r)
        BY <1>1, <2>9, RoomEstimated
    <3>5. written'[c][k] \in AWriteBuffer
          /\ written'[c][k].out_pointers = zeros
        BY <2>6, <2>9
    <3> HIDE DEF k, r
    <3>6. count \in Nat /\ count >= 1 /\ k \in Delayed
        BY <2>2, <2>9
    <3> HIDE DEF count
    <3> QED
        BY <3>1, <3>2, <3>3, <3>4, <3>5, <3>6, Unwritten
  <2>10. DelayedOf(c)'
    <3>1. request'[c] = r
        BY <1>1
    <3>2. ASSUME NEW l \in Delayed
          PROVE  /\ stage'[c] = "lock" /\ held'[c][l] = <<>> =>
                        written'[c][l].current_buffer = 1
                 /\ held'[c][l] # <<>> =>
                        /\ WellFilled(written'[c][l], l)
                        /\ Covers(written'[c][l], l, r)
        BY <2>8, <2>9
    <3> HIDE DEF r, k, count, zeros
    <3> QED
        BY <1>1, <2>3, <3>1, <3>2
        DEF DelayedOf, Busy, WellFilled, Covers, Room, ItemSize
  <2>11. ASSUME NEW d \in Clients, d # c PROVE DelayedOf(d)'
    BY <1>1, <2>3, <2>4, <2>11, DelayedElsewhere
  <2> QED
    BY <2>7, <2>10, <2>11 DEF DelayedInv
<1>3. CASE ~Enough(count)
  <2>1. /\ stage' = [stage EXCEPT ![c] = "unlock"]
        /\ UNCHANGED <<held, written, request>>
    BY <1>1, <1>3 DEF lock_buffers, Refuse, Release, GoTo
  <2>2. stage'[c] = "unlock" /\ \A d \in Clients : d # c => stage'[d] = stage[d]
    BY <1>0, <2>1 DEF PoolTypes
  <2>3. ASSUME NEW d \in Clients, d # c PROVE DelayedOf(d)'
    BY <2>1, <2>2, <2>3, DelayedElsewhere
  <2>4. DelayedOf(c)'
    BY <2>2 DEF DelayedOf, Busy
  <2> QED
    BY <2>1, <2>3, <2>4 DEF DelayedInv
<1> QED
    BY <1>2, <1>3

LEMMA DelayedRequest ==
    ASSUME IInv, DelayedInv, NEW c \in Clients, NEW r \in Requests,
           Request(c, r)
    PROVE  DelayedInv'
<1>0. PoolTypes /\ Progress(c)
    BY DEF IInv
<1>1. /\ stage[c] = "idle" /\ stage' = [stage EXCEPT ![c] = "lock"]
      /\ request' = [request EXCEPT ![c] = r]
      /\ UNCHANGED <<held, written>>
    BY DEF Request, GoTo
<1>2. stage'[c] = "lock" /\ request'[c] = r
      /\ \A d \in Clients : d # c =>
            stage'[d] = stage[d] /\ request'[d] = request[d]
    BY <1>0, <1>1 DEF PoolTypes
<1>3. r.offset < SamplesPerBlock
    BY Sizes DEF Requests
<1>4. \A k \in Delayed : held[c][k] = <<>> /\ written[c][k].current_buffer = 1
    BY <1>0, <1>1 DEF Progress, DelayedInv, DelayedOf, Kinds
<1>5. DelayedOf(c)'
    BY <1>1, <1>2, <1>3, <1>4 DEF DelayedOf, Busy
<1>6. ASSUME NEW d \in Clients, d # c PROVE DelayedOf(d)'
    BY <1>1, <1>2, <1>6, DelayedElsewhere
<1> QED
    BY <1>1, <1>5, <1>6 DEF DelayedInv

LEMMA DelayedOpen ==
    ASSUME IInv, DelayedInv, NEW c \in Clients,
           OpenArchive(c) \/ TransferEnds(c)
    PROVE  DelayedInv'
<1>1. PoolTypes /\ UNCHANGED <<request, held, written>>
    BY DEF IInv, OpenArchive, TransferEnds
<1>2. /\ stage[c] \in {"open", "transfer"}
      /\ \E s \in {"transfer", "unlock"} : stage' = [stage EXCEPT ![c] = s]
    BY DEF OpenArchive, TransferEnds, Release, GoTo
<1>3. /\ stage'[c] \in {"transfer", "unlock"}
      /\ \A d \in Clients : d # c => stage'[d] = stage[d]
    BY <1>1, <1>2 DEF PoolTypes
<1>4. DelayedOf(c)'
  <2>1. DelayedOf(c)
    BY DEF DelayedInv
  <2> QED
    BY <1>1, <1>2, <1>3, <2>1 DEF DelayedOf, Busy, Covers
<1>5. ASSUME NEW d \in Clients, d # c PROVE DelayedOf(d)'
    BY <1>1, <1>3, <1>5, DelayedElsewhere
<1> QED
    BY <1>1, <1>4, <1>5 DEF DelayedInv

LEMMA DelayedTransfer ==
    ASSUME IInv, DelayedInv, NEW c \in Clients, TransferBlock(c)
    PROVE  DelayedInv'
<1> DEFINE r == request[c]
           s == request'[c]
           used == {k \in Delayed : held[c][k] # <<>>}
           count == IF r.samples < SamplesPerBlock - r.offset
                    THEN r.samples ELSE SamplesPerBlock - r.offset
           v == [k \in Delayed |-> IF k \in used
                                   THEN write_buffer(written[c][k], ItemSize(k))
                                   ELSE written[c][k]]
<1>0. PoolTypes
    BY DEF IInv
<1>1. stage[c] = "transfer" /\ r.samples > 0 /\ UNCHANGED held
    BY DEF TransferBlock
<1>2. r \in ARequest /\ r.offset < SamplesPerBlock
    BY <1>0, <1>1 DEF PoolTypes, ARequest, DelayedInv, DelayedOf, Busy
<1>3. ASSUME NEW k \in used
      PROVE  /\ written[c][k] \in AWriteBuffer
             /\ WellFilled(written[c][k], k) /\ Covers(written[c][k], k, r)
    BY <1>1 DEF DelayedInv, DelayedOf, Busy
<1> DEFINE t == [r EXCEPT !.samples = @ - count, !.offset = 0]
<1>4. /\ t \in ARequest /\ t.offset = 0
      /\ \/ t.samples = 0
         \/ t.samples = r.samples - (SamplesPerBlock - r.offset)
  <2> HIDE DEF r, count
  <2>1. /\ r.samples \in Nat /\ r.offset \in Nat
        /\ count \in {r.samples, SamplesPerBlock - r.offset}
        /\ count <= r.samples
    BY <1>2, Sizes DEF ARequest, count
  <2>2. r.samples - count \in Nat
    BY <1>2, <2>1, Sizes
  <2>3. t.samples = r.samples - count /\ t.offset = 0 /\ t \in ARequest
    BY <1>2, <2>2 DEF ARequest
  <2> HIDE DEF t
  <2> QED
    BY <2>1, <2>3
<1> HIDE DEF t, count
<1>5. ASSUME NEW k \in used
      PROVE  /\ ~Full(written[c][k], ItemSize(k))
             /\ write_buffer(written[c][k], ItemSize(k)) \in AWriteBuffer
             /\ WellFilled(write_buffer(written[c][k], ItemSize(k)), k)
             /\ Covers(write_buffer(written[c][k], ItemSize(k)), k, t)
  <2>1. k \in Delayed
    OBVIOUS
  <2> HIDE DEF r, used
  <2> QED
    BY <1>1, <1>2, <1>3, <1>4, <2>1, WriteFits
<1>6. /\ written' = [written EXCEPT ![c] = v]
      /\ request' = [request EXCEPT ![c] = t]
      /\ UNCHANGED stage
  <2>1. ~ \E k \in used : Full(written[c][k], ItemSize(k))
    BY <1>5
  <2>2. /\ written' = [written EXCEPT ![c] = [k \in Delayed |->
                IF k \in used THEN write_buffer(@[k], ItemSize(k)) ELSE @[k]]]
        /\ request' = [request EXCEPT ![c].samples = @ - count,
                                      ![c].offset = 0]
        /\ UNCHANGED stage
    BY <2>1 DEF TransferBlock, count
  <2>3. written' = [written EXCEPT ![c] = v]
    BY <2>2 DEF DelayedInv
  <2>4. request' = [request EXCEPT ![c] = t]
    BY <1>0, <2>2 DEF PoolTypes, t
  <2> QED
    BY <2>2, <2>3, <2>4
<1>7. v \in [Delayed -> AWriteBuffer]
  <2>1. written[c] \in [Delayed -> AWriteBuffer]
    BY DEF DelayedInv
  <2> HIDE DEF used
  <2> QED
    BY <1>5, <2>1
<1> HIDE DEF v
<1>8. /\ written' \in [Clients -> [Delayed -> AWriteBuffer]]
      /\ written'[c] = v /\ request'[c] = t
      /\ \A d \in Clients : d # c =>
            written'[d] = written[d] /\ request'[d] = request[d]
    BY <1>0, <1>6, <1>7 DEF DelayedInv, PoolTypes
<1>9. DelayedOf(c)'
  <2>1. ASSUME NEW k \in Delayed, held'[c][k] # <<>>
        PROVE  WellFilled(written'[c][k], k) /\ Covers(written'[c][k], k, t)
    <3>1. k \in used
        BY <1>1, <2>1
    <3>2. v[k] = write_buffer(written[c][k], ItemSize(k))
        BY <3>1 DEF v
    <3> QED
        BY <1>5, <1>8, <3>1, <3>2
  <2>2. t.offset < SamplesPerBlock
    BY <1>4, Sizes
  <2> QED
    BY <1>1, <1>6, <1>8, <2>1, <2>2
    DEF DelayedOf, Busy, WellFilled, Covers, Room, ItemSize
<1>10. ASSUME NEW d \in Clients, d # c PROVE DelayedOf(d)'
    BY <1>1, <1>6, <1>8, <1>10, DelayedElsewhere
<1> QED
    BY <1>8, <1>9, <1>10 DEF DelayedInv

LEMMA DelayedUnlock ==
    ASSUME IInv, DelayedInv, NEW c \in Clients, unlock_buffers(c)
    PROVE  DelayedInv'
<1>0. PoolTypes
    BY DEF IInv
<1> DEFINE e == [held[c] EXCEPT ![kind[c]] = <<>>]
<1>1. /\ held' = [held EXCEPT ![c] = e]
      /\ \/ /\ stage' = [stage EXCEPT ![c] = "idle"]
            /\ request' = [request EXCEPT ![c] = NoRequest]
            /\ written' = [written EXCEPT ![c] = NothingWritten]
         \/ /\ stage' = [stage EXCEPT ![c] = "unlock"]
            /\ UNCHANGED <<request, written>>
  <2>1. held' = [held EXCEPT ![c] = e]
    BY <1>0 DEF unlock_buffers, PoolTypes
  <2> QED
    BY <2>1 DEF unlock_buffers, GoTo
<1> HIDE DEF e
<1>2. /\ \A d \in Clients : d # c =>
            /\ stage'[d] = stage[d] /\ held'[d] = held[d]
            /\ request'[d] = request[d] /\ written'[d] = written[d]
      /\ stage'[c] \in {"idle", "unlock"}
    BY <1>0, <1>1 DEF PoolTypes, DelayedInv
<1>3. /\ NothingWritten \in [Delayed -> AWriteBuffer]
      /\ \A k \in Delayed : NothingWritten[k].current_buffer = 1
    BY EmptySeq DEF NothingWritten, AWriteBuffer
<1> HIDE DEF NothingWritten
<1>4. written' \in [Clients -> [Delayed -> AWriteBuffer]]
    BY <1>1, <1>3 DEF DelayedInv
<1>5. stage'[c] = "idle" => written'[c] = NothingWritten
    BY <1>0, <1>1 DEF PoolTypes, DelayedInv
<1>6. DelayedOf(c)'
    BY <1>2, <1>3, <1>5 DEF DelayedOf, Busy
<1>7. ASSUME NEW d \in Clients, d # c PROVE DelayedOf(d)'
    BY <1>2, <1>7, DelayedElsewhere
<1> QED
    BY <1>4, <1>6, <1>7 DEF DelayedInv

LEMMA DelayedNext == IInv /\ DelayedInv /\ [Next]_vars => DelayedInv'
<1> SUFFICES ASSUME IInv, DelayedInv, [Next]_vars PROVE DelayedInv'
    OBVIOUS
<1>1. CASE UNCHANGED vars
  <2>1. UNCHANGED <<stage, held, written, request>>
    BY <1>1 DEF vars
  <2>2. \A d \in Clients : DelayedOf(d)'
    BY <2>1, DelayedElsewhere
  <2> QED
    BY <2>1, <2>2 DEF DelayedInv
<1>2. ASSUME NEW c \in Clients, Client(c) PROVE DelayedInv'
    BY <1>2, DelayedRequest, DelayedLock, DelayedOpen, DelayedTransfer,
       DelayedUnlock DEF Client, Serve
<1> QED
    BY <1>1, <1>2 DEF Next

\* Wherever a request begins and ends, for blocks and buffers of any size, the
\* buffers that allocate_timestamp_buffer asks for hold what transfer_data puts
\* aside: flush_buffer is never called for a buffer without a file.
THEOREM EstimateSuffices == Spec => []DelayedBuffersSuffice
<1>1. DelayedInv => DelayedBuffersSuffice
    BY DEF DelayedInv, DelayedOf, DelayedBuffersSuffice
<1> QED
    BY <1>1, Invariance, DelayedInit, DelayedNext, PTL DEF Spec

-----------------------------------------------------------------------------
(* Counting buffers. *)

LEMMA AsManyAsListed ==
    ASSUME NEW S, NEW s \in Seq(S), IsInjective(s)
    PROVE  /\ IsFiniteSet(ToSet(s)) /\ Cardinality(ToSet(s)) = Len(s)
           /\ Len(s) \in Nat
<1>1. Len(s) \in Nat /\ DOMAIN s = 1 .. Len(s)
    BY LenProperties
<1>2. s \in [1 .. Len(s) -> ToSet(s)]
  <2>1. s = [i \in 1 .. Len(s) |-> s[i]]
    BY SeqDef, LenProperties
  <2>2. \A i \in 1 .. Len(s) : s[i] \in ToSet(s)
    BY <1>1 DEF ToSet
  <2> QED
    BY <2>1, <2>2
<1>3. s \in Bijection(1 .. Len(s), ToSet(s))
  <2>1. s \in Injection(1 .. Len(s), ToSet(s))
    BY <1>1, <1>2 DEF Injection, IsInjective
  <2>2. s \in Surjection(1 .. Len(s), ToSet(s))
    BY <1>1, <1>2 DEF Surjection, ToSet
  <2> QED
    BY <2>1, <2>2 DEF Bijection
<1>4. ExistsBijection(1 .. Len(s), ToSet(s))
    BY <1>3 DEF ExistsBijection
<1>5. IsFiniteSet(ToSet(s))
    BY <1>1, <1>4, FS_NatBijection
<1> QED
    BY <1>1, <1>4, <1>5, FS_CountingElements

LEMMA DisjointSum ==
    ASSUME NEW S, NEW T, IsFiniteSet(S), IsFiniteSet(T), S \cap T = {}
    PROVE  /\ IsFiniteSet(S \cup T)
           /\ Cardinality(S \cup T) = Cardinality(S) + Cardinality(T)
<1>1. Cardinality(S) \in Nat /\ Cardinality(T) \in Nat
    BY FS_CardinalityType
<1>2. /\ IsFiniteSet(S \cup T)
      /\ Cardinality(S \cup T)
            = Cardinality(S) + Cardinality(T) - Cardinality(S \cap T)
    BY FS_Union
<1>3. Cardinality(S \cap T) = 0
    BY FS_EmptySet
<1> QED
    BY <1>1, <1>2, <1>3

\* If nobody else holds a buffer, those that are not free are c's.
LEMMA NoneElsewhere ==
    ASSUME IInv, NEW c \in Clients,
           \A d \in Clients \ {c} : held[d] = NoBuffers
    PROVE  /\ \A k \in Kinds : Len(held[c][k]) \in Nat
           /\ pool_size \in Nat
           /\ FaEntryCount = pool_size + Len(held[c]["read"])
                + Len(held[c]["out"]) + Len(held[c]["timestamps"])
                + Len(held[c]["durations"]) + Len(held[c]["id0s"])
<1>0. PoolTypes /\ Whole
    BY DEF IInv
<1> DEFINE free == ToSet(buffer_pool)
           Have(k) == ToSet(held[c][k])
<1>1. /\ IsFiniteSet(free) /\ Cardinality(free) = pool_size
      /\ pool_size \in Nat
    BY <1>0, AsManyAsListed DEF PoolTypes, Whole
<1>2. ASSUME NEW k \in Kinds
      PROVE  /\ IsFiniteSet(Have(k)) /\ Cardinality(Have(k)) = Len(held[c][k])
             /\ Len(held[c][k]) \in Nat
    BY <1>0, AsManyAsListed DEF PoolTypes, Whole
<1>3. /\ \A k \in Kinds : free \cap Have(k) = {}
      /\ \A k, l \in Kinds : k # l => Have(k) \cap Have(l) = {}
    BY <1>0 DEF Whole
<1>4. Buffers = free \cup Have("read") \cup Have("out") \cup Have("timestamps")
                     \cup Have("durations") \cup Have("id0s")
  <2>1. ASSUME NEW s \in Seq(Buffers) PROVE ToSet(s) \subseteq Buffers
    BY ElementOfSeq, LenProperties DEF ToSet
  <2>2. /\ free \subseteq Buffers
        /\ \A k \in Kinds : Have(k) \subseteq Buffers
    BY <1>0, <2>1 DEF PoolTypes
  <2>3. ASSUME NEW b \in Buffers, b \notin free
        PROVE  \E k \in Kinds : b \in Have(k)
    <3>1. PICK d \in Clients, k \in Kinds : b \in ToSet(held[d][k])
        BY <1>0, <2>3 DEF Whole
    <3>2. ToSet(NoBuffers[k]) = {}
        BY NoneTaken DEF NoBuffers
    <3>3. d = c
        BY <3>1, <3>2
    <3> QED
        BY <3>1, <3>3
  <2> HIDE DEF free, Have
  <2> QED
    BY <2>2, <2>3 DEF Kinds, Delayed
<1>5. Cardinality(Buffers) = FaEntryCount
    BY PoolAssumption, FS_Interval DEF Buffers
<1> HIDE DEF free, Have
<1>6. {"read", "out", "timestamps", "durations", "id0s"} = Kinds
    BY DEF Kinds, Delayed
<1> DEFINE a == free \cup Have("read")
           b == a \cup Have("out")
           d == b \cup Have("timestamps")
           e == d \cup Have("durations")
           f == e \cup Have("id0s")
<1>7. /\ IsFiniteSet(a)
      /\ Cardinality(a) = Cardinality(free) + Cardinality(Have("read"))
  <2>1. free \cap Have("read") = {}
    BY <1>3, <1>6
  <2> QED
    BY <1>1, <1>2, <1>6, <2>1, DisjointSum
<1>8. a \cap Have("out") = {} /\ b \cap Have("timestamps") = {}
      /\ d \cap Have("durations") = {} /\ e \cap Have("id0s") = {}
    BY <1>3, <1>6
<1>c. f = Buffers
    BY <1>4
<1> HIDE DEF a
<1>9. /\ IsFiniteSet(b)
      /\ Cardinality(b) = Cardinality(a) + Cardinality(Have("out"))
    BY <1>2, <1>6, <1>7, <1>8, DisjointSum
<1> HIDE DEF b
<1>10. /\ IsFiniteSet(d)
       /\ Cardinality(d) = Cardinality(b) + Cardinality(Have("timestamps"))
    BY <1>2, <1>6, <1>8, <1>9, DisjointSum
<1> HIDE DEF d
<1>11. /\ IsFiniteSet(e)
       /\ Cardinality(e) = Cardinality(d) + Cardinality(Have("durations"))
    BY <1>2, <1>6, <1>8, <1>10, DisjointSum
<1> HIDE DEF e
<1>12. Cardinality(f) = Cardinality(e) + Cardinality(Have("id0s"))
    BY <1>2, <1>6, <1>8, <1>11, DisjointSum
<1> HIDE DEF f
<1> QED
    BY <1>1, <1>2, <1>5, <1>6, <1>7, <1>9, <1>10, <1>11, <1>12, <1>c

-----------------------------------------------------------------------------
(* Who is refused. *)

\* A request that is taking buffers has all it asked for of those it has taken.
Taking(c) ==
    stage[c] = "lock" =>
        \A k \in Kinds \ NotYet(kind[c]) :
            Len(held[c][k]) = Wanted(request[c], k)

TakenInv == \A c \in Clients : Taking(c)

LEMMA TakenInit == Init => TakenInv
    BY DEF Init, TakenInv, Taking

LEMMA TakenElsewhere ==
    ASSUME NEW d \in Clients, Taking(d), UNCHANGED kind[d],
           stage'[d] = stage[d], held'[d] = held[d], request'[d] = request[d]
    PROVE  Taking(d)'
    BY DEF Taking, Wanted, Timestamps, RoundUp

LEMMA TakenLock ==
    ASSUME IInv, TakenInv, NEW c \in Clients, lock_buffers(c)
    PROVE  TakenInv'
<1> DEFINE k == kind[c]
           r == request[c]
           count == Wanted(r, k)
           p == SubSeq(buffer_pool, 1, count)
<1>0. PoolTypes /\ Whole /\ Progress(c)
    BY DEF IInv
<1>1. /\ k \in Kinds /\ stage[c] = "lock" /\ UNCHANGED request
      /\ r \in [ids : Nat, samples : Nat, offset : Nat,
                at_end : BOOLEAN, send_id0 : BOOLEAN]
      /\ InOrder(r, k)
    BY <1>0 DEF PoolTypes, Progress, lock_buffers
<1>2. /\ \A d \in Clients : d # c =>
            stage'[d] = stage[d] /\ held'[d] = held[d] /\ kind'[d] = kind[d]
      /\ stage'[c] = "lock" =>
            /\ Enough(count) /\ k # Last(Taken(r))
            /\ kind'[c] = Successor(Taken(r), k)
            /\ held'[c] = [held[c] EXCEPT ![k] = p]
  <2>1. CASE Enough(count)
    <3>1. /\ held' = [held EXCEPT ![c][k] = p]
          /\ IF k = Last(Taken(r))
             THEN GoTo(c, "open", "read")
             ELSE GoTo(c, "lock", Successor(Taken(r), k))
        BY <1>1, <2>1 DEF lock_buffers
    <3> HIDE DEF k, r, p, count
    <3> QED
        BY <1>0, <2>1, <3>1 DEF GoTo, PoolTypes
  <2>2. CASE ~Enough(count)
    <3>1. UNCHANGED held /\ GoTo(c, "unlock", "timestamps")
        BY <1>1, <2>2 DEF lock_buffers, Refuse, Release
    <3> QED
        BY <1>0, <3>1 DEF GoTo, PoolTypes
  <2> QED
    BY <2>1, <2>2
<1>3. ASSUME stage'[c] = "lock", NEW l \in Kinds \ NotYet(kind'[c])
      PROVE  Len(held'[c][l]) = Wanted(r, l)
  <2> DEFINE n == Successor(Taken(r), k)
  <2>1. NotYet(n) = NotYet(k) \ {k} /\ kind'[c] = n
    BY <1>1, <1>2, <1>3, NextTaken
  <2> HIDE DEF n
  <2>2. CASE l = k
    <3>1. /\ count \in 0 .. Len(buffer_pool) /\ Len(buffer_pool) \in Nat
          /\ buffer_pool \in Seq(Buffers)
        BY <1>0, <1>1, <1>2, <1>3, WantedType, LenProperties
        DEF PoolTypes, Whole, Enough
    <3>2. Len(p) = count
        BY <3>1, SubSeqProperties
    <3>3. held'[c][k] = p
        BY <1>0, <1>1, <1>2, <1>3 DEF PoolTypes
    <3> QED
        BY <2>2, <3>2, <3>3
  <2>3. CASE l # k
    <3>1. l \in Kinds \ NotYet(k)
        BY <1>3, <2>1, <2>3
    <3>2. Len(held[c][l]) = Wanted(r, l)
        BY <1>1, <3>1 DEF TakenInv, Taking
    <3>3. held'[c][l] = held[c][l]
        BY <1>0, <1>2, <1>3, <2>3 DEF PoolTypes
    <3> QED
        BY <3>2, <3>3
  <2> QED
    BY <2>2, <2>3
<1>4. Taking(c)'
  <2>1. request'[c] = r
    BY <1>1
  <2> HIDE DEF r
  <2> QED
    BY <1>3, <2>1 DEF Taking, Wanted, Timestamps, RoundUp
<1>5. ASSUME NEW d \in Clients, d # c PROVE Taking(d)'
    BY <1>1, <1>2, <1>5, TakenElsewhere DEF TakenInv
<1> QED
    BY <1>4, <1>5 DEF TakenInv

LEMMA TakenNext == IInv /\ TakenInv /\ [Next]_vars => TakenInv'
<1> SUFFICES ASSUME IInv, TakenInv, [Next]_vars PROVE TakenInv'
    OBVIOUS
<1>0. PoolTypes
    BY DEF IInv
<1>1. CASE UNCHANGED vars
    BY <1>1, TakenElsewhere DEF vars, TakenInv
<1>2. ASSUME NEW c \in Clients, \E r \in Requests : Request(c, r)
      PROVE  TakenInv'
  <2>1. /\ stage' = [stage EXCEPT ![c] = "lock"]
        /\ kind' = [kind EXCEPT ![c] = "read"]
        /\ UNCHANGED held
        /\ \E r \in Requests : request' = [request EXCEPT ![c] = r]
    BY <1>2 DEF Request, GoTo
  <2>2. Taking(c)'
    BY <1>0, <2>1 DEF Taking, NotYet, PoolTypes
  <2>3. ASSUME NEW d \in Clients, d # c PROVE Taking(d)'
    BY <1>0, <2>1, <2>3, TakenElsewhere DEF TakenInv, PoolTypes
  <2> QED
    BY <2>2, <2>3 DEF TakenInv
<1>3. ASSUME NEW c \in Clients,
             \/ OpenArchive(c) \/ TransferBlock(c) \/ TransferEnds(c)
             \/ unlock_buffers(c)
      PROVE  TakenInv'
  <2>1. /\ stage'[c] # "lock"
        /\ \A d \in Clients : d # c =>
            /\ stage'[d] = stage[d] /\ kind'[d] = kind[d]
            /\ held'[d] = held[d] /\ request'[d] = request[d]
    <3>1. CASE OpenArchive(c) \/ TransferEnds(c)
        BY <1>0, <3>1
        DEF OpenArchive, TransferEnds, Release, GoTo, PoolTypes
    <3>2. CASE TransferBlock(c)
      <4>1. /\ stage[c] = "transfer" /\ UNCHANGED held
            /\ UNCHANGED <<stage, kind>> \/ GoTo(c, "aborted", "read")
            /\ \/ UNCHANGED request
               \/ \E n : request' = [request EXCEPT ![c].samples = @ - n,
                                                    ![c].offset = 0]
        BY <3>2 DEF TransferBlock
      <4> QED
        BY <1>0, <4>1 DEF GoTo, PoolTypes
    <3>3. CASE unlock_buffers(c)
      <4>1. /\ held' = [held EXCEPT ![c][kind[c]] = <<>>]
            /\ request' \in {request, [request EXCEPT ![c] = NoRequest]}
            /\ \/ GoTo(c, "idle", "read")
               \/ \E n : GoTo(c, "unlock", n)
        BY <3>3 DEF unlock_buffers
      <4> QED
        BY <1>0, <4>1 DEF GoTo, PoolTypes
    <3> QED
        BY <1>3, <3>1, <3>2, <3>3
  <2>2. Taking(c)'
    BY <2>1 DEF Taking
  <2>3. ASSUME NEW d \in Clients, d # c PROVE Taking(d)'
    BY <2>1, <2>3, TakenElsewhere DEF TakenInv
  <2> QED
    BY <2>2, <2>3 DEF TakenInv
<1>4. ASSUME NEW c \in Clients, Client(c) PROVE TakenInv'
    BY <1>2, <1>3, <1>4, TakenLock DEF Client, Serve
<1> QED
    BY <1>1, <1>4 DEF Next

LEMMA RefusedStep ==
    ASSUME IInv, TakenInv, [Next]_vars, NEW c \in Clients, Refused(c),
           \A d \in Clients \ {c} : held[d] = NoBuffers
    PROVE  Needed(request[c]) > FaEntryCount
<1> DEFINE k == kind[c]
           r == request[c]
<1>0. PoolTypes /\ Progress(c)
    BY DEF IInv
<1>1. lock_buffers(c)
  <2>1. stage[c] = "lock" /\ stage'[c] = "unlock"
    BY DEF Refused
  <2>2. PICK d \in Clients : Client(d)
    BY <2>1 DEF Next, vars
  <2>3. d = c
    <3>1. \E s : stage' = [stage EXCEPT ![d] = s]
      <4>1. UNCHANGED stage => stage' = [stage EXCEPT ![d] = stage[d]]
        BY <1>0 DEF PoolTypes
      <4> QED
        BY <2>2, <4>1
        DEF Client, Serve, Request, lock_buffers, OpenArchive, TransferBlock,
            TransferEnds, unlock_buffers, Refuse, Release, GoTo
    <3> QED
        BY <1>0, <2>1, <3>1 DEF PoolTypes
  <2> QED
    BY <2>1, <2>2, <2>3
    DEF Client, Serve, Request, OpenArchive, TransferBlock, TransferEnds,
        unlock_buffers
<1>2. /\ r \in [ids : Nat, samples : Nat, offset : Nat,
                at_end : BOOLEAN, send_id0 : BOOLEAN]
      /\ k \in Kinds /\ InOrder(r, k)
      /\ \A l \in NotYet(k) : held[c][l] = <<>>
      /\ \A l \in Kinds \ NotYet(k) : Len(held[c][l]) = Wanted(r, l)
    BY <1>0, <1>1 DEF PoolTypes, Progress, TakenInv, Taking, lock_buffers
<1>3. Wanted(r, k) > pool_size
  <2>1. ~Enough(Wanted(r, k))
    <3> SUFFICES ASSUME Enough(Wanted(r, k)) PROVE FALSE
        OBVIOUS
    <3>1. GoTo(c, "open", "read") \/ \E n : GoTo(c, "lock", n)
        BY <1>1 DEF lock_buffers
    <3> QED
        BY <1>0, <3>1 DEF GoTo, PoolTypes, Refused
  <2>2. Wanted(r, k) \in Nat /\ pool_size \in Nat
    BY <1>2, WantedType, NoneElsewhere
  <2> QED
    BY <2>1, <2>2 DEF Enough
<1> DEFINE read == Wanted(r, "read")
           out == Wanted(r, "out")
           timestamps == Wanted(r, "timestamps")
           durations == Wanted(r, "durations")
           id0s == Wanted(r, "id0s")
<1>4. /\ read \in Nat /\ out \in Nat /\ timestamps \in Nat
      /\ durations \in Nat /\ id0s \in Nat
    BY <1>2, WantedType DEF Kinds, Delayed
<1>5. /\ pool_size \in Nat
      /\ FaEntryCount = pool_size + Len(held[c]["read"])
            + Len(held[c]["out"]) + Len(held[c]["timestamps"])
            + Len(held[c]["durations"]) + Len(held[c]["id0s"])
    BY NoneElsewhere
<1>6. Needed(r) = read + out + IF ~r.at_end THEN 0
                               ELSE timestamps + durations +
                                    IF r.send_id0 THEN id0s ELSE 0
    BY DEF Needed
<1>7. Len(<<>>) = 0
    BY EmptySeq
<1>8. CASE k = "read"
  <2>1. /\ Len(held[c]["read"]) = 0 /\ Len(held[c]["out"]) = 0
        /\ Len(held[c]["timestamps"]) = 0
        /\ Len(held[c]["durations"]) = 0 /\ Len(held[c]["id0s"]) = 0
    BY <1>2, <1>7, <1>8 DEF NotYet, Kinds, Delayed
  <2>2. read > pool_size
    BY <1>3, <1>8
  <2> HIDE DEF read, out, timestamps, durations, id0s, r, k
  <2> QED
    BY <1>4, <1>5, <1>6, <2>1, <2>2 DEF r
<1>9. CASE k = "out"
  <2>1. /\ Len(held[c]["read"]) = read
        /\ Len(held[c]["out"]) = 0 /\ Len(held[c]["timestamps"]) = 0
        /\ Len(held[c]["durations"]) = 0 /\ Len(held[c]["id0s"]) = 0
    BY <1>2, <1>7, <1>9 DEF NotYet, Kinds, Delayed
  <2>2. out > pool_size
    BY <1>3, <1>9
  <2> HIDE DEF read, out, timestamps, durations, id0s, r, k
  <2> QED
    BY <1>4, <1>5, <1>6, <2>1, <2>2 DEF r
<1>10. CASE k = "timestamps"
  <2>1. /\ Len(held[c]["read"]) = read /\ Len(held[c]["out"]) = out
        /\ Len(held[c]["timestamps"]) = 0
        /\ Len(held[c]["durations"]) = 0 /\ Len(held[c]["id0s"]) = 0
    BY <1>2, <1>7, <1>10 DEF NotYet, Kinds, Delayed
  <2>2. timestamps > pool_size /\ r.at_end
    BY <1>2, <1>3, <1>10 DEF InOrder, Delayed
  <2> HIDE DEF read, out, timestamps, durations, id0s, r, k
  <2> QED
    BY <1>4, <1>5, <1>6, <2>1, <2>2 DEF r
<1>11. CASE k = "durations"
  <2>1. /\ Len(held[c]["read"]) = read /\ Len(held[c]["out"]) = out
        /\ Len(held[c]["timestamps"]) = timestamps
        /\ Len(held[c]["durations"]) = 0 /\ Len(held[c]["id0s"]) = 0
    BY <1>2, <1>7, <1>11 DEF NotYet, Kinds, Delayed
  <2>2. durations > pool_size /\ r.at_end
    BY <1>2, <1>3, <1>11 DEF InOrder, Delayed
  <2> HIDE DEF read, out, timestamps, durations, id0s, r, k
  <2> QED
    BY <1>4, <1>5, <1>6, <2>1, <2>2 DEF r
<1>12. CASE k = "id0s"
  <2>1. /\ Len(held[c]["read"]) = read /\ Len(held[c]["out"]) = out
        /\ Len(held[c]["timestamps"]) = timestamps
        /\ Len(held[c]["durations"]) = durations /\ Len(held[c]["id0s"]) = 0
    BY <1>2, <1>7, <1>12 DEF NotYet, Kinds, Delayed
  <2>2. id0s > pool_size /\ r.at_end /\ r.send_id0
    BY <1>2, <1>3, <1>12 DEF InOrder, Delayed
  <2> HIDE DEF read, out, timestamps, durations, id0s, r, k
  <2> QED
    BY <1>4, <1>5, <1>6, <2>1, <2>2 DEF r
<1> QED
    BY <1>2, <1>8, <1>9, <1>10, <1>11, <1>12 DEF Kinds, Delayed

\* However the five kinds of buffers of a request are taken in between those of
\* others: it is turned away as too busy only if all the buffers of the pool
\* would not have done, or somebody else had one.
THEOREM RefusalIsJustified == Spec => RefusedOnlyWhenBusy
<1> DEFINE Justified ==
        \A c \in Clients :
            Refused(c) => \/ Needed(request[c]) > FaEntryCount
                          \/ \E d \in Clients \ {c} : held[d] # NoBuffers
<1>1. IInv /\ TakenInv /\ [Next]_vars => Justified
    BY RefusedStep
<1>2. Spec => []TakenInv
    BY Invariance, TakenInit, TakenNext, PTL DEF Spec
<1> QED
    BY <1>1, <1>2, Invariance, PTL DEF Spec, RefusedOnlyWhenBusy

=============================================================================
