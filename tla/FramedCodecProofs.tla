-------------------------- MODULE FramedCodecProofs --------------------------
(***************************************************************************)
(* Theorems about FramedCodec, for every traffic, every damage, every way   *)
(* to cut the line into reads, every maximal length and every checksum.     *)
(***************************************************************************)
EXTENDS FramedCodec, DataInduction, SequenceTheorems

Bytes == Seq(Byte)

LEMMA JoinBytes ==
  ASSUME NEW s \in Bytes, NEW t \in Bytes, NEW u \in Bytes
  PROVE  (s \o t) \o u = s \o (t \o u)
BY ConcatAssociative DEF Bytes

LEMMA JoinItems ==
  ASSUME NEW s \in Seq(Item), NEW t \in Seq(Item), NEW u \in Seq(Item)
  PROVE  (s \o t) \o u = s \o (t \o u)
BY ConcatAssociative

-----------------------------------------------------------------------------
(* Numbers of one and of two bytes.                                         *)

LEMMA RangeOf ==
  ASSUME NEW a \in Int, NEW b \in Int, NEW x
  PROVE  x \in a .. b <=> x \in Int /\ a <= x /\ x <= b
OBVIOUS

LEMMA ByteRange == \A x : x \in Byte <=> x \in Nat /\ x <= 255
<1>1. 0 \in Int /\ 255 \in Int
  OBVIOUS
<1>2. \A x : x \in 0 .. 255 <=> x \in Int /\ 0 <= x /\ x <= 255
  BY <1>1, RangeOf, ZenonT(60)
<1>3. \A x : x \in Nat <=> x \in Int /\ 0 <= x
  OBVIOUS
<1> QED
  BY <1>2, <1>3, Zenon DEF Byte

LEMMA U16Range == \A x : x \in U16 <=> x \in Nat /\ x <= 65535
BY DEF U16

\* Two bytes are a number, and its two bytes are they.
LEMMA FromBytes ==
  ASSUME NEW lo \in Byte, NEW hi \in Byte
  PROVE  /\ from_le_bytes(lo, hi) \in Nat
         /\ to_le_bytes(from_le_bytes(lo, hi)) = <<lo, hi>>
<1>1. lo \in Nat /\ lo <= 255 /\ hi \in Nat /\ hi <= 255
  BY ByteRange
<1> QED
  BY <1>1 DEF from_le_bytes, to_le_bytes

\* A number of two bytes is what its bytes say.
LEMMA ToBytes ==
  ASSUME NEW n \in U16
  PROVE  /\ n % 256 \in Byte /\ n \div 256 \in Byte
         /\ to_le_bytes(n) \in Bytes /\ Len(to_le_bytes(n)) = 2
         /\ from_le_bytes(n % 256, n \div 256) = n
<1>1. n \in Nat /\ n <= 65535
  BY U16Range
<1>2. n % 256 \in Nat /\ n % 256 <= 255 /\ n \div 256 \in Nat /\ n \div 256 <= 255
  BY <1>1
<1>3. n % 256 \in Byte /\ n \div 256 \in Byte
  BY <1>2, ByteRange
<1>4. (n % 256) + 256 * (n \div 256) = n
  BY <1>1
<1> QED
  BY <1>3, <1>4 DEF from_le_bytes, to_le_bytes, Bytes

LEMMA StartTyped == FRAME_START \in Bytes /\ Len(FRAME_START) = 4
<1>1. 170 \in Byte /\ 204 \in Byte
  BY ByteRange
<1> QED
  BY <1>1 DEF FRAME_START, Bytes

-----------------------------------------------------------------------------
(* The first item of a run of bytes.                                        *)

\* Dropping a prefix leaves a shorter run of bytes.
LEMMA Advance ==
  ASSUME NEW b \in Bytes, NEW d \in 0 .. Len(b)
  PROVE  /\ advance(b, d) \in Bytes
         /\ Len(advance(b, d)) = Len(b) - d
         /\ \A i \in 1 .. Len(b) - d : advance(b, d)[i] = b[i + d]
<1>1. \A i \in d + 1 .. Len(b) : b[i] \in Byte
  BY ElementOfSeq DEF Bytes
<1>2. d + 1 \in Int /\ Len(b) \in Int /\ Len(b) \in Nat
  BY LenProperties DEF Bytes
<1>3. /\ advance(b, d) \in Seq(Byte)
      /\ Len(advance(b, d)) = IF d + 1 <= Len(b) THEN Len(b) - (d + 1) + 1 ELSE 0
      /\ \A i \in 1 .. Len(b) - (d + 1) + 1 : advance(b, d)[i] = b[(d + 1) + i - 1]
  BY <1>1, <1>2, SubSeqProperties DEF advance
<1> QED
  BY <1>2, <1>3 DEF Bytes

\* A start is four bytes.
LEMMA StartBytes ==
  ASSUME NEW b \in Bytes, NEW i \in Int
  PROVE  i \in StartsAt(b) <=>
           /\ i \in 1 .. Len(b) - 3
           /\ b[i] = 170 /\ b[i + 1] = 204 /\ b[i + 2] = 170 /\ b[i + 3] = 204
<1>0. Len(b) \in Nat /\ Len(FRAME_START) = 4 /\ FRAME_START \in Bytes
  BY StartTyped, LenProperties DEF Bytes
<1> SUFFICES ASSUME i \in 1 .. Len(b) - 3
             PROVE  SubSeq(b, i, i + 3) = FRAME_START <=>
                      b[i] = 170 /\ b[i + 1] = 204 /\ b[i + 2] = 170 /\ b[i + 3] = 204
  BY <1>0 DEF StartsAt
<1> DEFINE s == SubSeq(b, i, i + 3)
<1>1. \A k \in i .. i + 3 : b[k] \in Byte
  BY <1>0, ElementOfSeq DEF Bytes
<1>2. s \in Bytes /\ Len(s) = 4 /\ \A k \in 1 .. 4 : s[k] = b[i + k - 1]
  BY <1>1, SubSeqProperties DEF Bytes
<1> HIDE DEF s
<1>3. s[1] = b[i] /\ s[2] = b[i + 1] /\ s[3] = b[i + 2] /\ s[4] = b[i + 3]
  BY <1>2
<1>4. FRAME_START[1] = 170 /\ FRAME_START[2] = 204 /\ FRAME_START[3] = 170 /\ FRAME_START[4] = 204
  BY DEF FRAME_START
<1>5. ASSUME s[1] = 170, s[2] = 204, s[3] = 170, s[4] = 204
      PROVE  s = FRAME_START
  <2>1. \A k \in 1 .. 4 : s[k] = FRAME_START[k]
    BY <1>4, <1>5
  <2> QED
    BY <1>0, <1>2, <2>1, SeqEqual DEF Bytes
<1> QED
  BY <1>3, <1>4, <1>5 DEF s

\* A header is a start and a length.
LEMMA HeaderBytes ==
  ASSUME NEW b \in Bytes, NEW i \in Int
  PROVE  i \in Headers(b) <=> i \in StartsAt(b) /\ i <= Len(b) - 5
<1>1. Len(b) \in Nat
  BY LenProperties DEF Bytes
<1> QED
  BY <1>1 DEF Headers, FRAME_HEADER_LEN

LEMMA HeaderIs ==
  ASSUME NEW b \in Bytes, NEW i \in Int
  PROVE  i \in Headers(b) <=>
           /\ 1 <= i /\ i <= Len(b) - 5
           /\ b[i] = 170 /\ b[i + 1] = 204 /\ b[i + 2] = 170 /\ b[i + 3] = 204
<1>1. Len(b) \in Nat
  BY LenProperties DEF Bytes
<1>2. i \in Headers(b) <=> i \in StartsAt(b) /\ i <= Len(b) - 5
  BY HeaderBytes
<1>3. i \in StartsAt(b) <=>
        /\ i \in 1 .. Len(b) - 3
        /\ b[i] = 170 /\ b[i + 1] = 204 /\ b[i + 2] = 170 /\ b[i + 3] = 204
  BY StartBytes
<1>4. i \in 1 .. Len(b) - 3 /\ i <= Len(b) - 5 <=> 1 <= i /\ i <= Len(b) - 5
  BY <1>1
<1> QED
  BY <1>2, <1>3, <1>4

LEMMA HeadersInside ==
  ASSUME NEW b \in Bytes
  PROVE  Headers(b) \subseteq 1 .. Len(b) - 5
<1>1. Len(b) \in Nat
  BY LenProperties DEF Bytes
<1> QED
  BY <1>1 DEF Headers, StartsAt, FRAME_HEADER_LEN

\* The first item is that of the first header.
LEMMA FirstHeader ==
  ASSUME NEW b \in Bytes, NEW i \in Headers(b), \A j \in Headers(b) : i <= j
  PROVE  FirstItem(b) = ItemAt(b, i)
<1>1. Headers(b) \subseteq Int
  BY HeadersInside
<1>2. Min(Headers(b)) \in Headers(b) /\ \A j \in Headers(b) : Min(Headers(b)) <= j
  BY DEF Min
<1>3. Min(Headers(b)) = i
  BY <1>1, <1>2
<1> QED
  BY <1>3 DEF FirstItem

LEMMA SomeFirst ==
  ASSUME NEW b \in Bytes, Headers(b) # {}
  PROVE  \E i \in Headers(b) : (\A j \in Headers(b) : i <= j) /\ FirstItem(b) = ItemAt(b, i)
<1>1. Headers(b) \subseteq Nat
  BY HeadersInside
<1>2. \E i \in Headers(b) : \A j \in Headers(b) : i <= j
  BY <1>1, LeastOf
<1> QED
  BY <1>2, FirstHeader

LEMMA ItemAtTyped ==
  ASSUME NEW b \in Bytes, NEW i \in Headers(b)
  PROVE  /\ ItemAt(b, i).item = <<>> \/ \E x \in Item : ItemAt(b, i).item = <<x>>
         /\ ItemAt(b, i).end \in 1 .. Len(b)
<1> DEFINE n == from_le_bytes(b[i + 4], b[i + 5])
           data == SubSeq(b, i + 6, i + n + 5)
<1>1. i \in 1 .. Len(b) - 5 /\ Len(b) \in Nat
  BY HeadersInside, LenProperties DEF Bytes
<1>2. n \in Nat
  <2>1. b[i + 4] \in Byte /\ b[i + 5] \in Byte
    BY <1>1, ElementOfSeq DEF Bytes
  <2> QED
    BY <2>1, FromBytes
<1>3. ASSUME ~ (i + n + 7 > Len(b)) PROVE data \in Seq(Byte)
  <2> HIDE DEF n
  <2>1. \A k \in i + 6 .. i + n + 5 : b[k] \in Byte
    BY <1>1, <1>2, <1>3, ElementOfSeq DEF Bytes
  <2>2. i + 6 \in Int /\ i + n + 5 \in Int
    BY <1>1, <1>2
  <2> QED
    BY <2>1, <2>2, SubSeqProperties
<1>4. InvalidLength \in Item /\ InvalidCRC \in Item /\ \A d \in Seq(Byte) : Ok(d) \in Item
  BY DEF Item, Ok
<1> HIDE DEF n
<1>5. CASE TooLong(n)
  BY <1>1, <1>4, <1>5 DEF ItemAt, n
<1>6. CASE ~TooLong(n) /\ i + n + 7 > Len(b)
  BY <1>1, <1>6 DEF ItemAt, n
<1>7. CASE ~TooLong(n) /\ ~ (i + n + 7 > Len(b))
  <2>1. data \in Seq(Byte)
    BY <1>3, <1>7
  <2> DEFINE x == IF checksum(data) = from_le_bytes(b[i + n + 6], b[i + n + 7])
                    THEN Ok(data) ELSE InvalidCRC
  <2>2. ItemAt(b, i) = [item |-> <<x>>, end |-> i + n + 7]
    BY <1>7, Zenon DEF ItemAt, n
  <2> HIDE DEF data
  <2>3. x \in Item
    BY <1>4, <2>1
  <2> HIDE DEF x
  <2> QED
    BY <1>1, <1>2, <1>7, <2>2, <2>3
<1> QED
  BY <1>5, <1>6, <1>7

\* The first item is one item or none, and takes at least a byte.
LEMMA FirstTyped ==
  ASSUME NEW b \in Bytes
  PROVE  /\ FirstItem(b).item = <<>> \/ \E x \in Item : FirstItem(b).item = <<x>>
         /\ FirstItem(b).end \in 0 .. Len(b)
         /\ FirstItem(b).item # <<>> => FirstItem(b).end \in 1 .. Len(b)
<1>1. CASE Headers(b) = {}
  <2>1. Len(b) \in Nat
    BY LenProperties DEF Bytes
  <2> QED
    BY <1>1, <2>1 DEF FirstItem
<1>2. CASE Headers(b) # {}
  <2>1. PICK i \in Headers(b) : FirstItem(b) = ItemAt(b, i)
    BY <1>2, SomeFirst
  <2>2. /\ ItemAt(b, i).item = <<>> \/ \E x \in Item : ItemAt(b, i).item = <<x>>
        /\ ItemAt(b, i).end \in 1 .. Len(b)
    BY ItemAtTyped
  <2>3. Len(b) \in Nat
    BY LenProperties DEF Bytes
  <2> QED
    BY <2>1, <2>2, <2>3
<1> QED
  BY <1>1, <1>2

-----------------------------------------------------------------------------
(* Items is what its definition says.  A solution of the equation is put    *)
(* together from solutions for the runs shorter than n, for every n.        *)

Unfold(f, b) ==
  IF FirstItem(b).item = <<>> THEN <<>>
  ELSE FirstItem(b).item \o f[advance(b, FirstItem(b).end)]

Short(n) == {b \in Bytes : Len(b) < n}
Solves(f, D) == f = [b \in D |-> Unfold(f, b)]

\* What follows an item is shorter.
LEMMA RestShorter ==
  ASSUME NEW b \in Bytes, FirstItem(b).item # <<>>
  PROVE  /\ advance(b, FirstItem(b).end) \in Bytes
         /\ Len(advance(b, FirstItem(b).end)) < Len(b)
<1>1. FirstItem(b).end \in 1 .. Len(b) /\ Len(b) \in Nat
  BY FirstTyped, LenProperties DEF Bytes
<1> DEFINE d == FirstItem(b).end
<1> HIDE DEF d
<1>2. d \in 0 .. Len(b) /\ d >= 1
  BY <1>1 DEF d
<1>3. advance(b, d) \in Bytes /\ Len(advance(b, d)) = Len(b) - d
  BY <1>2, Advance
<1> QED
  BY <1>1, <1>2, <1>3 DEF d

LEMMA SolutionExists == \A n \in Nat : \E f : Solves(f, Short(n))
<1> DEFINE S == {n \in Nat : \E f : Solves(f, Short(n))}
<1>1. 0 \in S
  <2>1. \A b \in Bytes : Len(b) \in Nat
    BY LenProperties DEF Bytes
  <2>2. Short(0) = {}
    BY <2>1 DEF Short
  <2> DEFINE f == [b \in {} |-> <<>>]
  <2>3. f = [b \in Short(0) |-> Unfold(f, b)]
    BY <2>2
  <2> QED
    BY <2>3, Zenon DEF Solves
<1>2. ASSUME NEW n \in Nat, n \in S PROVE n + 1 \in S
  <2>1. PICK f : Solves(f, Short(n))
    BY <1>2
  <2> DEFINE g == [b \in Short(n + 1) |-> Unfold(f, b)]
  <2>2. ASSUME NEW b \in Short(n + 1) PROVE Unfold(f, b) = Unfold(g, b)
    <3>1. CASE FirstItem(b).item = <<>>
      BY <3>1, Zenon DEF Unfold
    <3>2. CASE FirstItem(b).item # <<>>
      <4> DEFINE r == advance(b, FirstItem(b).end)
      <4>1. b \in Bytes /\ Len(b) < n + 1
        BY DEF Short
      <4>2. r \in Bytes /\ Len(r) < Len(b)
        BY <3>2, <4>1, RestShorter
      <4>3. Len(b) \in Nat /\ Len(r) \in Nat
        BY <4>1, <4>2, LenProperties DEF Bytes
      <4> HIDE DEF r
      <4>4. r \in Short(n) /\ r \in Short(n + 1)
        BY <4>1, <4>2, <4>3 DEF Short
      <4>5. f[r] = Unfold(f, r)
        BY <2>1, <4>4, Zenon DEF Solves
      <4>6. g[r] = Unfold(f, r)
        BY <4>4, Zenon
      <4> QED
        BY <4>5, <4>6, Zenon DEF Unfold, r
    <3> QED
      BY <3>1, <3>2
  <2>3. g = [b \in Short(n + 1) |-> Unfold(g, b)]
    BY <2>2, Zenon
  <2>4. \E h : Solves(h, Short(n + 1))
    BY <2>3, Zenon DEF Solves
  <2> QED
    BY <2>4
<1> HIDE DEF S
<1>3. Nat \subseteq S
  BY <1>1, <1>2, UpInduction
<1> QED
  BY <1>3 DEF S

\* Two solutions agree where both are defined.
LEMMA SolutionUnique ==
  ASSUME NEW f, NEW g, NEW m \in Nat, NEW n \in Nat,
         Solves(f, Short(m)), Solves(g, Short(n)),
         NEW b \in Short(m), b \in Short(n)
  PROVE  f[b] = g[b]
<1> DEFINE S == {k \in Nat : \A x \in Short(m) \cap Short(n) : Len(x) = k => f[x] = g[x]}
<1>1. ASSUME NEW k \in Nat, \A l \in 0 .. k - 1 : l \in S
      PROVE  k \in S
  <2> SUFFICES ASSUME NEW x \in Short(m) \cap Short(n), Len(x) = k
               PROVE  f[x] = g[x]
    OBVIOUS
  <2>1. f[x] = Unfold(f, x) /\ g[x] = Unfold(g, x)
    BY Zenon DEF Solves
  <2>2. CASE FirstItem(x).item = <<>>
    BY <2>1, <2>2, Zenon DEF Unfold
  <2>3. CASE FirstItem(x).item # <<>>
    <3> DEFINE r == advance(x, FirstItem(x).end)
    <3>1. x \in Bytes /\ Len(x) < m /\ Len(x) < n
      BY DEF Short
    <3>2. r \in Bytes /\ Len(r) < Len(x)
      BY <2>3, <3>1, RestShorter
    <3>3. Len(r) \in Nat
      BY <3>2, LenProperties DEF Bytes
    <3> HIDE DEF r
    <3>4. r \in Short(m) \cap Short(n) /\ Len(r) \in 0 .. k - 1
      BY <3>1, <3>2, <3>3 DEF Short
    <3>5. f[r] = g[r]
      BY <1>1, <3>4
    <3> QED
      BY <2>1, <3>5, Zenon DEF Unfold, r
  <2> QED
    BY <2>2, <2>3
<1> HIDE DEF S
<1>2. Nat \subseteq S
  BY <1>1, CompleteInduction
<1>3. b \in Short(m) \cap Short(n) /\ Len(b) \in Nat
  BY LenProperties DEF Short, Bytes
<1> QED
  BY <1>2, <1>3 DEF S

LEMMA ItemsSolves == Items = [b \in Bytes |-> Unfold(Items, b)]
<1> DEFINE F(n) == CHOOSE f : Solves(f, Short(n))
           G == [b \in Bytes |-> F(Len(b) + 1)[b]]
<1>1. \A n \in Nat : Solves(F(n), Short(n))
  BY SolutionExists, Zenon
<1> HIDE DEF F
<1>2. ASSUME NEW b \in Bytes PROVE G[b] = Unfold(G, b)
  <2> DEFINE n == Len(b) + 1
  <2>1. n \in Nat /\ Len(b) \in Nat /\ b \in Short(n)
    BY LenProperties DEF Short, Bytes
  <2>2. G[b] = F(n)[b] 
    OBVIOUS
  <2>3. F(n)[b] = Unfold(F(n), b)
    BY <1>1, <2>1, Zenon DEF Solves
  <2> HIDE DEF n
  <2>4. CASE FirstItem(b).item = <<>>
    BY <2>2, <2>3, <2>4, Zenon DEF Unfold
  <2>5. CASE FirstItem(b).item # <<>>
    <3> DEFINE r == advance(b, FirstItem(b).end)
               k == Len(r) + 1
    <3>1. r \in Bytes /\ Len(r) < Len(b)
      BY <2>5, RestShorter
    <3>2. Len(r) \in Nat
      BY <3>1, LenProperties DEF Bytes
    <3>3. G[r] = F(k)[r]
      BY <3>1, Zenon
    <3> HIDE DEF r
    <3>4. k \in Nat /\ r \in Short(k) /\ r \in Short(n)
      BY <2>1, <3>1, <3>2 DEF Short, n
    <3> HIDE DEF k
    <3>5. F(k)[r] = F(n)[r]
      BY <1>1, <2>1, <3>4, SolutionUnique
    <3> QED
      BY <2>2, <2>3, <3>3, <3>5, Zenon DEF Unfold, r
  <2> QED
    BY <2>4, <2>5
<1> HIDE DEF G
<1>3. G = [b \in Bytes |-> Unfold(G, b)]
  <2>1. G = [b \in Bytes |-> G[b]]
    BY Zenon DEF G
  <2> QED
    BY <1>2, <2>1, Zenon
<1>4. \E f : f = [b \in Bytes |-> Unfold(f, b)]
  BY <1>3, Zenon
<1>5. Items = CHOOSE f : f = [b \in Bytes |-> Unfold(f, b)]
  BY Zenon DEF Items, Unfold, Bytes
<1> QED
  BY <1>4, <1>5, Zenon

\* The items of a run: the first and those of what follows it.
LEMMA ItemsOf ==
  ASSUME NEW b \in Bytes
  PROVE  Items[b] = Unfold(Items, b)
BY ItemsSolves, Zenon

LEMMA ItemsTyped == \A b \in Bytes : Items[b] \in Seq(Item)
<1> DEFINE S == {n \in Nat : \A b \in Bytes : Len(b) = n => Items[b] \in Seq(Item)}
<1>1. ASSUME NEW n \in Nat, \A k \in 0 .. n - 1 : k \in S
      PROVE  n \in S
  <2> SUFFICES ASSUME NEW b \in Bytes, Len(b) = n
               PROVE  Items[b] \in Seq(Item)
    OBVIOUS
  <2>1. CASE FirstItem(b).item = <<>>
    <3>1. Items[b] = <<>>
      BY <2>1, ItemsOf, Zenon DEF Unfold
    <3> QED
      BY <3>1, EmptySeq
  <2>2. CASE FirstItem(b).item # <<>>
    <3> DEFINE r == advance(b, FirstItem(b).end)
    <3>1. r \in Bytes /\ Len(r) < n
      BY <2>2, RestShorter
    <3>2. Len(r) \in 0 .. n - 1
      BY <3>1, LenProperties DEF Bytes
    <3> HIDE DEF r
    <3>3. Items[r] \in Seq(Item)
      BY <1>1, <3>1, <3>2
    <3>4. PICK x \in Item : FirstItem(b).item = <<x>>
      BY <2>2, FirstTyped
    <3>5. Items[b] = <<x>> \o Items[r]
      BY <2>2, <3>4, ItemsOf, Zenon DEF Unfold, r
    <3>6. <<x>> \in Seq(Item)
      OBVIOUS
    <3> QED
      BY <3>3, <3>5, <3>6, ConcatProperties
  <2> QED
    BY <2>1, <2>2
<1> HIDE DEF S
<1>2. Nat \subseteq S
  BY <1>1, CompleteInduction
<1>3. \A b \in Bytes : Len(b) \in Nat
  BY LenProperties DEF Bytes
<1> QED
  BY <1>2, <1>3 DEF S

-----------------------------------------------------------------------------
(* Bytes dropped and bytes to come.                                         *)

LEMMA SubSeqOfAdvance ==
  ASSUME NEW b \in Bytes, NEW d \in 0 .. Len(b),
         NEW m \in Nat, m >= 1, NEW n \in Int, n <= Len(b) - d
  PROVE  SubSeq(advance(b, d), m, n) = SubSeq(b, m + d, n + d)
<1> DEFINE a == advance(b, d)
           s == SubSeq(a, m, n)
           t == SubSeq(b, m + d, n + d)
<1>1. Len(b) \in Nat
  BY LenProperties DEF Bytes
<1>2. a \in Bytes /\ Len(a) = Len(b) - d /\ \A i \in 1 .. Len(b) - d : a[i] = b[i + d]
  BY Advance
<1> HIDE DEF a
<1>3. \A i \in m .. n : a[i] \in Byte /\ i \in 1 .. Len(b) - d
  BY <1>1, <1>2, ElementOfSeq DEF Bytes
<1>4. /\ s \in Seq(Byte) /\ Len(s) = IF m <= n THEN n - m + 1 ELSE 0
      /\ \A i \in 1 .. n - m + 1 : s[i] = a[m + i - 1]
  BY <1>3, SubSeqProperties
<1>5. \A i \in m + d .. n + d : b[i] \in Byte
  BY <1>1, ElementOfSeq DEF Bytes
<1>6. m + d \in Int /\ n + d \in Int
  BY <1>1
<1>7. /\ t \in Seq(Byte) /\ Len(t) = IF m + d <= n + d THEN (n + d) - (m + d) + 1 ELSE 0
      /\ \A i \in 1 .. (n + d) - (m + d) + 1 : t[i] = b[(m + d) + i - 1]
  BY <1>5, <1>6, SubSeqProperties
<1> HIDE DEF s, t
<1>8. Len(s) = Len(t)
  BY <1>1, <1>4, <1>7
<1>9. ASSUME NEW i \in 1 .. Len(s) PROVE s[i] = t[i]
  <2>1. m <= n /\ i \in 1 .. n - m + 1 /\ i \in 1 .. (n + d) - (m + d) + 1
    BY <1>1, <1>4
  <2>2. m + i - 1 \in 1 .. Len(b) - d
    BY <1>1, <2>1
  <2>3. s[i] = a[m + i - 1] /\ a[m + i - 1] = b[(m + i - 1) + d]
    BY <1>2, <1>4, <2>1, <2>2
  <2>4. t[i] = b[(m + d) + i - 1]
    BY <1>7, <2>1
  <2>5. (m + i - 1) + d = (m + d) + i - 1
    BY <1>1, <2>1
  <2> QED
    BY <2>3, <2>4, <2>5
<1>10. s = t
  BY <1>4, <1>7, <1>8, <1>9, SeqEqual
<1> QED
  BY <1>10 DEF a, s, t

LEMMA AdvanceAgain ==
  ASSUME NEW b \in Bytes, NEW d \in 0 .. Len(b), NEW e \in 0 .. Len(b) - d
  PROVE  advance(advance(b, d), e) = advance(b, d + e)
<1>1. Len(b) \in Nat
  BY LenProperties DEF Bytes
<1>2. Len(advance(b, d)) = Len(b) - d
  BY Advance
<1>3. e + 1 \in Nat /\ e + 1 >= 1 /\ Len(b) - d \in Int /\ Len(b) - d <= Len(b) - d
  BY <1>1
<1>4. SubSeq(advance(b, d), e + 1, Len(b) - d) = SubSeq(b, e + 1 + d, Len(b) - d + d)
  BY <1>3, SubSeqOfAdvance
<1>5. e + 1 + d = d + e + 1 /\ Len(b) - d + d = Len(b)
  BY <1>1
<1> DEFINE a == advance(b, d)
<1>6. advance(a, e) = SubSeq(a, e + 1, Len(a))
  BY DEF advance
<1>7. advance(b, d + e) = SubSeq(b, d + e + 1, Len(b))
  BY DEF advance
<1> HIDE DEF a
<1> QED
  BY <1>2, <1>4, <1>5, <1>6, <1>7 DEF a

LEMMA AdvanceConcat ==
  ASSUME NEW b \in Bytes, NEW x \in Bytes, NEW d \in 0 .. Len(b)
  PROVE  advance(b \o x, d) = advance(b, d) \o x
<1> DEFINE c == b \o x
           s == advance(c, d)
           a == advance(b, d)
           t == a \o x
<1>1. Len(b) \in Nat /\ Len(x) \in Nat
  BY LenProperties DEF Bytes
<1>2. /\ c \in Bytes /\ Len(c) = Len(b) + Len(x)
      /\ \A i \in 1 .. Len(b) + Len(x) : c[i] = IF i <= Len(b) THEN b[i] ELSE x[i - Len(b)]
  BY ConcatProperties DEF Bytes
<1>3. /\ a \in Bytes /\ Len(a) = Len(b) - d
      /\ \A i \in 1 .. Len(b) - d : a[i] = b[i + d]
  BY Advance
<1> HIDE DEF c, a
<1>4. /\ t \in Bytes /\ Len(t) = Len(a) + Len(x)
      /\ \A i \in 1 .. Len(a) + Len(x) : t[i] = IF i <= Len(a) THEN a[i] ELSE x[i - Len(a)]
  BY <1>3, ConcatProperties DEF Bytes
<1>5. d \in 0 .. Len(c)
  BY <1>1, <1>2
<1>6. /\ s \in Bytes /\ Len(s) = Len(c) - d
      /\ \A i \in 1 .. Len(c) - d : s[i] = c[i + d]
  BY <1>2, <1>5, Advance
<1> HIDE DEF s, t
<1>7. Len(s) = Len(t)
  BY <1>1, <1>2, <1>3, <1>4, <1>6
<1>8. ASSUME NEW i \in 1 .. Len(s) PROVE s[i] = t[i]
  <2>1. i \in 1 .. Len(c) - d /\ i + d \in 1 .. Len(b) + Len(x) /\ i \in 1 .. Len(a) + Len(x)
    BY <1>1, <1>2, <1>3, <1>6
  <2>2. s[i] = IF i + d <= Len(b) THEN b[i + d] ELSE x[i + d - Len(b)]
    BY <1>2, <1>6, <2>1
  <2>3. t[i] = IF i <= Len(b) - d THEN b[i + d] ELSE x[i - (Len(b) - d)]
    BY <1>1, <1>3, <1>4, <2>1
  <2>4. /\ i + d <= Len(b) <=> i <= Len(b) - d
        /\ i + d - Len(b) = i - (Len(b) - d)
    BY <1>1, <2>1
  <2> QED
    BY <2>2, <2>3, <2>4
<1>9. s = t
  BY <1>4, <1>6, <1>7, <1>8, SeqEqual DEF Bytes
<1> QED
  BY <1>9 DEF s, t, a, c

\* Headers and items keep their place when bytes before them are dropped.
LEMMA HeadersShift ==
  ASSUME NEW b \in Bytes, NEW d \in 0 .. Len(b), NEW i \in Int, i >= 1
  PROVE  i \in Headers(advance(b, d)) <=> i + d \in Headers(b)
<1> DEFINE a == advance(b, d)
<1>1. Len(b) \in Nat
  BY LenProperties DEF Bytes
<1>2. a \in Bytes /\ Len(a) = Len(b) - d /\ \A k \in 1 .. Len(b) - d : a[k] = b[k + d]
  BY Advance
<1> HIDE DEF a
<1>3. i \in Headers(a) <=>
        /\ 1 <= i /\ i <= Len(a) - 5
        /\ a[i] = 170 /\ a[i + 1] = 204 /\ a[i + 2] = 170 /\ a[i + 3] = 204
  BY <1>2, HeaderIs
<1>4. i + d \in Headers(b) <=>
        /\ 1 <= i + d /\ i + d <= Len(b) - 5
        /\ b[i + d] = 170 /\ b[i + d + 1] = 204 /\ b[i + d + 2] = 170 /\ b[i + d + 3] = 204
  <2>1. i + d \in Int
    BY <1>1
  <2> QED
    BY <2>1, HeaderIs
<1>5. CASE i <= Len(b) - d - 5
  <2>1. i \in 1 .. Len(b) - d /\ i + 1 \in 1 .. Len(b) - d /\ i + 2 \in 1 .. Len(b) - d
        /\ i + 3 \in 1 .. Len(b) - d
    BY <1>1, <1>5
  <2>2. a[i] = b[i + d] /\ a[i + 1] = b[i + 1 + d] /\ a[i + 2] = b[i + 2 + d]
        /\ a[i + 3] = b[i + 3 + d]
    BY <1>2, <2>1
  <2>3. i + 1 + d = i + d + 1 /\ i + 2 + d = i + d + 2 /\ i + 3 + d = i + d + 3
    BY <1>1
  <2>4. /\ 1 <= i /\ i <= Len(a) - 5
        /\ 1 <= i + d /\ i + d <= Len(b) - 5
    BY <1>1, <1>2, <1>5
  <2>5. /\ a[i] = b[i + d] /\ a[i + 1] = b[i + d + 1] /\ a[i + 2] = b[i + d + 2]
        /\ a[i + 3] = b[i + d + 3]
    BY <2>2, <2>3
  <2> QED
    BY <1>3, <1>4, <2>4, <2>5 DEF a
<1>6. CASE ~ (i <= Len(b) - d - 5)
  <2>1. ~ (i <= Len(a) - 5) /\ ~ (i + d <= Len(b) - 5)
    BY <1>1, <1>2, <1>6
  <2> QED
    BY <1>3, <1>4, <2>1, Zenon DEF a
<1> QED
  BY <1>5, <1>6

LEMMA ItemShift ==
  ASSUME NEW b \in Bytes, NEW d \in 0 .. Len(b), NEW i \in Headers(advance(b, d))
  PROVE  /\ ItemAt(advance(b, d), i).item = ItemAt(b, i + d).item
         /\ ItemAt(advance(b, d), i).end + d = ItemAt(b, i + d).end
<1> DEFINE a == advance(b, d)
           n == from_le_bytes(a[i + 4], a[i + 5])
           N == from_le_bytes(b[i + d + 4], b[i + d + 5])
<1>1. Len(b) \in Nat
  BY LenProperties DEF Bytes
<1>2. a \in Bytes /\ Len(a) = Len(b) - d /\ \A k \in 1 .. Len(b) - d : a[k] = b[k + d]
  BY Advance
<1>3. i \in 1 .. Len(a) - 5 /\ Len(a) \in Nat
  BY <1>2, HeadersInside, LenProperties DEF Bytes
<1>4. /\ i + 4 \in 1 .. Len(b) - d /\ i + 5 \in 1 .. Len(b) - d
      /\ i + 4 + d = i + d + 4 /\ i + 5 + d = i + d + 5
  <2> HIDE DEF a
  <2> QED
    BY <1>1, <1>2, <1>3
<1>5. n = N /\ n \in Nat
  <2>1. a[i + 4] = b[i + d + 4] /\ a[i + 5] = b[i + d + 5]
    <3>1. a[i + 4] = b[i + 4 + d] /\ a[i + 5] = b[i + 5 + d]
      <4> HIDE DEF a
      <4> QED
        BY <1>2, <1>4
    <3> QED
      BY <1>4, <3>1
  <2>2. a[i + 4] \in Byte /\ a[i + 5] \in Byte
    <3> HIDE DEF a
    <3> QED
      BY <1>2, <1>3, ElementOfSeq DEF Bytes
  <2>3. n = N
    BY <2>1
  <2>4. n \in Nat
    BY <2>2, FromBytes
  <2> QED
    BY <2>3, <2>4
<1> DEFINE whole(c, k) == [item |-> <<IF checksum(SubSeq(c, k + 6, k + N + 5))
                                         = from_le_bytes(c[k + N + 6], c[k + N + 7])
                                       THEN Ok(SubSeq(c, k + 6, k + N + 5)) ELSE InvalidCRC>>,
                           end |-> k + N + 7]
           at(c, k) == IF TooLong(N) THEN [item |-> <<InvalidLength>>, end |-> k + 5]
                       ELSE IF k + N + 7 > Len(c) THEN [item |-> <<>>, end |-> Len(c)]
                       ELSE whole(c, k)
<1>6. ItemAt(a, i) = at(a, i)
  BY <1>5 DEF ItemAt
<1>7. ItemAt(b, i + d) = at(b, i + d)
  BY DEF ItemAt
<1> HIDE DEF a, n, N
<1>8. CASE TooLong(N)
  <2>1. at(a, i) = [item |-> <<InvalidLength>>, end |-> i + 5]
        /\ at(b, i + d) = [item |-> <<InvalidLength>>, end |-> i + d + 5]
    BY <1>8
  <2>2. /\ at(a, i).item = at(b, i + d).item
        /\ at(a, i).end = i + 5 /\ at(b, i + d).end = i + d + 5
    BY <2>1, Zenon
  <2>3. i + 5 + d = i + d + 5
    BY <1>1, <1>3
  <2> HIDE DEF whole, at
  <2> QED
    BY <1>6, <1>7, <2>2, <2>3 DEF a
<1>9. CASE ~TooLong(N) /\ i + N + 7 > Len(a)
  <2>1. (i + d) + N + 7 > Len(b)
    BY <1>1, <1>2, <1>3, <1>5, <1>9
  <2>2. at(a, i) = [item |-> <<>>, end |-> Len(a)]
        /\ at(b, i + d) = [item |-> <<>>, end |-> Len(b)]
    BY <1>9, <2>1
  <2> QED
    BY <1>1, <1>2, <1>6, <1>7, <2>2 DEF a
<1>10. CASE ~TooLong(N) /\ ~ (i + N + 7 > Len(a))
  <2>1. ~ ((i + d) + N + 7 > Len(b))
    BY <1>1, <1>2, <1>3, <1>5, <1>10
  <2>2. at(a, i) = whole(a, i) /\ at(b, i + d) = whole(b, i + d)
    BY <1>10, <2>1, Zenon
  <2>3. /\ i + 6 \in Nat /\ i + 6 >= 1 /\ i + N + 5 \in Int /\ i + N + 5 <= Len(b) - d
        /\ i + N + 6 \in 1 .. Len(b) - d /\ i + N + 7 \in 1 .. Len(b) - d
        /\ i + 6 + d = (i + d) + 6 /\ i + N + 5 + d = (i + d) + N + 5
        /\ i + N + 6 + d = (i + d) + N + 6 /\ i + N + 7 + d = (i + d) + N + 7
    BY <1>1, <1>2, <1>3, <1>5, <1>10
  <2>4. SubSeq(a, i + 6, i + N + 5) = SubSeq(b, (i + d) + 6, (i + d) + N + 5)
    <3>1. SubSeq(a, i + 6, i + N + 5) = SubSeq(b, i + 6 + d, i + N + 5 + d)
      BY <2>3, SubSeqOfAdvance DEF a
    <3> QED
      BY <2>3, <3>1
  <2>5. a[i + N + 6] = b[(i + d) + N + 6] /\ a[i + N + 7] = b[(i + d) + N + 7]
    <3>1. a[i + N + 6] = b[i + N + 6 + d] /\ a[i + N + 7] = b[i + N + 7 + d]
      BY <1>2, <2>3
    <3> QED
      BY <2>3, <3>1
  <2>6. whole(a, i).item = whole(b, i + d).item
    BY <2>4, <2>5, Zenon
  <2>7. whole(a, i).end = i + N + 7 /\ whole(b, i + d).end = (i + d) + N + 7
    BY Zenon
  <2> HIDE DEF whole, at
  <2> QED
    BY <1>6, <1>7, <2>2, <2>3, <2>6, <2>7 DEF a
<1> QED
  BY <1>8, <1>9, <1>10

\* Bytes before the first start do not matter.
LEMMA DropPrefix ==
  ASSUME NEW b \in Bytes, NEW d \in 0 .. Len(b), \A i \in StartsAt(b) : i > d
  PROVE  Items[b] = Items[advance(b, d)]
<1> DEFINE a == advance(b, d)
<1>1. Len(b) \in Nat /\ a \in Bytes /\ Len(a) = Len(b) - d /\ Len(a) \in Nat
  BY LenProperties, Advance DEF Bytes
<1>2. Headers(b) \subseteq Nat /\ \A i \in Headers(b) : i > d
  BY HeadersInside DEF Headers
<1>3. Headers(a) \subseteq 1 .. Len(a)
  <2> HIDE DEF a
  <2> QED
    BY <1>1, HeadersInside
<1>4. \A i \in Headers(b) : i - d \in Headers(a)
  <2> TAKE i \in Headers(b)
  <2>1. i - d \in Int /\ i - d >= 1 /\ (i - d) + d = i
    BY <1>1, <1>2
  <2> QED
    BY <2>1, HeadersShift
<1>5. \A i \in Headers(a) : i + d \in Headers(b)
  <2> TAKE i \in Headers(a)
  <2>1. i \in Int /\ i >= 1
    BY <1>3
  <2> QED
    BY <2>1, HeadersShift
<1>6. Items[b] = Unfold(Items, b) /\ Items[a] = Unfold(Items, a)
  BY <1>1, ItemsOf
<1>7. CASE Headers(b) = {}
  <2>1. Headers(a) = {}
    BY <1>5, <1>7
  <2>2. FirstItem(b).item = <<>> /\ FirstItem(a).item = <<>>
    BY <1>7, <2>1 DEF FirstItem
  <2> QED
    BY <1>6, <2>2, Zenon DEF Unfold
<1>8. CASE Headers(b) # {}
  <2>1. PICK i \in Headers(b) : (\A j \in Headers(b) : i <= j) /\ FirstItem(b) = ItemAt(b, i)
    BY <1>8, SomeFirst
  <2> DEFINE k == i - d
  <2>2. k \in Headers(a) /\ k + d = i /\ k \in Int
    BY <1>1, <1>2, <1>4, <2>1
  <2>3. \A j \in Headers(a) : k <= j
    <3> TAKE j \in Headers(a)
    <3>1. i <= j + d /\ j \in Int /\ i \in Int
      BY <1>2, <1>3, <1>5, <2>1
    <3> QED
      BY <1>1, <3>1
  <2> HIDE DEF k
  <2>4. FirstItem(a) = ItemAt(a, k)
    <3> HIDE DEF a
    <3> QED
      BY <1>1, <2>2, <2>3, FirstHeader
  <2>5. ItemAt(a, k).item = ItemAt(b, i).item /\ ItemAt(a, k).end + d = ItemAt(b, i).end
    BY <2>2, ItemShift
  <2> DEFINE e == ItemAt(a, k).end
  <2>6. e \in 1 .. Len(a)
    <3> HIDE DEF a
    <3> QED
      BY <1>1, <2>2, ItemAtTyped
  <2>7. advance(a, e) = advance(b, ItemAt(b, i).end)
    <3> HIDE DEF e
    <3>1. e \in 0 .. Len(b) - d /\ d + e = e + d
      BY <1>1, <2>6
    <3>2. advance(a, e) = advance(b, d + e)
      BY <3>1, AdvanceAgain
    <3> QED
      BY <2>5, <3>1, <3>2 DEF e
  <2>8. FirstItem(a).item = FirstItem(b).item
        /\ advance(a, FirstItem(a).end) = advance(b, FirstItem(b).end)
    BY <2>1, <2>4, <2>5, <2>7
  <2> QED
    BY <1>6, <2>8, Zenon DEF Unfold
<1> QED
  BY <1>7, <1>8

-----------------------------------------------------------------------------
(* A call of decode: what it returns and what it leaves stand for the same  *)
(* items, whatever comes next.                                              *)

FrameStates == {Wait} \cup {Frame(n) : n \in 0 .. MAX_PAYLOAD_LEN}

HeaderOf(n) == FRAME_START \o to_le_bytes(n)

LEMMA LimitTyped == MAX_PAYLOAD_LEN \in Nat /\ 0 .. MAX_PAYLOAD_LEN \subseteq U16
BY ConstAssumption, U16Range

\* A run of bytes that is a header and then y.
HeadedBy(b, n, y) ==
  /\ b \in Bytes /\ Len(b) = 6 + Len(y)
  /\ b[1] = 170 /\ b[2] = 204 /\ b[3] = 170 /\ b[4] = 204
  /\ b[5] = n % 256 /\ b[6] = n \div 256
  /\ \A k \in 1 .. Len(y) : b[6 + k] = y[k]

LEMMA HeaderThen ==
  ASSUME NEW n \in U16, NEW y \in Bytes
  PROVE  /\ HeaderOf(n) \in Bytes /\ Len(HeaderOf(n)) = 6
         /\ HeadedBy(HeaderOf(n) \o y, n, y)
<1> DEFINE h == HeaderOf(n)
           t == to_le_bytes(n)
<1>1. t \in Bytes /\ Len(t) = 2
  BY ToBytes
<1> HIDE DEF t
<1>2. /\ h \in Bytes /\ Len(h) = 6
      /\ \A k \in 1 .. 6 : h[k] = IF k <= 4 THEN FRAME_START[k] ELSE t[k - 4]
  <2>1. /\ FRAME_START \o t \in Bytes /\ Len(FRAME_START \o t) = Len(FRAME_START) + Len(t)
        /\ \A k \in 1 .. Len(FRAME_START) + Len(t) :
             (FRAME_START \o t)[k] = IF k <= Len(FRAME_START) THEN FRAME_START[k]
                                     ELSE t[k - Len(FRAME_START)]
    BY <1>1, StartTyped, ConcatProperties DEF Bytes
  <2>2. Len(FRAME_START) + Len(t) = 6 /\ Len(FRAME_START) = 4
    BY <1>1, StartTyped
  <2>3. h = FRAME_START \o t
    BY DEF HeaderOf, t
  <2> HIDE DEF h
  <2> QED
    BY <2>1, <2>2, <2>3
<1> HIDE DEF h
<1>3. h[1] = FRAME_START[1] /\ h[2] = FRAME_START[2] /\ h[3] = FRAME_START[3]
      /\ h[4] = FRAME_START[4] /\ h[5] = t[1] /\ h[6] = t[2]
  BY <1>2
<1>4. FRAME_START[1] = 170 /\ FRAME_START[2] = 204 /\ FRAME_START[3] = 170 /\ FRAME_START[4] = 204
  BY DEF FRAME_START
<1>5. Len(y) \in Nat
  BY LenProperties DEF Bytes
<1>6. /\ h \o y \in Bytes /\ Len(h \o y) = 6 + Len(y)
      /\ \A k \in 1 .. 6 + Len(y) : (h \o y)[k] = IF k <= 6 THEN h[k] ELSE y[k - 6]
  <2>1. h \in Seq(Byte) /\ y \in Seq(Byte) /\ Len(h) = 6
    BY <1>2 DEF Bytes
  <2>2. /\ h \o y \in Seq(Byte) /\ Len(h \o y) = Len(h) + Len(y)
        /\ \A k \in 1 .. Len(h) + Len(y) :
             (h \o y)[k] = IF k <= Len(h) THEN h[k] ELSE y[k - Len(h)]
    BY <2>1, ConcatProperties, Zenon
  <2> DEFINE c == h \o y
  <2> HIDE DEF c
  <2>3. /\ c \in Seq(Byte) /\ Len(c) = 6 + Len(y)
        /\ \A k \in 1 .. 6 + Len(y) : c[k] = IF k <= 6 THEN h[k] ELSE y[k - 6]
    BY <2>1, <2>2 DEF c
  <2> QED
    BY <2>3 DEF c, Bytes
<1> DEFINE c == h \o y
<1> HIDE DEF c
<1>7. /\ \A k \in 1 .. 6 : c[k] = h[k]
      /\ \A k \in 1 .. Len(y) : c[6 + k] = y[k]
  <2>1. \A k \in 1 .. 6 : k \in 1 .. 6 + Len(y) /\ k <= 6
    BY <1>5
  <2>2. \A k \in 1 .. Len(y) : 6 + k \in 1 .. 6 + Len(y) /\ ~ (6 + k <= 6) /\ 6 + k - 6 = k
    BY <1>5
  <2>3. \A k \in 1 .. 6 + Len(y) : c[k] = IF k <= 6 THEN h[k] ELSE y[k - 6]
    BY <1>6 DEF c
  <2>4. ASSUME NEW k \in 1 .. Len(y) PROVE c[6 + k] = y[k]
    <3>1. c[6 + k] = y[6 + k - 6]
      BY <2>2, <2>3
    <3> QED
      BY <2>2, <3>1
  <2> QED
    BY <2>1, <2>3, <2>4
<1>8. c[1] = h[1] /\ c[2] = h[2] /\ c[3] = h[3] /\ c[4] = h[4] /\ c[5] = h[5] /\ c[6] = h[6]
  BY <1>7
<1>9. t[1] = n % 256 /\ t[2] = n \div 256
  BY DEF to_le_bytes, t
<1>10. c \in Bytes /\ Len(c) = 6 + Len(y)
  BY <1>6 DEF c
<1>11. HeadedBy(c, n, y)
  BY <1>3, <1>4, <1>7, <1>8, <1>9, <1>10 DEF HeadedBy
<1> QED
  BY <1>2, <1>11 DEF c, h

\* It is the first header, and says n.
LEMMA HeaderFirst ==
  ASSUME NEW n \in U16, NEW y \in Bytes, NEW b, HeadedBy(b, n, y)
  PROVE  /\ FirstItem(b) = ItemAt(b, 1)
         /\ from_le_bytes(b[5], b[6]) = n
         /\ advance(b, 6) = y
<1>1. /\ b \in Bytes /\ Len(b) = 6 + Len(y)
      /\ b[1] = 170 /\ b[2] = 204 /\ b[3] = 170 /\ b[4] = 204
      /\ b[5] = n % 256 /\ b[6] = n \div 256
      /\ \A k \in 1 .. Len(y) : b[6 + k] = y[k]
  BY DEF HeadedBy
<1>2. Len(y) \in Nat
  BY LenProperties DEF Bytes
<1>3. 1 \in Headers(b)
  <2>1. \A i \in Int : i \in Headers(b) <=>
          /\ 1 <= i /\ i <= Len(b) - 5
          /\ b[i] = 170 /\ b[i + 1] = 204 /\ b[i + 2] = 170 /\ b[i + 3] = 204
    <3>1. b \in Bytes
      BY <1>1
    <3> QED
      BY <3>1, HeaderIs, SMTT(30)
  <2> QED
    BY <1>1, <1>2, <2>1
<1>4. \A j \in Headers(b) : 1 <= j
  BY <1>1, HeadersInside
<1>5. FirstItem(b) = ItemAt(b, 1)
  BY <1>1, <1>3, <1>4, FirstHeader
<1>6. from_le_bytes(b[5], b[6]) = n
  BY <1>1, ToBytes
<1>7. advance(b, 6) = y
  <2>1. \A d \in 0 .. Len(b) :
          /\ advance(b, d) \in Bytes /\ Len(advance(b, d)) = Len(b) - d
          /\ \A k \in 1 .. Len(b) - d : advance(b, d)[k] = b[k + d]
    BY <1>1, Advance, SMTT(30)
  <2>2. 6 \in 0 .. Len(b)
    BY <1>1, <1>2
  <2> DEFINE a == advance(b, 6)
  <2> HIDE DEF a
  <2>3. a \in Bytes /\ Len(a) = Len(y) /\ \A k \in 1 .. Len(a) : a[k] = b[k + 6] /\ k + 6 = 6 + k
    BY <1>1, <1>2, <2>1, <2>2 DEF a
  <2>4. \A k \in 1 .. Len(a) : a[k] = y[k]
    BY <1>1, <2>3
  <2>5. a = y
    BY <2>3, <2>4, SeqEqual DEF Bytes
  <2> QED
    BY <2>5 DEF a
<1> QED
  BY <1>5, <1>6, <1>7

LEMMA PrefixOfConcat ==
  ASSUME NEW s \in Bytes, NEW t \in Bytes, NEW n \in 0 .. Len(s)
  PROVE  SubSeq(s \o t, 1, n) = SubSeq(s, 1, n)
<1>1. CASE n = 0
  <2>1. SubSeq(s \o t, 1, 0) = <<>> /\ SubSeq(s, 1, 0) = <<>>
    BY SubSeqEmpty
  <2> QED
    BY <1>1, <2>1
<1>2. CASE n # 0
  <2>1. Len(s) \in Nat
    BY LenProperties DEF Bytes
  <2>2. 1 \in 1 .. Len(s) /\ n \in 1 .. Len(s)
    BY <1>2, <2>1
  <2> QED
    BY <2>2, SubSeqOfConcat1 DEF Bytes
<1> QED
  BY <1>1, <1>2

\* What a result of decode must be, for the items to be what they were.
Means(r, b) ==
  /\ r.state \in FrameStates /\ r.src \in Bytes /\ r.items \in Seq(Item)
  /\ \A x \in Bytes : Items[b \o x] = r.items \o Items[HeldIn(r.state, r.src) \o x]

LEMMA HeldTyped ==
  ASSUME NEW st \in FrameStates, NEW buf \in Bytes
  PROVE  HeldIn(st, buf) \in Bytes
<1>1. CASE st = Wait
  <2>1. HeldIn(st, buf) = <<>> \o buf
    BY <1>1 DEF HeldIn, Wait
  <2> QED
    BY <2>1, ConcatEmptySeq DEF Bytes
<1>2. ASSUME NEW n \in 0 .. MAX_PAYLOAD_LEN, st = Frame(n) PROVE HeldIn(st, buf) \in Bytes
  <2>1. n \in U16
    BY LimitTyped
  <2>2. HeldIn(st, buf) = HeaderOf(n) \o buf
    BY <1>2 DEF HeldIn, Frame, HeaderOf
  <2> QED
    BY <2>1, <2>2, HeaderThen DEF HeadedBy
<1> QED
  BY <1>1, <1>2 DEF FrameStates

LEMMA HeldInWait ==
  ASSUME NEW buf \in Bytes
  PROVE  HeldIn(Wait, buf) = buf
<1>1. HeldIn(Wait, buf) = <<>> \o buf
  BY DEF HeldIn, Wait
<1> QED
  BY <1>1, ConcatEmptySeq DEF Bytes

\* A result without an item means what it leaves.
LEMMA MeansNothing ==
  ASSUME NEW st \in FrameStates, NEW buf \in Bytes, NEW b \in Bytes,
         \A x \in Bytes : Items[b \o x] = Items[HeldIn(st, buf) \o x]
  PROVE  Means(Result(st, buf, <<>>), b)
<1> DEFINE r == Result(st, buf, <<>>)
<1>1. r.state = st /\ r.src = buf /\ r.items = <<>>
  BY DEF Result
<1> HIDE DEF r
<1>2. ASSUME NEW x \in Bytes PROVE Items[b \o x] = r.items \o Items[HeldIn(r.state, r.src) \o x]
  <2>1. HeldIn(st, buf) \o x \in Bytes
    BY HeldTyped, ConcatProperties DEF Bytes
  <2>2. Items[HeldIn(st, buf) \o x] \in Seq(Item)
    BY <2>1, ItemsTyped
  <2>3. <<>> \o Items[HeldIn(st, buf) \o x] = Items[HeldIn(st, buf) \o x]
    BY <2>2, ConcatEmptySeq
  <2> QED
    BY <1>1, <2>3
<1>3. <<>> \in Seq(Item)
  BY EmptySeq
<1> QED
  BY <1>1, <1>2, <1>3 DEF Means, r

\* One with an item leaves the line at its end.
LEMMA MeansItem ==
  ASSUME NEW z \in Item, NEW buf \in Bytes, NEW b \in Bytes,
         \A x \in Bytes : Items[b \o x] = <<z>> \o Items[buf \o x]
  PROVE  Means(Result(Wait, buf, <<z>>), b)
<1> DEFINE r == Result(Wait, buf, <<z>>)
<1>1. r.state = Wait /\ r.src = buf /\ r.items = <<z>>
  BY DEF Result
<1> HIDE DEF r
<1>2. HeldIn(Wait, buf) = buf
  BY HeldInWait
<1>3. Wait \in FrameStates /\ <<z>> \in Seq(Item)
  BY DEF FrameStates
<1> QED
  BY <1>1, <1>2, <1>3 DEF Means, r

\* The codec waits for the rest of a frame, or takes it.
LEMMA FrameMeans ==
  ASSUME NEW n \in 0 .. MAX_PAYLOAD_LEN, NEW buf \in Bytes
  PROVE  Means(decode_frame(n, buf), HeldIn(Frame(n), buf))
<1> DEFINE b == HeldIn(Frame(n), buf)
<1>1. Frame(n) \in FrameStates
  BY DEF FrameStates
<1>2. b \in Bytes
  BY <1>1, HeldTyped
<1>3. n \in U16 /\ n \in Nat /\ ~TooLong(n)
  BY LimitTyped DEF TooLong
<1>4. b = HeaderOf(n) \o buf
  BY DEF HeldIn, Frame, HeaderOf
<1> HIDE DEF b
<1>5. CASE ~HaveFrame(n, buf)
  <2>1. decode_frame(n, buf) = Result(Frame(n), buf, <<>>)
    BY <1>5 DEF decode_frame
  <2> QED
    BY <1>1, <1>2, <2>1, MeansNothing DEF b
<1>6. CASE HaveFrame(n, buf)
  <2> DEFINE data == SubSeq(buf, 1, n)
             crc == from_le_bytes(buf[n + 1], buf[n + 2])
             rest == advance(buf, n + 2)
             z == Checked(data, crc)
  <2>1. Len(buf) \in Nat /\ Len(buf) >= n + 2
    BY <1>6, LenProperties DEF HaveFrame, CRC_LEN, Bytes
  <2>2. decode_frame(n, buf) = Result(Wait, rest, <<z>>)
    BY <1>6 DEF decode_frame, CRC_LEN
  <2>3. rest \in Bytes
    <3>1. n + 2 \in 0 .. Len(buf)
      BY <1>3, <2>1
    <3> QED
      BY <3>1, Advance
  <2>4. z \in Item
    <3>1. \A k \in 1 .. n : buf[k] \in Byte
      BY <1>3, <2>1, ElementOfSeq DEF Bytes
    <3>2. 1 \in Int /\ n \in Int
      BY <1>3
    <3>3. data \in Seq(Byte)
      BY <3>1, <3>2, SubSeqProperties
    <3> HIDE DEF data, crc
    <3>4. Ok(data) \in Item /\ InvalidCRC \in Item
      BY <3>3 DEF Item, Ok
    <3> QED
      BY <3>4 DEF Checked
  <2>5. ASSUME NEW x \in Bytes PROVE Items[b \o x] = <<z>> \o Items[rest \o x]
    <3> DEFINE y == buf \o x
               c == HeaderOf(n) \o y
    <3>1. b \o x = c
      <4>1. HeaderOf(n) \in Seq(Byte) /\ buf \in Seq(Byte) /\ x \in Seq(Byte)
        BY <1>3, HeaderThen, EmptySeq DEF Bytes
      <4>2. (HeaderOf(n) \o buf) \o x = HeaderOf(n) \o (buf \o x)
        BY <4>1, ConcatAssociative
      <4> QED
        BY <1>4, <4>2
    <3>2. /\ y \in Bytes /\ Len(y) = Len(buf) + Len(x)
          /\ \A k \in 1 .. Len(buf) + Len(x) : y[k] = IF k <= Len(buf) THEN buf[k] ELSE x[k - Len(buf)]
      BY ConcatProperties DEF Bytes
    <3>3. Len(x) \in Nat
      BY LenProperties DEF Bytes
    <3>4. SubSeq(y, 1, n) = data
      <4>1. n \in 0 .. Len(buf)
        BY <1>3, <2>1
      <4> QED
        BY <4>1, PrefixOfConcat
    <3>5. rest \o x = advance(y, n + 2)
      <4>1. n + 2 \in 0 .. Len(buf)
        BY <1>3, <2>1
      <4> QED
        BY <4>1, AdvanceConcat
    <3> HIDE DEF y, data, rest
    <3>6. HeadedBy(c, n, y)
      BY <1>3, <3>2, HeaderThen
    <3> HIDE DEF c
    <3>7. /\ c \in Bytes /\ Len(c) = 6 + Len(y) /\ \A k \in 1 .. Len(y) : c[6 + k] = y[k]
          /\ FirstItem(c) = ItemAt(c, 1) /\ from_le_bytes(c[5], c[6]) = n /\ advance(c, 6) = y
      <4>1. FirstItem(c) = ItemAt(c, 1) /\ from_le_bytes(c[5], c[6]) = n /\ advance(c, 6) = y
        BY <1>3, <3>2, <3>6, HeaderFirst
      <4> QED
        BY <3>6, <4>1 DEF HeadedBy
    <3>8. y[n + 1] = buf[n + 1] /\ y[n + 2] = buf[n + 2]
      <4>1. n + 1 \in 1 .. Len(buf) + Len(x) /\ n + 1 <= Len(buf)
            /\ n + 2 \in 1 .. Len(buf) + Len(x) /\ n + 2 <= Len(buf)
        BY <1>3, <2>1, <3>3
      <4> QED
        BY <3>2, <4>1
    <3>9. c[n + 7] = buf[n + 1] /\ c[n + 8] = buf[n + 2]
      <4>1. n + 1 \in 1 .. Len(y) /\ n + 2 \in 1 .. Len(y)
            /\ 6 + (n + 1) = n + 7 /\ 6 + (n + 2) = n + 8
        BY <1>3, <2>1, <3>2, <3>3
      <4>2. c[6 + (n + 1)] = y[n + 1] /\ c[6 + (n + 2)] = y[n + 2]
        BY <3>7, <4>1
      <4> QED
        BY <3>8, <4>1, <4>2
    <3>10. SubSeq(c, 7, n + 6) = data
      <4>1. 6 \in 0 .. Len(c) /\ 1 \in Nat /\ 1 >= 1 /\ n \in Int /\ n <= Len(c) - 6
            /\ 1 + 6 = 7
        BY <1>3, <2>1, <3>2, <3>3, <3>7
      <4>2. SubSeq(advance(c, 6), 1, n) = SubSeq(c, 1 + 6, n + 6)
        BY <3>7, <4>1, SubSeqOfAdvance
      <4> QED
        BY <3>4, <3>7, <4>1, <4>2
    <3>11. ItemAt(c, 1) = [item |-> <<z>>, end |-> n + 8]
      <4>1. /\ ~ (1 + n + 7 > Len(c)) /\ 1 + 4 = 5 /\ 1 + 5 = 6 /\ 1 + 6 = 7 /\ 1 + n + 5 = n + 6
            /\ 1 + n + 6 = n + 7 /\ 1 + n + 7 = n + 8
        BY <1>3, <2>1, <3>2, <3>3, <3>7
      <4>2. z = IF checksum(data) = crc THEN Ok(data) ELSE InvalidCRC
        BY DEF Checked
      <4>3. from_le_bytes(c[n + 7], c[n + 8]) = crc
        BY <3>9
      <4> HIDE DEF crc, z
      <4>4. ItemAt(c, 1) = [item |-> <<IF checksum(SubSeq(c, 1 + 6, 1 + n + 5))
                                            = from_le_bytes(c[1 + n + 6], c[1 + n + 7])
                                       THEN Ok(SubSeq(c, 1 + 6, 1 + n + 5)) ELSE InvalidCRC>>,
                            end |-> 1 + n + 7]
        <5>1. from_le_bytes(c[1 + 4], c[1 + 5]) = n
          BY <3>7, <4>1
        <5> QED
          BY <1>3, <4>1, <5>1, Zenon DEF ItemAt
      <4>5. checksum(SubSeq(c, 1 + 6, 1 + n + 5)) = checksum(data)
            /\ SubSeq(c, 1 + 6, 1 + n + 5) = data
            /\ from_le_bytes(c[1 + n + 6], c[1 + n + 7]) = crc
        BY <3>10, <4>1, <4>3
      <4>6. ItemAt(c, 1) = [item |-> <<IF checksum(data) = crc THEN Ok(data) ELSE InvalidCRC>>,
                            end |-> 1 + n + 7]
        BY <4>4, <4>5
      <4> QED
        BY <4>1, <4>2, <4>6
    <3> HIDE DEF z
    <3>12. advance(c, n + 8) = advance(y, n + 2)
      <4>1. 6 \in 0 .. Len(c) /\ n + 2 \in 0 .. Len(c) - 6 /\ 6 + (n + 2) = n + 8
        BY <1>3, <2>1, <3>2, <3>3, <3>7
      <4>2. advance(advance(c, 6), n + 2) = advance(c, 6 + (n + 2))
        BY <3>7, <4>1, AdvanceAgain
      <4> QED
        BY <3>7, <4>1, <4>2
    <3>13. FirstItem(c).item = <<z>> /\ FirstItem(c).end = n + 8 /\ <<z>> # <<>>
      BY <3>7, <3>11
    <3>14. Items[c] = Unfold(Items, c)
      BY <3>7, ItemsOf
    <3>15. Items[c] = <<z>> \o Items[advance(c, n + 8)]
      BY <3>13, <3>14, Zenon DEF Unfold
    <3> QED
      BY <3>1, <3>5, <3>12, <3>15
  <2> HIDE DEF z, rest
  <2> QED
    BY <1>2, <2>2, <2>3, <2>4, <2>5, MeansItem DEF b
<1> QED
  BY <1>5, <1>6

\* A start in the buffer stays where it is when more bytes come.
LEMMA StartStays ==
  ASSUME NEW b \in Bytes, NEW x \in Bytes, NEW i \in Int, i <= Len(b) - 3
  PROVE  i \in StartsAt(b \o x) <=> i \in StartsAt(b)
<1> DEFINE c == b \o x
<1>1. Len(b) \in Nat /\ Len(x) \in Nat
  BY LenProperties DEF Bytes
<1>2. /\ c \in Bytes /\ Len(c) = Len(b) + Len(x)
      /\ \A k \in 1 .. Len(b) + Len(x) : c[k] = IF k <= Len(b) THEN b[k] ELSE x[k - Len(b)]
  BY ConcatProperties DEF Bytes
<1> HIDE DEF c
<1>3. CASE 1 <= i
  <2>1. \A k \in {i, i + 1, i + 2, i + 3} : k \in 1 .. Len(b) + Len(x) /\ k <= Len(b)
    BY <1>1, <1>3
  <2>2. c[i] = b[i] /\ c[i + 1] = b[i + 1] /\ c[i + 2] = b[i + 2] /\ c[i + 3] = b[i + 3]
    BY <1>2, <2>1
  <2>3. i \in 1 .. Len(b) - 3 /\ i \in 1 .. Len(c) - 3
    BY <1>1, <1>2, <1>3
  <2>4. i \in StartsAt(c) <=> c[i] = 170 /\ c[i + 1] = 204 /\ c[i + 2] = 170 /\ c[i + 3] = 204
    BY <1>2, <2>3, StartBytes, SMTT(30)
  <2>5. i \in StartsAt(b) <=> b[i] = 170 /\ b[i + 1] = 204 /\ b[i + 2] = 170 /\ b[i + 3] = 204
    BY <2>3, StartBytes
  <2> QED
    BY <2>2, <2>4, <2>5 DEF c
<1>4. CASE ~ (1 <= i)
  <2>1. i \notin 1 .. Len(b) - 3 /\ i \notin 1 .. Len(c) - 3
    BY <1>1, <1>2, <1>4
  <2>2. i \notin StartsAt(c) /\ i \notin StartsAt(b)
    BY <1>2, <2>1, StartBytes
  <2> QED
    BY <2>2 DEF c
<1> QED
  BY <1>3, <1>4

\* A buffer that begins with a start.
LEMMA HeaderMeans ==
  ASSUME NEW b \in Bytes, 1 \in StartsAt(b)
  PROVE  Means(decode_header(b), b)
<1>1. Len(b) \in Nat
  BY LenProperties DEF Bytes
<1>2. b[1] = 170 /\ b[2] = 204 /\ b[3] = 170 /\ b[4] = 204
  <2>1. \A i \in Int : i \in StartsAt(b) =>
          b[i] = 170 /\ b[i + 1] = 204 /\ b[i + 2] = 170 /\ b[i + 3] = 204
    BY StartBytes
  <2> QED
    BY <2>1
<1>3. Wait \in FrameStates
  BY DEF FrameStates
<1>4. CASE ~HaveHeader(b)
  <2>1. decode_header(b) = Result(Wait, b, <<>>)
    BY <1>4, Zenon DEF decode_header
  <2>2. HeldIn(Wait, b) = b
    BY HeldInWait
  <2> QED
    BY <1>3, <2>1, <2>2, MeansNothing
<1>5. CASE HaveHeader(b)
  <2> DEFINE rest == advance(b, 6)
             n == from_le_bytes(b[5], b[6])
  <2>1. Len(b) >= 6
    BY <1>5 DEF HaveHeader, FRAME_HEADER_LEN
  <2>2. b[5] \in Byte /\ b[6] \in Byte
    BY <1>1, <2>1, ElementOfSeq DEF Bytes
  <2>3. n \in Nat /\ to_le_bytes(n) = <<b[5], b[6]>>
    BY <2>2, FromBytes
  <2>4. 6 \in 0 .. Len(b)
    BY <1>1, <2>1
  <2>5. /\ rest \in Bytes /\ Len(rest) = Len(b) - 6
        /\ \A k \in 1 .. Len(b) - 6 : rest[k] = b[k + 6]
    BY <2>4, Advance, Zenon
  <2>6. frame_len(b) = n
    BY DEF frame_len
  <2> HIDE DEF n
  <2>7. CASE TooLong(n)
    <3>1. decode_header(b) = Result(Wait, rest, <<InvalidLength>>)
      BY <1>5, <2>6, <2>7, Zenon DEF decode_header, FRAME_HEADER_LEN
    <3> HIDE DEF rest
    <3>2. ASSUME NEW x \in Bytes PROVE Items[b \o x] = <<InvalidLength>> \o Items[rest \o x]
      <4> DEFINE c == b \o x
      <4>1. Len(x) \in Nat
        BY LenProperties DEF Bytes
      <4>2. /\ c \in Bytes /\ Len(c) = Len(b) + Len(x)
            /\ \A k \in 1 .. Len(b) + Len(x) : c[k] = IF k <= Len(b) THEN b[k] ELSE x[k - Len(b)]
        BY ConcatProperties DEF Bytes
      <4>3. advance(c, 6) = rest \o x
        BY <2>4, AdvanceConcat DEF rest
      <4> HIDE DEF c
      <4>4. 1 \in StartsAt(c)
        <5>1. 1 \in Int /\ 1 <= Len(b) - 3
          BY <1>1, <2>1
        <5> QED
          BY <5>1, StartStays DEF c
      <4>5. 1 \in Headers(c)
        BY <1>1, <2>1, <4>1, <4>2, <4>4 DEF Headers, FRAME_HEADER_LEN
      <4>6. \A j \in Headers(c) : 1 <= j
        BY <4>2, HeadersInside
      <4>7. FirstItem(c) = ItemAt(c, 1)
        BY <4>2, <4>5, <4>6, FirstHeader
      <4>8. c[5] = b[5] /\ c[6] = b[6]
        <5>1. 5 \in 1 .. Len(b) + Len(x) /\ 5 <= Len(b) /\ 6 \in 1 .. Len(b) + Len(x) /\ 6 <= Len(b)
          BY <1>1, <2>1, <4>1
        <5> QED
          BY <4>2, <5>1
      <4>9. ItemAt(c, 1) = [item |-> <<InvalidLength>>, end |-> 6]
        <5>1. 1 + 4 = 5 /\ 1 + 5 = 6
          OBVIOUS
        <5>2. from_le_bytes(c[1 + 4], c[1 + 5]) = n
          BY <4>8, <5>1 DEF n
        <5>3. ItemAt(c, 1) = [item |-> <<InvalidLength>>, end |-> 1 + 5]
          BY <2>7, <5>2, Zenon DEF ItemAt
        <5> QED
          BY <5>1, <5>3
      <4>10. FirstItem(c).item = <<InvalidLength>> /\ FirstItem(c).end = 6
             /\ <<InvalidLength>> # <<>>
        BY <4>7, <4>9
      <4>11. Items[c] = Unfold(Items, c)
        BY <4>2, ItemsOf
      <4>12. Items[c] = <<InvalidLength>> \o Items[advance(c, 6)]
        BY <4>10, <4>11, Zenon DEF Unfold
      <4> QED
        BY <4>3, <4>12 DEF c
    <3>3. InvalidLength \in Item
      BY DEF Item
    <3> QED
      BY <2>5, <3>1, <3>2, <3>3, MeansItem DEF rest
  <2>8. CASE ~TooLong(n)
    <3>1. n \in 0 .. MAX_PAYLOAD_LEN /\ n \in U16
      BY <2>3, <2>8, LimitTyped DEF TooLong
    <3>2. Frame(n) \in FrameStates
      BY <3>1 DEF FrameStates
    <3>3. decode_header(b) = Result(Frame(n), rest, <<>>)
      BY <1>5, <2>6, <2>8, Zenon DEF decode_header, FRAME_HEADER_LEN
    <3> DEFINE h == HeaderOf(n) \o rest
    <3>4. HeldIn(Frame(n), rest) = h
      BY DEF HeldIn, Frame, HeaderOf
    <3> HIDE DEF rest
    <3>5. HeadedBy(h, n, rest)
      BY <2>5, <3>1, HeaderThen
    <3> HIDE DEF h
    <3>6. b[5] = n % 256 /\ b[6] = n \div 256
      BY <2>3 DEF to_le_bytes
    <3>7. h = b
      <4>1. h \in Bytes /\ Len(h) = 6 + Len(rest)
            /\ h[1] = b[1] /\ h[2] = b[2] /\ h[3] = b[3] /\ h[4] = b[4] /\ h[5] = b[5] /\ h[6] = b[6]
            /\ \A k \in 1 .. Len(rest) : h[6 + k] = rest[k]
        BY <1>2, <3>5, <3>6 DEF HeadedBy
      <4>2. Len(h) = Len(b)
        BY <1>1, <2>5, <4>1 DEF rest
      <4>3. ASSUME NEW k \in 1 .. Len(h) PROVE h[k] = b[k]
        <5>1. CASE k <= 6
          BY <4>1, <5>1
        <5>2. CASE k > 6
          <6>1. k - 6 \in 1 .. Len(b) - 6 /\ 6 + (k - 6) = k /\ (k - 6) + 6 = k
            BY <1>1, <4>2, <5>2
          <6>2. h[6 + (k - 6)] = rest[k - 6] /\ rest[k - 6] = b[(k - 6) + 6]
            BY <2>5, <4>1, <6>1 DEF rest
          <6> QED
            BY <6>1, <6>2
        <5> QED
          BY <5>1, <5>2
      <4> QED
        BY <4>1, <4>2, <4>3, SeqEqual DEF Bytes
    <3> QED
      BY <2>5, <3>2, <3>3, <3>4, <3>7, MeansNothing DEF rest
  <2> QED
    BY <2>7, <2>8
<1> QED
  BY <1>4, <1>5

\* A buffer with a start: what comes before it is dropped.
LEMMA StartMeans ==
  ASSUME NEW b \in Bytes, StartsAt(b) # {}
  PROVE  Means(decode_wait(b), b)
<1> DEFINE i == Min(StartsAt(b))
           s == advance(b, i - 1)
<1>1. Len(b) \in Nat
  BY LenProperties DEF Bytes
<1>2. StartsAt(b) \subseteq 1 .. Len(b) - 3
  BY StartTyped, <1>1 DEF StartsAt
<1>3. i \in StartsAt(b) /\ \A j \in StartsAt(b) : i <= j
  <2>1. \E m \in StartsAt(b) : \A j \in StartsAt(b) : m <= j
    <3>1. StartsAt(b) \in SUBSET Nat
      BY <1>2
    <3> QED
      BY <3>1, LeastOf
  <2> QED
    BY <2>1 DEF Min
<1> HIDE DEF i
<1>4. i \in 1 .. Len(b) - 3 /\ i - 1 \in 0 .. Len(b)
  BY <1>1, <1>2, <1>3
<1>5. /\ s \in Bytes /\ Len(s) = Len(b) - (i - 1)
      /\ \A k \in 1 .. Len(b) - (i - 1) : s[k] = b[k + (i - 1)]
  BY <1>4, Advance
<1> HIDE DEF s
<1>6. 1 \in StartsAt(s)
  <2>1. /\ 1 \in 1 .. Len(b) - (i - 1) /\ 2 \in 1 .. Len(b) - (i - 1)
        /\ 3 \in 1 .. Len(b) - (i - 1) /\ 4 \in 1 .. Len(b) - (i - 1)
        /\ 1 + (i - 1) = i /\ 2 + (i - 1) = i + 1 /\ 3 + (i - 1) = i + 2 /\ 4 + (i - 1) = i + 3
    BY <1>1, <1>4
  <2>2. s[1] = b[i] /\ s[2] = b[i + 1] /\ s[3] = b[i + 2] /\ s[4] = b[i + 3]
    BY <1>5, <2>1
  <2>3. s[1] = 170 /\ s[2] = 204 /\ s[3] = 170 /\ s[4] = 204
    BY <1>3, <1>4, <2>2, StartBytes
  <2>4. 1 \in 1 .. Len(s) - 3
    BY <1>1, <1>4, <1>5
  <2>5. \A k \in Int : k \in StartsAt(s) <=>
          /\ k \in 1 .. Len(s) - 3
          /\ s[k] = 170 /\ s[k + 1] = 204 /\ s[k + 2] = 170 /\ s[k + 3] = 204
    <3> TAKE k \in Int
    <3>1. s \in Bytes
      BY <1>5
    <3> QED
      BY <3>1, StartBytes
  <2> QED
    BY <2>3, <2>4, <2>5
<1>7. Means(decode_header(s), s)
  BY <1>5, <1>6, HeaderMeans
<1>8. ASSUME NEW x \in Bytes PROVE Items[b \o x] = Items[s \o x]
  <2> DEFINE c == b \o x
  <2>1. c \in Bytes /\ Len(c) = Len(b) + Len(x)
    BY ConcatProperties DEF Bytes
  <2>2. Len(x) \in Nat
    BY LenProperties DEF Bytes
  <2>3. advance(c, i - 1) = s \o x
    BY <1>4, AdvanceConcat DEF s
  <2>4. \A j \in StartsAt(c) : j > i - 1
    <3> SUFFICES ASSUME NEW j \in StartsAt(c), ~ (j > i - 1) PROVE FALSE
      OBVIOUS
    <3>1. j \in Int
      BY DEF StartsAt
    <3>2. j <= Len(b) - 3 /\ ~ (i <= j)
      BY <1>1, <1>4, <3>1
    <3>3. j \in StartsAt(b)
      BY <3>1, <3>2, StartStays
    <3> QED
      BY <1>3, <3>2, <3>3
  <2> HIDE DEF c
  <2>5. i - 1 \in 0 .. Len(c)
    BY <1>1, <1>4, <2>1, <2>2
  <2>6. Items[c] = Items[advance(c, i - 1)]
    BY <2>1, <2>4, <2>5, DropPrefix
  <2> QED
    BY <2>3, <2>6 DEF c
<1>9. decode_wait(b) = decode_header(s)
  BY Zenon DEF decode_wait, i, s
<1> DEFINE r == decode_header(s)
<1> HIDE DEF r
<1>10. Means(r, b)
  BY <1>7, <1>8 DEF Means, r
<1> QED
  BY <1>9, <1>10 DEF r

\* A buffer without one: its lines are dropped, and no start begins in them, since a
\* start has no end of line.
LEMMA LinesMean ==
  ASSUME NEW b \in Bytes, StartsAt(b) = {}
  PROVE  Means(decode_wait(b), b)
<1> DEFINE d == Lines(b)
           s == advance(b, d)
<1>1. Len(b) \in Nat
  BY LenProperties DEF Bytes
<1>2. d \in 0 .. Len(b) /\ (d # 0 => b[d] = 10)
  <2> DEFINE S == LinesEnd(b) \cup {0}
  <2>1. S \in SUBSET (0 .. Len(b)) /\ S # {}
    BY <1>1 DEF LinesEnd
  <2>2. \E m \in S : \A k \in S : m >= k
    BY <1>1, <2>1, GreatestOf
  <2>3. d \in S
    BY <2>2 DEF Lines, Max
  <2> QED
    BY <2>1, <2>3 DEF LinesEnd, NewLine
<1>3. decode_wait(b) = Result(Wait, s, <<>>)
  BY Zenon DEF decode_wait
<1> HIDE DEF d
<1>4. s \in Bytes
  BY <1>2, Advance
<1> HIDE DEF s
<1>5. ASSUME NEW x \in Bytes PROVE Items[b \o x] = Items[s \o x]
  <2> DEFINE c == b \o x
  <2>1. /\ c \in Bytes /\ Len(c) = Len(b) + Len(x)
        /\ \A k \in 1 .. Len(b) + Len(x) : c[k] = IF k <= Len(b) THEN b[k] ELSE x[k - Len(b)]
    BY ConcatProperties DEF Bytes
  <2>2. Len(x) \in Nat
    BY LenProperties DEF Bytes
  <2>3. advance(c, d) = s \o x
    BY <1>2, AdvanceConcat DEF s
  <2>4. \A j \in StartsAt(c) : j > d
    <3> SUFFICES ASSUME NEW j \in StartsAt(c), ~ (j > d) PROVE FALSE
      OBVIOUS
    <3>1. j \in Int /\ j >= 1
      BY DEF StartsAt
    <3>2. CASE j <= Len(b) - 3
      BY <3>1, <3>2, StartStays
    <3>3. CASE ~ (j <= Len(b) - 3)
      <4>1. d \in {j, j + 1, j + 2, j + 3} /\ d # 0 /\ d \in 1 .. Len(b) + Len(x) /\ d <= Len(b)
        BY <1>1, <1>2, <2>2, <3>1, <3>3
      <4> HIDE DEF c
      <4>2. c[d] = 10
        BY <1>2, <2>1, <4>1 DEF c
      <4>3. c[j] = 170 /\ c[j + 1] = 204 /\ c[j + 2] = 170 /\ c[j + 3] = 204
        <5>1. c \in Bytes /\ j \in StartsAt(c)
          BY <2>1 DEF c
        <5> QED
          BY <3>1, <5>1, StartBytes
      <4> QED
        BY <4>1, <4>2, <4>3
    <3> QED
      BY <3>2, <3>3
  <2> HIDE DEF c
  <2>5. d \in 0 .. Len(c)
    BY <1>1, <1>2, <2>1, <2>2 DEF c
  <2>6. Items[c] = Items[advance(c, d)]
    BY <2>1, <2>4, <2>5, DropPrefix DEF c
  <2> QED
    BY <2>3, <2>6 DEF c
<1>6. HeldIn(Wait, s) = s /\ Wait \in FrameStates
  BY <1>4, HeldInWait DEF FrameStates
<1> QED
  BY <1>3, <1>4, <1>5, <1>6, MeansNothing

LEMMA DecodeMeans ==
  ASSUME NEW st \in FrameStates, NEW buf \in Bytes
  PROVE  Means(decode(st, buf), HeldIn(st, buf))
<1>1. CASE st = Wait
  <2>1. decode(st, buf) = decode_wait(buf) /\ HeldIn(st, buf) = buf
    BY <1>1, HeldInWait DEF decode, Wait
  <2> QED
    BY <2>1, StartMeans, LinesMean
<1>2. ASSUME NEW n \in 0 .. MAX_PAYLOAD_LEN, st = Frame(n)
      PROVE  Means(decode(st, buf), HeldIn(st, buf))
  <2>1. decode(st, buf) = decode_frame(n, buf)
    BY <1>2 DEF decode, Frame
  <2> QED
    BY <1>2, <2>1, FrameMeans
<1> QED
  BY <1>1, <1>2 DEF FrameStates

-----------------------------------------------------------------------------
(* What the device sends.                                                   *)

\* FlattenSeq, one sequence after the other.
LEMMA FlattenSteps ==
  ASSUME NEW seqs, Len(seqs) \in Nat \ {0}
  PROVE  \E f : /\ f[1] = seqs[1]
                /\ \A i \in 1 .. Len(seqs) - 1 : f[i + 1] = f[i] \o seqs[i + 1]
                /\ FlattenSeq(seqs) = f[Len(seqs)]
<1> DEFINE To(f, n) == f = [i \in 1 .. n |-> IF i = 1 THEN seqs[i] ELSE f[i - 1] \o seqs[i]]
           S == {n \in Nat : \E f : To(f, n)}
           N == Len(seqs)
<1>1. 0 \in S
  <2> DEFINE f == [i \in 1 .. 0 |-> <<>>]
  <2>1. 1 .. 0 = {}
    OBVIOUS
  <2>2. To(f, 0)
    BY <2>1, Zenon
  <2> QED
    BY <2>2
<1>2. ASSUME NEW n \in Nat, n \in S PROVE n + 1 \in S
  <2>1. PICK f : To(f, n)
    BY <1>2
  <2> DEFINE g == [i \in 1 .. n + 1 |-> IF i = 1 THEN seqs[i] ELSE f[i - 1] \o seqs[i]]
  <2>2. ASSUME NEW i \in 1 .. n + 1, i # 1 PROVE f[i - 1] = g[i - 1]
    <3> DEFINE j == i - 1
    <3>1. j \in 1 .. n /\ j \in 1 .. n + 1
      BY <2>2
    <3> HIDE DEF j
    <3>2. f[j] = IF j = 1 THEN seqs[j] ELSE f[j - 1] \o seqs[j]
      BY <2>1, <3>1, Zenon
    <3>3. g[j] = IF j = 1 THEN seqs[j] ELSE f[j - 1] \o seqs[j]
      BY <3>1, Zenon
    <3>4. f[j] = g[j]
      BY <3>2, <3>3, Zenon
    <3> QED
      BY <3>4 DEF j
  <2>3. \A i \in 1 .. n + 1 : (IF i = 1 THEN seqs[i] ELSE f[i - 1] \o seqs[i])
                                = (IF i = 1 THEN seqs[i] ELSE g[i - 1] \o seqs[i])
    <3> HIDE DEF g
    <3> QED
      BY <2>2, Zenon
  <2>4. To(g, n + 1)
    BY <2>3, Zenon
  <2>5. \E h : To(h, n + 1)
    BY <2>4, Zenon
  <2> HIDE DEF To
  <2> QED
    BY <2>5
<1> HIDE DEF S
<1>3. N \in S
  BY <1>1, <1>2, UpInduction
<1>4. \E f : To(f, N)
  BY <1>3 DEF S
<1> DEFINE F == CHOOSE f : To(f, N)
<1>5. To(F, N)
  BY <1>4, Zenon
<1>6. FlattenSeq(seqs) = F[N]
  <2>1. Len(seqs) # 0
    OBVIOUS
  <2> QED
    BY <2>1, Zenon DEF FlattenSeq
<1> HIDE DEF F
<1>7. \A i \in 1 .. N : F[i] = IF i = 1 THEN seqs[i] ELSE F[i - 1] \o seqs[i]
  BY <1>5, Zenon
<1>8. F[1] = seqs[1]
  <2>1. 1 \in 1 .. N
    OBVIOUS
  <2> QED
    BY <1>7, <2>1, Zenon
<1>9. ASSUME NEW i \in 1 .. N - 1 PROVE F[i + 1] = F[i] \o seqs[i + 1]
  <2>1. i + 1 \in 1 .. N /\ i + 1 # 1 /\ (i + 1) - 1 = i
    OBVIOUS
  <2>2. F[i + 1] = F[(i + 1) - 1] \o seqs[i + 1]
    BY <1>7, <2>1, Zenon
  <2> QED
    BY <2>1, <2>2
<1> QED
  BY <1>6, <1>8, <1>9, Zenon

\* What ConstAssumption says of a piece.
Sendable(p) ==
  /\ p \in Piece
  /\ p.kind = "frame" => Encodable(p.bytes) /\ checksum(p.bytes) \in U16
  /\ p.kind = "text" => \A i \in DOMAIN p.bytes : p.bytes[i] # FRAME_START[1]

LEMMA FrameItems ==
  ASSUME NEW item \in Bytes, Encodable(item), checksum(item) \in U16
  PROVE  /\ encode(item) \in Bytes
         /\ \A x \in Bytes : Items[encode(item) \o x] = <<Ok(item)>> \o Items[x]
<1> DEFINE n == Len(item)
           c == checksum(item)
           crc == to_le_bytes(c)
           buf == item \o crc
<1>1. n \in 0 .. MAX_PAYLOAD_LEN /\ n \in Nat /\ n \in U16
  BY LimitTyped, LenProperties DEF Encodable, Bytes
<1>2. crc \in Bytes /\ Len(crc) = 2 /\ from_le_bytes(c % 256, c \div 256) = c
  BY ToBytes
<1>3. crc[1] = c % 256 /\ crc[2] = c \div 256
  BY DEF to_le_bytes
<1> HIDE DEF crc
<1>4. /\ buf \in Bytes /\ Len(buf) = n + 2
      /\ \A k \in 1 .. n + 2 : buf[k] = IF k <= n THEN item[k] ELSE crc[k - n]
  <2>1. item \in Seq(Byte) /\ crc \in Seq(Byte)
    BY <1>2 DEF Bytes
  <2>2. /\ buf \in Seq(Byte) /\ Len(buf) = n + Len(crc)
        /\ \A k \in 1 .. n + Len(crc) : buf[k] = IF k <= n THEN item[k] ELSE crc[k - n]
    BY <2>1, ConcatProperties, Zenon
  <2> HIDE DEF buf
  <2> QED
    BY <1>2, <2>2 DEF Bytes
<1>5. encode(item) = HeldIn(Frame(n), buf)
  <2>1. HeldIn(Frame(n), buf) = HeaderOf(n) \o (item \o crc)
    BY DEF HeldIn, Frame, HeaderOf
  <2>2. HeaderOf(n) \in Seq(Byte) /\ item \in Seq(Byte) /\ crc \in Seq(Byte)
    BY <1>1, <1>2, HeaderThen, EmptySeq DEF Bytes
  <2>3. (HeaderOf(n) \o item) \o crc = HeaderOf(n) \o (item \o crc)
    BY <2>2, ConcatAssociative
  <2>4. encode(item) = (HeaderOf(n) \o item) \o crc
    BY Zenon DEF encode, HeaderOf, crc
  <2> QED
    BY <2>1, <2>3, <2>4
<1>6. SubSeq(buf, 1, n) = item
  <2>1. n \in 0 .. Len(item)
    BY <1>1
  <2>2. SubSeq(buf, 1, n) = SubSeq(item, 1, n)
    BY <1>2, <2>1, PrefixOfConcat
  <2> QED
    BY <2>2, SubSeqFull DEF Bytes
<1> HIDE DEF buf
<1>7. from_le_bytes(buf[n + 1], buf[n + 2]) = c
  <2>1. /\ n + 1 \in 1 .. n + 2 /\ ~ (n + 1 <= n) /\ n + 1 - n = 1
        /\ n + 2 \in 1 .. n + 2 /\ ~ (n + 2 <= n) /\ n + 2 - n = 2
    BY <1>1
  <2>2. buf[n + 1] = crc[n + 1 - n] /\ buf[n + 2] = crc[n + 2 - n]
    BY <1>4, <2>1
  <2> QED
    BY <1>2, <1>3, <2>1, <2>2
<1>8. advance(buf, n + 2) = <<>>
  <2>1. n + 2 + 1 \in Int /\ Len(buf) \in Int /\ Len(buf) < n + 2 + 1
    BY <1>1, <1>4
  <2> QED
    BY <2>1, SubSeqEmpty DEF advance
<1>9. decode_frame(n, buf) = Result(Wait, <<>>, <<Ok(item)>>)
  <2>1. HaveFrame(n, buf)
    BY <1>1, <1>4 DEF HaveFrame, CRC_LEN
  <2>2. decode_frame(n, buf) =
          Result(Wait, advance(buf, n + 2),
                 <<Checked(SubSeq(buf, 1, n), from_le_bytes(buf[n + 1], buf[n + 2]))>>)
    BY <2>1, Zenon DEF decode_frame, CRC_LEN
  <2>3. Checked(item, c) = Ok(item)
    BY DEF Checked
  <2> QED
    BY <1>6, <1>7, <1>8, <2>2, <2>3
<1>10. Means(Result(Wait, <<>>, <<Ok(item)>>), encode(item))
  BY <1>1, <1>4, <1>5, <1>9, FrameMeans
<1>11. HeldIn(Wait, <<>>) = <<>>
  BY HeldInWait, EmptySeq DEF Bytes
<1>12. ASSUME NEW x \in Bytes PROVE Items[encode(item) \o x] = <<Ok(item)>> \o Items[x]
  <2>1. <<>> \o x = x
    BY ConcatEmptySeq DEF Bytes
  <2> DEFINE r == Result(Wait, <<>>, <<Ok(item)>>)
  <2>2. r.state = Wait /\ r.src = <<>> /\ r.items = <<Ok(item)>>
    BY DEF Result
  <2>3. Items[encode(item) \o x] = r.items \o Items[HeldIn(r.state, r.src) \o x]
    BY <1>10, Zenon DEF Means
  <2> HIDE DEF r
  <2> QED
    BY <1>11, <2>1, <2>2, <2>3
<1>13. encode(item) \in Bytes
  <2>1. Frame(n) \in FrameStates
    BY <1>1 DEF FrameStates
  <2> QED
    BY <1>4, <1>5, <2>1, HeldTyped
<1> QED
  BY <1>12, <1>13

\* Text leaves no item and hides none.
LEMMA TextItems ==
  ASSUME NEW w \in Bytes, \A i \in DOMAIN w : w[i] # FRAME_START[1], NEW x \in Bytes
  PROVE  Items[w \o x] = Items[x]
<1> DEFINE c == w \o x
           d == Len(w)
<1>1. d \in Nat /\ Len(x) \in Nat /\ DOMAIN w = 1 .. d
  BY LenProperties DEF Bytes
<1>2. /\ c \in Bytes /\ Len(c) = d + Len(x)
      /\ \A k \in 1 .. d + Len(x) : c[k] = IF k <= d THEN w[k] ELSE x[k - d]
  BY ConcatProperties DEF Bytes
<1>3. advance(c, d) = x
  <2>1. d \in 0 .. Len(w)
    BY <1>1
  <2>2. advance(c, d) = advance(w, d) \o x
    BY <2>1, AdvanceConcat
  <2>3. advance(w, d) = <<>>
    BY <1>1, SubSeqEmpty DEF advance
  <2> QED
    BY <2>2, <2>3, ConcatEmptySeq DEF Bytes
<1> HIDE DEF c
<1>4. \A j \in StartsAt(c) : j > d
  <2> SUFFICES ASSUME NEW j \in StartsAt(c), ~ (j > d) PROVE FALSE
    OBVIOUS
  <2>1. j \in Int /\ j >= 1
    BY DEF StartsAt
  <2>2. j \in 1 .. d /\ j \in 1 .. d + Len(x) /\ j <= d
    BY <1>1, <2>1
  <2>3. c[j] = w[j]
    BY <1>2, <2>2
  <2>4. c[j] = 170
    BY <1>2, <2>1, StartBytes
  <2>5. FRAME_START[1] = 170
    BY DEF FRAME_START
  <2>6. w[j] # FRAME_START[1]
    BY <1>1, <2>2, SMTT(30)
  <2> QED
    BY <2>3, <2>4, <2>5, <2>6
<1>5. d \in 0 .. Len(c)
  BY <1>1, <1>2
<1>6. Items[c] = Items[advance(c, d)]
  BY <1>2, <1>4, <1>5, DropPrefix
<1> QED
  BY <1>3, <1>6 DEF c

\* The bytes of a piece, and the item it is, if any.
BytesOf(p) == IF p.kind = "frame" THEN encode(p.bytes) ELSE p.bytes
ItemOf(p) == IF IsFrame(p) THEN <<Ok(p.bytes)>> ELSE <<>>

LEMMA PieceItems ==
  ASSUME NEW p, Sendable(p)
  PROVE  /\ BytesOf(p) \in Bytes /\ ItemOf(p) \in Seq(Item)
         /\ p.kind # "noise" =>
              \A x \in Bytes : Items[BytesOf(p) \o x] = ItemOf(p) \o Items[x]
<1>1. p.kind \in {"frame", "text", "noise"} /\ p.bytes \in Bytes
  BY DEF Sendable, Piece, Bytes
<1>2. CASE p.kind = "frame"
  <2>1. BytesOf(p) = encode(p.bytes) /\ ItemOf(p) = <<Ok(p.bytes)>>
    BY <1>2 DEF BytesOf, ItemOf, IsFrame
  <2>2. Ok(p.bytes) \in Item
    BY <1>1 DEF Item, Ok, Bytes
  <2>3. ItemOf(p) \in Seq(Item)
    BY <2>1, <2>2
  <2>4. Encodable(p.bytes) /\ checksum(p.bytes) \in U16
    BY <1>2 DEF Sendable
  <2> QED
    BY <1>1, <2>1, <2>3, <2>4, FrameItems
<1>3. CASE p.kind # "frame"
  <2>1. BytesOf(p) = p.bytes /\ ItemOf(p) = <<>>
    BY <1>3 DEF BytesOf, ItemOf, IsFrame
  <2>2. ItemOf(p) \in Seq(Item)
    BY <2>1, EmptySeq
  <2>3. ASSUME p.kind # "noise", NEW x \in Bytes PROVE Items[BytesOf(p) \o x] = ItemOf(p) \o Items[x]
    <3>1. \A i \in DOMAIN p.bytes : p.bytes[i] # FRAME_START[1]
      BY <1>1, <1>3, <2>3 DEF Sendable
    <3>2. Items[p.bytes \o x] = Items[x]
      BY <1>1, <3>1, TextItems
    <3>3. <<>> \o Items[x] = Items[x]
      BY ItemsTyped, ConcatEmptySeq
    <3> QED
      BY <2>1, <3>2, <3>3
  <2> QED
    BY <1>1, <2>1, <2>2, <2>3
<1> QED
  BY <1>2, <1>3

\* The line is bytes, and without noise its items are those of the frames sent.
LEMMA WireItems ==
  ASSUME NEW ps, NEW N \in Nat, DOMAIN ps = 1 .. N, \A k \in 1 .. N : Sendable(ps[k])
  PROVE  /\ Wire(ps) \in Bytes
         /\ (\A k \in DOMAIN ps : ps[k].kind # "noise") => Items[Wire(ps)] = Payloads(ps)
<1> DEFINE W == [k \in DOMAIN ps |-> BytesOf(ps[k])]
           P == [k \in DOMAIN ps |-> ItemOf(ps[k])]
<1>1. Wire(ps) = FlattenSeq(W) /\ Payloads(ps) = FlattenSeq(P)
  BY Zenon DEF Wire, Payloads, BytesOf, ItemOf
<1>2. /\ \A k \in 1 .. N : W[k] \in Bytes /\ P[k] \in Seq(Item)
      /\ \A k \in 1 .. N : W[k] = BytesOf(ps[k]) /\ P[k] = ItemOf(ps[k])
  BY PieceItems
<1>3. W \in Seq(Bytes) /\ Len(W) = N /\ P \in Seq(Seq(Item)) /\ Len(P) = N
  BY <1>2
<1>4. ASSUME NEW b \in Bytes, Len(b) = 0 PROVE Items[b] = <<>>
  <2>1. Headers(b) = {}
    BY <1>4, HeadersInside
  <2>2. FirstItem(b).item = <<>>
    BY <2>1 DEF FirstItem
  <2> QED
    BY <2>2, ItemsOf, Zenon DEF Unfold
<1> HIDE DEF W, P
<1>5. CASE N = 0
  <2>1. FlattenSeq(W) = W /\ FlattenSeq(P) = P
    BY <1>3, <1>5, Zenon DEF FlattenSeq
  <2>2. W = <<>> /\ P = <<>>
    BY <1>3, <1>5
  <2>3. <<>> \in Bytes /\ Len(<<>>) = 0
    BY EmptySeq DEF Bytes
  <2> QED
    BY <1>1, <1>4, <2>1, <2>2, <2>3
<1>6. CASE N # 0
  <2>1. Len(W) \in Nat \ {0} /\ Len(P) \in Nat \ {0}
    BY <1>3, <1>6
  <2>2. PICK f : /\ f[1] = W[1] /\ FlattenSeq(W) = f[N]
                 /\ \A i \in 1 .. N - 1 : f[i + 1] = f[i] \o W[i + 1]
    BY <1>3, <2>1, FlattenSteps
  <2>3. PICK g : /\ g[1] = P[1] /\ FlattenSeq(P) = g[N]
                 /\ \A i \in 1 .. N - 1 : g[i + 1] = g[i] \o P[i + 1]
    BY <1>3, <2>1, FlattenSteps
  <2> DEFINE Clean == \A k \in DOMAIN ps : ps[k].kind # "noise"
             Upto(i) == /\ f[i] \in Bytes /\ g[i] \in Seq(Item)
                        /\ Clean => \A x \in Bytes : Items[f[i] \o x] = g[i] \o Items[x]
             S == {i \in Nat : i \in 1 .. N => Upto(i)}
  <2> HIDE DEF Upto
  <2>4. 0 \in S
    OBVIOUS
  <2>5. ASSUME NEW k \in 1 .. N, Clean, NEW x \in Bytes
        PROVE  Items[W[k] \o x] = P[k] \o Items[x]
    <3>1. Sendable(ps[k]) /\ ps[k].kind # "noise"
      BY <2>5
    <3>2. Items[BytesOf(ps[k]) \o x] = ItemOf(ps[k]) \o Items[x]
      BY <3>1, PieceItems
    <3> QED
      BY <1>2, <3>2
  <2> HIDE DEF Clean
  <2>6. ASSUME NEW i \in Nat, i \in S PROVE i + 1 \in S
    <3> SUFFICES ASSUME i + 1 \in 1 .. N PROVE Upto(i + 1)
      OBVIOUS
    <3>1. CASE i = 0
      <4>1. f[i + 1] = W[1] /\ g[i + 1] = P[1] /\ 1 \in 1 .. N
        BY <1>6, <2>2, <2>3, <3>1
      <4>2. W[1] \in Bytes /\ P[1] \in Seq(Item)
        BY <1>2, <4>1
      <4> QED
        BY <2>5, <4>1, <4>2 DEF Upto
    <3>2. CASE i # 0
      <4>1. i \in 1 .. N - 1 /\ i \in 1 .. N
        BY <3>2
      <4>2. /\ f[i] \in Bytes /\ g[i] \in Seq(Item)
            /\ Clean => \A x \in Bytes : Items[f[i] \o x] = g[i] \o Items[x]
        BY <2>6, <4>1 DEF Upto
      <4>3. f[i + 1] = f[i] \o W[i + 1] /\ g[i + 1] = g[i] \o P[i + 1]
        BY <2>2, <2>3, <4>1
      <4>4. W[i + 1] \in Bytes /\ P[i + 1] \in Seq(Item)
        BY <1>2
      <4>5. f[i + 1] \in Bytes /\ g[i + 1] \in Seq(Item)
        BY <4>2, <4>3, <4>4, ConcatProperties DEF Bytes
      <4>6. ASSUME Clean, NEW x \in Bytes PROVE Items[f[i + 1] \o x] = g[i + 1] \o Items[x]
        <5>1. W[i + 1] \o x \in Bytes
          BY <4>4, ConcatProperties DEF Bytes
        <5>2. f[i + 1] \o x = f[i] \o (W[i + 1] \o x)
          <6>1. (f[i] \o W[i + 1]) \o x = f[i] \o (W[i + 1] \o x)
            BY <4>2, <4>4, JoinBytes, Zenon
          <6> QED
            BY <4>3, <6>1
        <5>3. Items[f[i] \o (W[i + 1] \o x)] = g[i] \o Items[W[i + 1] \o x]
          BY <4>2, <4>6, <5>1
        <5>4. Items[W[i + 1] \o x] = P[i + 1] \o Items[x]
          BY <2>5, <4>6
        <5>5. (g[i] \o P[i + 1]) \o Items[x] = g[i] \o (P[i + 1] \o Items[x])
          <6>1. Items[x] \in Seq(Item)
            BY ItemsTyped
          <6>2. g[i] \in Seq(Item) /\ P[i + 1] \in Seq(Item)
            BY <4>2, <4>4
          <6> QED
            BY <6>1, <6>2, JoinItems, Zenon
        <5> QED
          BY <4>3, <5>2, <5>3, <5>4, <5>5
      <4> QED
        BY <4>5, <4>6 DEF Upto
    <3> QED
      BY <3>1, <3>2
  <2> HIDE DEF S
  <2>7. N \in S
    BY <2>4, <2>6, UpInduction
  <2>8. /\ f[N] \in Bytes /\ g[N] \in Seq(Item)
        /\ Clean => \A x \in Bytes : Items[f[N] \o x] = g[N] \o Items[x]
    <3>1. N \in 1 .. N
      BY <1>6
    <3>2. Upto(N)
      BY <2>7, <3>1 DEF S
    <3> QED
      BY <3>2 DEF Upto
  <2>9. ASSUME Clean PROVE Items[f[N]] = g[N]
    <3>1. <<>> \in Bytes /\ Items[<<>>] = <<>>
      BY <1>4, EmptySeq DEF Bytes
    <3>2. f[N] \o <<>> = f[N] /\ g[N] \o <<>> = g[N]
      BY <2>8, ConcatEmptySeq DEF Bytes
    <3>3. Items[f[N] \o <<>>] = g[N] \o Items[<<>>]
      BY <2>8, <2>9, <3>1
    <3> QED
      BY <3>1, <3>2, <3>3
  <2> QED
    BY <1>1, <2>2, <2>3, <2>8, <2>9 DEF Clean
<1> QED
  BY <1>5, <1>6

-----------------------------------------------------------------------------
(* The line from a piece on.                                               *)

\* Sequences over some set.
JoinedIn(T) ==
  /\ \A a, b \in T : a \o b \in T
  /\ \A a, b, c \in T : (a \o b) \o c = a \o (b \o c)

\* f joins N of them from the left, g all but the first.
JoinedBy(T, f, g, seqs, N) ==
  /\ JoinedIn(T) /\ N \in Nat /\ N >= 2 /\ \A i \in 1 .. N : seqs[i] \in T
  /\ f[1] = seqs[1] /\ \A i \in 1 .. N - 1 : f[i + 1] = f[i] \o seqs[i + 1]
  /\ g[1] = seqs[2] /\ \A i \in 1 .. N - 2 : g[i + 1] = g[i] \o seqs[i + 2]

Behind(T, f, g, seqs, N) == g[N - 1] \in T /\ f[N] = seqs[1] \o g[N - 1]

LEMMA JoinedBehind ==
  ASSUME NEW T, NEW f, NEW g, NEW seqs, NEW N, JoinedBy(T, f, g, seqs, N)
  PROVE  Behind(T, f, g, seqs, N)
<1> USE DEF JoinedIn, JoinedBy, Behind
<1> DEFINE Same(i) == g[i] \in T /\ f[i + 1] = seqs[1] \o g[i]
           I == {i \in Nat : i + 1 \in 1 .. N - 1 => Same(i + 1)}
<1> HIDE DEF Same
<1>1. 0 \in I
  <2>1. 1 \in 1 .. N - 1 /\ 1 + 1 = 2 /\ 0 + 1 = 1 /\ 2 \in 1 .. N
    OBVIOUS
  <2>2. f[1 + 1] = f[1] \o seqs[1 + 1] /\ seqs[2] \in T
    BY <2>1, Zenon
  <2>3. Same(1)
    BY <2>1, <2>2 DEF Same
  <2> QED
    BY <2>1, <2>3
<1>2. ASSUME NEW i \in Nat, i \in I PROVE i + 1 \in I
  <2> SUFFICES ASSUME i + 1 + 1 \in 1 .. N - 1 PROVE Same(i + 1 + 1)
    OBVIOUS
  <2> DEFINE j == i + 1
  <2>1. j \in 1 .. N - 1 /\ j \in 1 .. N - 2 /\ j + 1 \in 1 .. N - 1 /\ j + 2 \in 1 .. N
        /\ j + 1 + 1 = j + 2 /\ 1 \in 1 .. N
    OBVIOUS
  <2>2. Same(j)
    BY <1>2, <2>1
  <2> HIDE DEF j
  <2>3. g[j + 1] = g[j] \o seqs[j + 2] /\ f[j + 1 + 1] = f[j + 1] \o seqs[j + 1 + 1]
    BY <2>1, Zenon
  <2>4. seqs[1] \in T /\ seqs[j + 2] \in T /\ g[j] \in T /\ f[j + 1] = seqs[1] \o g[j]
    BY <2>1, <2>2, Zenon DEF Same
  <2>5. (seqs[1] \o g[j]) \o seqs[j + 2] = seqs[1] \o (g[j] \o seqs[j + 2])
    BY <2>4, Zenon
  <2>6. g[j + 1] \in T
    BY <2>3, <2>4
  <2>7. Same(j + 1)
    BY <2>1, <2>3, <2>4, <2>5, <2>6, Zenon DEF Same
  <2> QED
    BY <2>7 DEF j
<1> HIDE DEF I
<1>3. N - 2 \in Nat /\ N - 2 + 1 = N - 1 /\ N - 1 \in 1 .. N - 1 /\ N - 1 + 1 = N
  OBVIOUS
<1>4. N - 2 \in I
  BY <1>1, <1>2, <1>3, UpInduction
<1>5. Same(N - 1)
  BY <1>3, <1>4 DEF I
<1> QED
  BY <1>3, <1>5 DEF Same

\* FlattenSeq, from the front.
LEMMA FlattenHead ==
  ASSUME NEW S, NEW seqs \in Seq(Seq(S)), seqs # <<>>
  PROVE  /\ FlattenSeq(seqs) = Head(seqs) \o FlattenSeq(Tail(seqs))
         /\ FlattenSeq(seqs) \in Seq(S) /\ FlattenSeq(Tail(seqs)) \in Seq(S)
<1> DEFINE N == Len(seqs)
           rest == Tail(seqs)
           T == Seq(S)
<1>0. JoinedIn(T)
  <2>1. \A a, b \in T : a \o b \in T
    BY ConcatProperties
  <2>2. \A a, b, c \in T : (a \o b) \o c = a \o (b \o c)
    BY ConcatAssociative, SMTT(30)
  <2> QED
    BY <2>1, <2>2 DEF JoinedIn
<1>1. N \in Nat \ {0} /\ \A i \in 1 .. N : seqs[i] \in T
  BY LenProperties, ElementOfSeq, EmptySeq
<1>2. /\ rest \in Seq(Seq(S)) /\ Len(rest) = N - 1
      /\ \A i \in 1 .. N - 1 : rest[i] = seqs[i + 1]
      /\ Head(seqs) = seqs[1]
  BY HeadTailProperties
<1>3. <<>> \in T /\ \A a \in T : a \o <<>> = a
  BY EmptySeq, ConcatEmptySeq
<1> HIDE DEF N, rest, T
<1>4. PICK f : /\ f[1] = seqs[1]
               /\ \A i \in 1 .. N - 1 : f[i + 1] = f[i] \o seqs[i + 1]
               /\ FlattenSeq(seqs) = f[N]
  BY <1>1, FlattenSteps, Zenon DEF N
<1>5. CASE N = 1
  <2>1. rest = <<>>
    BY <1>2, <1>5
  <2>2. FlattenSeq(rest) = <<>>
    BY <2>1 DEF FlattenSeq
  <2>3. seqs[1] \in T /\ seqs[1] \o <<>> = seqs[1]
    BY <1>1, <1>3, <1>5
  <2>4. f[N] = seqs[1] /\ Head(seqs) = seqs[1]
    BY <1>2, <1>4, <1>5
  <2> QED
    BY <1>3, <1>4, <2>2, <2>3, <2>4, Zenon DEF rest, T
<1>6. CASE N # 1
  <2>1. /\ Len(rest) \in Nat \ {0} /\ Len(rest) = N - 1 /\ Len(rest) - 1 = N - 2
        /\ 1 \in 1 .. N - 1 /\ N \in Nat /\ N >= 2 /\ 1 \in 1 .. N
    BY <1>1, <1>2, <1>6
  <2>2. PICK g : /\ g[1] = rest[1]
                 /\ \A i \in 1 .. Len(rest) - 1 : g[i + 1] = g[i] \o rest[i + 1]
                 /\ FlattenSeq(rest) = g[Len(rest)]
    BY <2>1, FlattenSteps, Zenon
  <2>3. g[1] = seqs[2]
    BY <1>2, <2>1, <2>2
  <2>4. ASSUME NEW i \in 1 .. N - 2 PROVE g[i + 1] = g[i] \o seqs[i + 2]
    <3>1. i + 1 \in 1 .. N - 1 /\ i + 1 + 1 = i + 2
      BY <2>1
    <3>2. g[i + 1] = g[i] \o rest[i + 1] /\ rest[i + 1] = seqs[i + 1 + 1]
      BY <1>2, <2>1, <2>2, <3>1, Zenon
    <3> QED
      BY <3>1, <3>2
  <2>5. g[N - 1] \in T /\ f[N] = seqs[1] \o g[N - 1]
    <3>1. JoinedBy(T, f, g, seqs, N)
      BY <1>0, <1>1, <1>4, <2>1, <2>3, <2>4, Zenon DEF JoinedBy
    <3>2. Behind(T, f, g, seqs, N)
      BY <3>1, JoinedBehind, Zenon
    <3> QED
      BY <3>2, Zenon DEF Behind
  <2>6. seqs[1] \in T
    BY <1>1, <2>1
  <2>7. seqs[1] \o g[N - 1] \in T
    BY <1>0, <2>5, <2>6 DEF JoinedIn
  <2> QED
    BY <1>2, <1>4, <2>1, <2>2, <2>5, <2>7, Zenon DEF rest, T
<1> QED
  BY <1>5, <1>6

\* The pieces from the j-th on.
LEMMA LaterStep ==
  ASSUME NEW S, NEW ps \in Seq(S), NEW j \in 1 .. Len(ps)
  PROVE  /\ Later(ps, j) \in Seq(S) /\ Later(ps, j) # <<>>
         /\ Head(Later(ps, j)) = ps[j] /\ Tail(Later(ps, j)) = Later(ps, j + 1)
<1> DEFINE L == Later(ps, j)
<1>1. Len(ps) \in Nat /\ j \in Nat /\ j >= 1
  BY LenProperties
<1>2. Len(ps) \in j .. Len(ps)
  BY <1>1
<1>3. Head(SubSeq(ps, j, Len(ps))) = ps[j]
      /\ Tail(SubSeq(ps, j, Len(ps))) = SubSeq(ps, j + 1, Len(ps))
  BY <1>2, HeadTailOfSubSeq
<1>4. \A i \in j .. Len(ps) : ps[i] \in S
  BY <1>1, ElementOfSeq
<1>5. SubSeq(ps, j, Len(ps)) \in Seq(S)
      /\ Len(SubSeq(ps, j, Len(ps))) = IF j <= Len(ps) THEN Len(ps) - j + 1 ELSE 0
  BY <1>1, <1>4, SubSeqProperties
<1> HIDE DEF L
<1>6. L \in Seq(S) /\ Len(L) = Len(ps) - j + 1
  BY <1>1, <1>5 DEF L, Later
<1>7. L # <<>>
  <2>1. Len(L) # 0
    BY <1>1, <1>6
  <2> QED
    BY <2>1
<1> QED
  BY <1>3, <1>6, <1>7 DEF L, Later

LEMMA LaterEnds ==
  ASSUME NEW S, NEW ps \in Seq(S)
  PROVE  Later(ps, 1) = ps /\ Later(ps, Len(ps) + 1) = <<>>
<1>1. Len(ps) \in Nat
  BY LenProperties
<1>2. SubSeq(ps, 1, Len(ps)) = ps
  BY SubSeqFull
<1>3. SubSeq(ps, Len(ps) + 1, Len(ps)) = <<>>
  BY <1>1, SubSeqEmpty
<1> QED
  BY <1>2, <1>3 DEF Later

\* The bytes of some pieces are those of the first and of the others, and so are the
\* items.
LEMMA WireHead ==
  ASSUME NEW ps \in Seq(Piece), \A k \in 1 .. Len(ps) : Sendable(ps[k]), ps # <<>>
  PROVE  /\ Wire(ps) = BytesOf(Head(ps)) \o Wire(Tail(ps))
         /\ Payloads(ps) = ItemOf(Head(ps)) \o Payloads(Tail(ps))
         /\ Payloads(ps) \in Seq(Item)
         /\ Wire(ps) \in Bytes /\ Wire(Tail(ps)) \in Bytes /\ Payloads(Tail(ps)) \in Seq(Item)
<1> DEFINE N == Len(ps)
           qs == Tail(ps)
           W == [k \in 1 .. N |-> BytesOf(ps[k])]
           P == [k \in 1 .. N |-> ItemOf(ps[k])]
           V == [k \in 1 .. N - 1 |-> BytesOf(qs[k])]
           Q == [k \in 1 .. N - 1 |-> ItemOf(qs[k])]
<1>1. N \in Nat \ {0}
  BY LenProperties, EmptySeq
<1>2. /\ qs \in Seq(Piece) /\ Len(qs) = N - 1 /\ Head(ps) = ps[1]
      /\ \A k \in 1 .. N - 1 : qs[k] = ps[k + 1]
  BY HeadTailProperties
<1>3. DOMAIN ps = 1 .. N /\ DOMAIN qs = 1 .. N - 1
  <2>1. \A s \in Seq(Piece) : DOMAIN s = 1 .. Len(s)
    BY LenProperties
  <2> QED
    BY <1>2, <2>1
<1>4. /\ Wire(ps) = FlattenSeq(W) /\ Payloads(ps) = FlattenSeq(P)
      /\ Wire(qs) = FlattenSeq(V) /\ Payloads(qs) = FlattenSeq(Q)
  <2>1. \A s : /\ Wire(s) = FlattenSeq([k \in DOMAIN s |-> BytesOf(s[k])])
               /\ Payloads(s) = FlattenSeq([k \in DOMAIN s |-> ItemOf(s[k])])
    BY Zenon DEF Wire, Payloads, BytesOf, ItemOf
  <2> QED
    BY <1>3, <2>1, Zenon
<1>5. \A k \in 1 .. N : BytesOf(ps[k]) \in Bytes /\ ItemOf(ps[k]) \in Seq(Item)
  BY PieceItems
<1> HIDE DEF N, qs
<1>6. /\ W \in Seq(Bytes) /\ Len(W) = N /\ P \in Seq(Seq(Item)) /\ Len(P) = N
      /\ \A k \in 1 .. N : W[k] = BytesOf(ps[k]) /\ P[k] = ItemOf(ps[k])
  BY <1>1, <1>5
<1>7. \A k \in 1 .. N - 1 : k + 1 \in 1 .. N
  BY <1>1
<1>8. /\ V \in Seq(Bytes) /\ Len(V) = N - 1 /\ Q \in Seq(Seq(Item)) /\ Len(Q) = N - 1
      /\ \A k \in 1 .. N - 1 : V[k] = BytesOf(ps[k + 1]) /\ Q[k] = ItemOf(ps[k + 1])
  BY <1>1, <1>2, <1>5, <1>7
<1> HIDE DEF W, P, V, Q
<1>9. W # <<>> /\ P # <<>> /\ 1 \in 1 .. N
  BY <1>1, <1>6
<1>10. /\ Tail(W) \in Seq(Bytes) /\ Len(Tail(W)) = N - 1 /\ Head(W) = W[1]
       /\ \A k \in 1 .. N - 1 : Tail(W)[k] = W[k + 1]
  BY <1>6, <1>9, HeadTailProperties
<1>11. /\ Tail(P) \in Seq(Seq(Item)) /\ Len(Tail(P)) = N - 1 /\ Head(P) = P[1]
       /\ \A k \in 1 .. N - 1 : Tail(P)[k] = P[k + 1]
  BY <1>6, <1>9, HeadTailProperties
<1>12. Tail(W) = V
  <2>1. \A k \in 1 .. N - 1 : Tail(W)[k] = V[k]
    BY <1>6, <1>7, <1>8, <1>10, Zenon
  <2> QED
    BY <1>8, <1>10, <2>1, SeqEqual
<1>13. Tail(P) = Q
  <2>1. \A k \in 1 .. N - 1 : Tail(P)[k] = Q[k]
    BY <1>6, <1>7, <1>8, <1>11, Zenon
  <2> QED
    BY <1>8, <1>11, <2>1, SeqEqual
<1>14. /\ FlattenSeq(W) = Head(W) \o FlattenSeq(V)
       /\ FlattenSeq(W) \in Bytes /\ FlattenSeq(V) \in Bytes
  BY <1>6, <1>9, <1>12, FlattenHead DEF Bytes
<1>15. /\ FlattenSeq(P) = Head(P) \o FlattenSeq(Q)
       /\ FlattenSeq(P) \in Seq(Item) /\ FlattenSeq(Q) \in Seq(Item)
  BY <1>6, <1>9, <1>13, FlattenHead
<1>16. Head(W) = BytesOf(Head(ps)) /\ Head(P) = ItemOf(Head(ps))
  BY <1>2, <1>6, <1>9, <1>10, <1>11, Zenon
<1> QED
  BY <1>4, <1>14, <1>15, <1>16, Zenon DEF qs

LEMMA WireNothing == Wire(<<>>) = <<>> /\ Payloads(<<>>) = <<>>
<1>1. DOMAIN <<>> = {} /\ Len(<<>>) = 0
  OBVIOUS
<1>2. [k \in {} |-> BytesOf(<<>>[k])] = <<>> /\ [k \in {} |-> ItemOf(<<>>[k])] = <<>>
  OBVIOUS
<1>3. FlattenSeq(<<>>) = <<>>
  BY <1>1, Zenon DEF FlattenSeq
<1> QED
  BY <1>1, <1>2, <1>3, Zenon DEF Wire, Payloads, BytesOf, ItemOf

-----------------------------------------------------------------------------
(* Where the pieces are.                                                    *)

Sendables(ps) == ps \in Seq(Piece) /\ \A k \in 1 .. Len(ps) : Sendable(ps[k])

\* The bytes before the j-th piece.
Place(ps, j) == Len(Wire(ps)) - Len(Wire(Later(ps, j)))

LEMMA LaterSendable ==
  ASSUME NEW ps, Sendables(ps), NEW j \in 1 .. Len(ps) + 1
  PROVE  Sendables(Later(ps, j))
<1>1. ps \in Seq(Piece) /\ Len(ps) \in Nat
  BY LenProperties DEF Sendables
<1>2. \A i \in j .. Len(ps) : i \in 1 .. Len(ps) /\ ps[i] \in Piece
  BY <1>1, ElementOfSeq
<1>3. j \in Int /\ Len(ps) \in Int
  BY <1>1
<1> DEFINE L == SubSeq(ps, j, Len(ps))
<1>4. /\ L \in Seq(Piece)
      /\ Len(L) = IF j <= Len(ps) THEN Len(ps) - j + 1 ELSE 0
      /\ \A i \in 1 .. Len(ps) - j + 1 : L[i] = ps[j + i - 1]
  BY <1>2, <1>3, SubSeqProperties
<1> HIDE DEF L
<1>5. \A i \in 1 .. Len(L) : i \in 1 .. Len(ps) - j + 1 /\ j + i - 1 \in 1 .. Len(ps)
  BY <1>1, <1>4
<1>6. \A i \in 1 .. Len(L) : Sendable(L[i])
  BY <1>4, <1>5 DEF Sendables
<1> QED
  BY <1>4, <1>6 DEF Sendables, L, Later

LEMMA LaterTyped ==
  ASSUME NEW ps, Sendables(ps), NEW j \in 1 .. Len(ps) + 1
  PROVE  Wire(Later(ps, j)) \in Bytes /\ Payloads(Later(ps, j)) \in Seq(Item)
<1>1. Sendables(Later(ps, j))
  BY LaterSendable
<1>2. CASE Later(ps, j) = <<>>
  BY <1>2, WireNothing, EmptySeq DEF Bytes
<1>3. CASE Later(ps, j) # <<>>
  BY <1>1, <1>3, WireHead DEF Sendables
<1> QED
  BY <1>2, <1>3

\* One piece and those after it.
LEMMA LaterWire ==
  ASSUME NEW ps, Sendables(ps), NEW j \in 1 .. Len(ps)
  PROVE  /\ Wire(Later(ps, j)) = BytesOf(ps[j]) \o Wire(Later(ps, j + 1))
         /\ Payloads(Later(ps, j)) = ItemOf(ps[j]) \o Payloads(Later(ps, j + 1))
<1>1. ps \in Seq(Piece) /\ Len(ps) \in Nat
  BY LenProperties DEF Sendables
<1>2. j \in 1 .. Len(ps) + 1
  BY <1>1
<1>3. Sendables(Later(ps, j))
  BY <1>2, LaterSendable
<1>4. /\ Later(ps, j) # <<>> /\ Head(Later(ps, j)) = ps[j]
      /\ Tail(Later(ps, j)) = Later(ps, j + 1)
  BY <1>1, LaterStep
<1> QED
  BY <1>3, <1>4, WireHead DEF Sendables

LEMMA Places ==
  ASSUME NEW ps, Sendables(ps), NEW j \in 1 .. Len(ps) + 1
  PROVE  /\ Place(ps, j) \in 0 .. Len(Wire(ps))
         /\ advance(Wire(ps), Place(ps, j)) = Wire(Later(ps, j))
<1> DEFINE w == Wire(ps)
           At(k) == Place(ps, k) \in 0 .. Len(w) /\ advance(w, Place(ps, k)) = Wire(Later(ps, k))
           I == {i \in Nat : i + 1 \in 1 .. Len(ps) + 1 => At(i + 1)}
<1>1. ps \in Seq(Piece) /\ Len(ps) \in Nat
  BY LenProperties DEF Sendables
<1>2. Later(ps, 1) = ps
  BY <1>1, LaterEnds
<1>3. w \in Bytes /\ Len(w) \in Nat
  <2>1. 1 \in 1 .. Len(ps) + 1
    BY <1>1
  <2>2. Wire(Later(ps, 1)) \in Bytes
    BY <2>1, LaterTyped
  <2> QED
    BY <1>2, <2>2, LenProperties DEF Bytes
<1>4. 0 \in I
  <2>1. Place(ps, 1) = 0
    BY <1>2, <1>3 DEF Place
  <2>2. advance(w, 0) = w
    BY <1>3, SubSeqFull DEF advance, Bytes
  <2>3. At(1)
    BY <1>2, <1>3, <2>1, <2>2
  <2> HIDE DEF At
  <2> QED
    BY <2>3
<1>5. ASSUME NEW i \in Nat, i \in I PROVE i + 1 \in I
  <2> HIDE DEF At
  <2> SUFFICES ASSUME i + 1 + 1 \in 1 .. Len(ps) + 1 PROVE At(i + 1 + 1)
    OBVIOUS
  <2> DEFINE k == i + 1
  <2>1. k \in 1 .. Len(ps) /\ k \in 1 .. Len(ps) + 1 /\ k + 1 \in 1 .. Len(ps) + 1
    BY <1>1
  <2>2. At(k)
    BY <1>5, <2>1
  <2> HIDE DEF k, w
  <2> DEFINE b == BytesOf(ps[k])
             x == Wire(Later(ps, k + 1))
             d == Place(ps, k)
  <2>3. d \in 0 .. Len(w) /\ advance(w, d) = Wire(Later(ps, k))
    BY <2>2 DEF At
  <2>4. Wire(Later(ps, k)) = b \o x
    BY <2>1, LaterWire
  <2>5. b \in Bytes /\ x \in Bytes
    BY <2>1, LaterTyped, PieceItems DEF Sendables
  <2>6. Place(ps, k + 1) = Len(w) - Len(x) /\ d = Len(w) - Len(b \o x)
    BY <2>4 DEF Place, w
  <2> HIDE DEF b, x, d
  <2>7. Len(b \o x) = Len(b) + Len(x) /\ Len(b) \in Nat /\ Len(x) \in Nat
    BY <2>5, LenProperties, ConcatProperties DEF Bytes
  <2>8. Place(ps, k + 1) = d + Len(b) /\ Len(b) \in 0 .. Len(w) - d
    BY <1>3, <2>3, <2>6, <2>7
  <2>9. advance(advance(w, d), Len(b)) = advance(w, d + Len(b))
    BY <1>3, <2>3, <2>8, AdvanceAgain
  <2>10. advance(b \o x, Len(b)) = x
    <3>1. Len(b) \in 0 .. Len(b) /\ Len(b) < Len(b) + 1 /\ Len(b) + 1 \in Int /\ Len(b) \in Int
      BY <2>7
    <3>2. advance(b \o x, Len(b)) = advance(b, Len(b)) \o x
      BY <2>5, <3>1, AdvanceConcat
    <3>3. advance(b, Len(b)) = <<>>
      BY <3>1, SubSeqEmpty DEF advance
    <3> QED
      BY <2>5, <3>2, <3>3, ConcatEmptySeq DEF Bytes
  <2>11. advance(w, Place(ps, k + 1)) = x
    BY <2>3, <2>4, <2>8, <2>9, <2>10
  <2>12. Place(ps, k + 1) \in 0 .. Len(w)
    BY <1>3, <2>3, <2>7, <2>8
  <2>13. At(k + 1)
    BY <2>11, <2>12 DEF At, x
  <2> QED
    BY <2>13 DEF k
<1> HIDE DEF I
<1>6. j - 1 \in Nat /\ j - 1 + 1 = j
  BY <1>1
<1>7. j - 1 \in I
  BY <1>4, <1>5, <1>6, UpInduction
<1>8. At(j)
  <2> HIDE DEF At
  <2> QED
    BY <1>6, <1>7 DEF I
<1> QED
  BY <1>8

LEMMA NextPlace ==
  ASSUME NEW ps, Sendables(ps), NEW j \in 1 .. Len(ps)
  PROVE  /\ Place(ps, j + 1) = Place(ps, j) + Len(BytesOf(ps[j]))
         /\ BytesOf(ps[j]) \in Bytes /\ Len(BytesOf(ps[j])) \in Nat
<1>1. ps \in Seq(Piece) /\ Len(ps) \in Nat
  BY LenProperties DEF Sendables
<1>2. j + 1 \in 1 .. Len(ps) + 1
  BY <1>1
<1> DEFINE b == BytesOf(ps[j])
           x == Wire(Later(ps, j + 1))
           w == Wire(ps)
<1>3. b \in Bytes /\ x \in Bytes
  BY <1>2, LaterTyped, PieceItems DEF Sendables
<1>4. Wire(Later(ps, j)) = b \o x
  BY LaterWire
<1>5. w \in Bytes
  <2>1. 1 \in 1 .. Len(ps) + 1 /\ Later(ps, 1) = ps
    BY <1>1, LaterEnds
  <2>2. Wire(Later(ps, 1)) \in Bytes
    BY <2>1, LaterTyped
  <2> QED
    BY <2>1, <2>2
<1>6. Place(ps, j + 1) = Len(w) - Len(x) /\ Place(ps, j) = Len(w) - Len(b \o x)
  BY <1>4 DEF Place
<1> HIDE DEF b, x, w
<1>7. Len(b \o x) = Len(b) + Len(x) /\ Len(b) \in Nat /\ Len(x) \in Nat /\ Len(w) \in Nat
  BY <1>3, <1>5, LenProperties, ConcatProperties DEF Bytes
<1> QED
  BY <1>3, <1>6, <1>7 DEF b

LEMMA PlacesOrdered ==
  ASSUME NEW ps, Sendables(ps), NEW j \in 1 .. Len(ps) + 1, NEW k \in j .. Len(ps) + 1
  PROVE  Place(ps, j) <= Place(ps, k)
<1> DEFINE I == {i \in Nat : j + i \in 1 .. Len(ps) + 1 => Place(ps, j) <= Place(ps, j + i)}
<1>1. Len(ps) \in Nat /\ j \in Nat /\ Len(Wire(ps)) \in Nat
  <2>1. ps \in Seq(Piece)
    BY DEF Sendables
  <2>2. Len(ps) \in Nat
    BY <2>1, LenProperties
  <2>3. 1 \in 1 .. Len(ps) + 1 /\ Later(ps, 1) = ps
    BY <2>1, <2>2, LaterEnds
  <2>4. Wire(Later(ps, 1)) \in Bytes
    BY <2>3, LaterTyped
  <2> QED
    BY <2>2, <2>3, <2>4, LenProperties DEF Bytes
<1>2. \A i \in 1 .. Len(ps) + 1 : Place(ps, i) \in Nat
  BY <1>1, Places
<1>3. 0 \in I
  BY <1>1, <1>2
<1>4. ASSUME NEW i \in Nat, i \in I PROVE i + 1 \in I
  <2> SUFFICES ASSUME j + (i + 1) \in 1 .. Len(ps) + 1 PROVE Place(ps, j) <= Place(ps, j + (i + 1))
    OBVIOUS
  <2>1. j + i \in 1 .. Len(ps) /\ j + i \in 1 .. Len(ps) + 1 /\ j + (i + 1) = j + i + 1
    BY <1>1
  <2>2. Place(ps, j + i + 1) = Place(ps, j + i) + Len(BytesOf(ps[j + i]))
        /\ Len(BytesOf(ps[j + i])) \in Nat
    BY <2>1, NextPlace
  <2>3. Place(ps, j) <= Place(ps, j + i)
    BY <1>4, <2>1
  <2> QED
    BY <1>2, <2>1, <2>2, <2>3
<1> HIDE DEF I
<1>5. k - j \in Nat /\ j + (k - j) = k /\ k \in 1 .. Len(ps) + 1
  BY <1>1
<1>6. k - j \in I
  BY <1>3, <1>4, <1>5, UpInduction
<1> QED
  BY <1>5, <1>6 DEF I

\* The bytes of a frame, one by one.
LEMMA EncodeBytes ==
  ASSUME NEW item \in Bytes, Encodable(item), checksum(item) \in U16
  PROVE  /\ encode(item) \in Bytes /\ Len(encode(item)) = Len(item) + 8
         /\ encode(item)[1] = 170 /\ encode(item)[2] = 204
         /\ encode(item)[3] = 170 /\ encode(item)[4] = 204
         /\ from_le_bytes(encode(item)[5], encode(item)[6]) = Len(item)
         /\ \A k \in 1 .. Len(item) : encode(item)[6 + k] = item[k]
         /\ from_le_bytes(encode(item)[Len(item) + 7], encode(item)[Len(item) + 8]) = checksum(item)
<1> DEFINE n == Len(item)
           c == checksum(item)
           crc == to_le_bytes(c)
           y == item \o crc
           e == encode(item)
<1>1. n \in 0 .. MAX_PAYLOAD_LEN /\ n \in Nat /\ n \in U16
  BY LimitTyped, LenProperties DEF Encodable, Bytes
<1>2. crc \in Bytes /\ Len(crc) = 2 /\ from_le_bytes(c % 256, c \div 256) = c
  BY ToBytes
<1>3. crc[1] = c % 256 /\ crc[2] = c \div 256
  BY DEF to_le_bytes
<1>4. e = HeaderOf(n) \o y
  <2>1. HeaderOf(n) \in Seq(Byte) /\ item \in Seq(Byte) /\ crc \in Seq(Byte)
    BY <1>1, <1>2, HeaderThen, EmptySeq DEF Bytes
  <2> HIDE DEF crc
  <2>2. (HeaderOf(n) \o item) \o crc = HeaderOf(n) \o (item \o crc)
    BY <2>1, ConcatAssociative
  <2>3. e = (HeaderOf(n) \o item) \o crc
    BY Zenon DEF encode, HeaderOf, crc
  <2> QED
    BY <2>2, <2>3
<1> HIDE DEF crc
<1>5. /\ y \in Bytes /\ Len(y) = n + 2
      /\ \A k \in 1 .. n + 2 : y[k] = IF k <= n THEN item[k] ELSE crc[k - n]
  <2>1. item \in Seq(Byte) /\ crc \in Seq(Byte)
    BY <1>2 DEF Bytes
  <2>2. /\ y \in Seq(Byte) /\ Len(y) = n + Len(crc)
        /\ \A k \in 1 .. n + Len(crc) : y[k] = IF k <= n THEN item[k] ELSE crc[k - n]
    BY <2>1, ConcatProperties, Zenon
  <2> HIDE DEF y
  <2> QED
    BY <1>2, <2>2 DEF Bytes
<1> HIDE DEF y, e
<1>6. HeadedBy(e, n, y)
  BY <1>1, <1>4, <1>5, HeaderThen
<1>7. /\ e \in Bytes /\ Len(e) = 6 + Len(y)
      /\ e[1] = 170 /\ e[2] = 204 /\ e[3] = 170 /\ e[4] = 204
      /\ \A k \in 1 .. Len(y) : e[6 + k] = y[k]
  BY <1>6 DEF HeadedBy
<1>8. from_le_bytes(e[5], e[6]) = n
  BY <1>1, <1>5, <1>6, HeaderFirst
<1>9. \A k \in 1 .. n : e[6 + k] = item[k]
  <2> TAKE k \in 1 .. n
  <2>1. k \in 1 .. Len(y) /\ k \in 1 .. n + 2 /\ k <= n
    BY <1>1, <1>5
  <2> QED
    BY <1>5, <1>7, <2>1
<1>10. from_le_bytes(e[n + 7], e[n + 8]) = c
  <2>1. /\ n + 1 \in 1 .. Len(y) /\ n + 1 \in 1 .. n + 2 /\ ~ (n + 1 <= n) /\ n + 1 - n = 1
        /\ n + 2 \in 1 .. Len(y) /\ n + 2 \in 1 .. n + 2 /\ ~ (n + 2 <= n) /\ n + 2 - n = 2
        /\ 6 + (n + 1) = n + 7 /\ 6 + (n + 2) = n + 8
    BY <1>1, <1>5
  <2>2. e[n + 7] = y[n + 1] /\ e[n + 8] = y[n + 2]
    <3>1. e[6 + (n + 1)] = y[n + 1] /\ e[6 + (n + 2)] = y[n + 2]
      BY <1>7, <2>1
    <3> QED
      BY <2>1, <3>1
  <2>3. y[n + 1] = crc[1] /\ y[n + 2] = crc[2]
    <3>1. y[n + 1] = crc[n + 1 - n] /\ y[n + 2] = crc[n + 2 - n]
      BY <1>5, <2>1
    <3> QED
      BY <2>1, <3>1
  <2> QED
    BY <1>2, <1>3, <2>2, <2>3
<1>11. Len(e) = n + 8
  BY <1>1, <1>5, <1>7
<1> QED
  BY <1>7, <1>8, <1>9, <1>10, <1>11 DEF e

\* A frame takes eight bytes at least.
LEMMA FrameLonger ==
  ASSUME NEW ps, Sendables(ps), NEW j \in 1 .. Len(ps), ps[j].kind = "frame",
         NEW k \in j + 1 .. Len(ps) + 1
  PROVE  Place(ps, j) + 8 <= Place(ps, k) /\ Place(ps, j) \in Nat
<1>1. ps \in Seq(Piece) /\ Len(ps) \in Nat
  BY LenProperties DEF Sendables
<1>2. /\ j \in 1 .. Len(ps) + 1 /\ k \in 1 .. Len(ps) + 1
      /\ j + 1 \in 1 .. Len(ps) + 1 /\ k \in j + 1 .. Len(ps) + 1
  BY <1>1
<1>3. Place(ps, j) \in Nat /\ Place(ps, k) \in Nat /\ Place(ps, j + 1) \in Nat
      /\ Place(ps, j + 1) <= Place(ps, k)
  BY <1>2, Places, PlacesOrdered
<1>4. Place(ps, j + 1) = Place(ps, j) + Len(BytesOf(ps[j]))
  BY NextPlace
<1>5. Len(BytesOf(ps[j])) \in Nat /\ Len(BytesOf(ps[j])) >= 8
  <2>1. Sendable(ps[j])
    BY DEF Sendables
  <2>2. ps[j].bytes \in Bytes /\ Encodable(ps[j].bytes) /\ checksum(ps[j].bytes) \in U16
    BY <2>1 DEF Sendable, Piece, Bytes
  <2>3. BytesOf(ps[j]) = encode(ps[j].bytes)
    BY DEF BytesOf
  <2>4. Len(encode(ps[j].bytes)) = Len(ps[j].bytes) + 8 /\ Len(ps[j].bytes) \in Nat
    BY <2>2, EncodeBytes, LenProperties, SMTT(20) DEF Bytes
  <2> QED
    BY <2>3, <2>4
<1> QED
  BY <1>3, <1>4, <1>5

\* Starts keep their place when bytes before them are dropped.
LEMMA StartsShift ==
  ASSUME NEW b \in Bytes, NEW d \in 0 .. Len(b), NEW i \in Int, i >= 1
  PROVE  i \in StartsAt(advance(b, d)) <=> i + d \in StartsAt(b)
<1> DEFINE a == advance(b, d)
<1>1. Len(b) \in Nat
  BY LenProperties DEF Bytes
<1>2. a \in Bytes /\ Len(a) = Len(b) - d /\ \A k \in 1 .. Len(b) - d : a[k] = b[k + d]
  BY Advance
<1> HIDE DEF a
<1>3. i \in StartsAt(a) <=>
        /\ i \in 1 .. Len(a) - 3
        /\ a[i] = 170 /\ a[i + 1] = 204 /\ a[i + 2] = 170 /\ a[i + 3] = 204
  BY <1>2, StartBytes
<1>4. i + d \in StartsAt(b) <=>
        /\ i + d \in 1 .. Len(b) - 3
        /\ b[i + d] = 170 /\ b[i + d + 1] = 204 /\ b[i + d + 2] = 170 /\ b[i + d + 3] = 204
  <2>1. i + d \in Int
    BY <1>1
  <2> QED
    BY <2>1, StartBytes
<1>5. CASE i <= Len(b) - d - 3
  <2>1. i \in 1 .. Len(b) - d /\ i + 1 \in 1 .. Len(b) - d /\ i + 2 \in 1 .. Len(b) - d
        /\ i + 3 \in 1 .. Len(b) - d
    BY <1>1, <1>5
  <2>2. a[i] = b[i + d] /\ a[i + 1] = b[i + 1 + d] /\ a[i + 2] = b[i + 2 + d]
        /\ a[i + 3] = b[i + 3 + d]
    BY <1>2, <2>1
  <2>3. i + 1 + d = i + d + 1 /\ i + 2 + d = i + d + 2 /\ i + 3 + d = i + d + 3
    BY <1>1
  <2>4. i \in 1 .. Len(a) - 3 /\ i + d \in 1 .. Len(b) - 3
    BY <1>1, <1>2, <1>5
  <2>5. /\ a[i] = b[i + d] /\ a[i + 1] = b[i + d + 1] /\ a[i + 2] = b[i + d + 2]
        /\ a[i + 3] = b[i + d + 3]
    BY <2>2, <2>3
  <2> QED
    BY <1>3, <1>4, <2>4, <2>5 DEF a
<1>6. CASE ~ (i <= Len(b) - d - 3)
  <2>1. ~ (i \in 1 .. Len(a) - 3) /\ ~ (i + d \in 1 .. Len(b) - 3)
    BY <1>1, <1>2, <1>6
  <2> QED
    BY <1>3, <1>4, <2>1, Zenon DEF a
<1> QED
  BY <1>5, <1>6

\* Where a start can be, if no data and no checksum looks like one: nowhere but at frames.
LEMMA FrameAtStart ==
  ASSUME NEW ps, Sendables(ps), StartFree(ps), NEW i \in StartsAt(Wire(ps))
  PROVE  \E j \in 1 .. Len(ps) : ps[j].kind = "frame" /\ i = Place(ps, j) + 1
<1>1. \A s \in Seq(Piece) : DOMAIN s = 1 .. Len(s)
  BY LenProperties
<1>2. DOMAIN ps = 1 .. Len(ps)
  BY <1>1 DEF Sendables
<1>3. PICK j \in DOMAIN ps : IsFrame(ps[j]) /\ i = Begin(ps, j)
  BY DEF StartFree
<1> QED
  BY <1>2, <1>3 DEF IsFrame, Begin, Place

\* Between two places there is no start, if no frame begins between.
LEMMA NoStartBetween ==
  ASSUME NEW ps, Sendables(ps), StartFree(ps), NEW k \in 1 .. Len(ps) + 1, NEW p \in Nat,
         \A j \in 1 .. k - 1 : ps[j].kind = "frame" => Place(ps, j) < p,
         NEW i \in StartsAt(Wire(ps)), i > p
  PROVE  i > Place(ps, k)
<1>1. Len(ps) \in Nat
  BY LenProperties DEF Sendables
<1>2. PICK j \in 1 .. Len(ps) : ps[j].kind = "frame" /\ i = Place(ps, j) + 1
  BY FrameAtStart
<1>3. j \in 1 .. Len(ps) + 1 /\ k \in 1 .. Len(ps) + 1
  BY <1>1
<1>4. Place(ps, j) \in Nat /\ Place(ps, k) \in Nat
  BY <1>3, Places
<1>5. ~ (j \in 1 .. k - 1)
  BY <1>2, <1>4
<1>6. k \in 1 .. Len(ps) + 1 /\ j \in k .. Len(ps) + 1
  BY <1>1, <1>3, <1>5
<1>7. Place(ps, k) <= Place(ps, j)
  BY <1>6, PlacesOrdered
<1> QED
  BY <1>2, <1>4, <1>7

\* The items of what is left of the line at a piece are those of the frames to come.
LEMMA CleanRest ==
  ASSUME NEW ps, Sendables(ps), StartFree(ps), NEW j \in 1 .. Len(ps) + 1
  PROVE  Items[Wire(Later(ps, j))] = Payloads(Later(ps, j))
<1> DEFINE N == Len(ps)
           w == Wire(ps)
           Clean(k) == Items[Wire(Later(ps, k))] = Payloads(Later(ps, k))
           I == {i \in Nat : N + 1 - i \in 1 .. N + 1 => Clean(N + 1 - i)}
<1> HIDE DEF Clean
<1>1. ps \in Seq(Piece) /\ N \in Nat
  BY LenProperties DEF Sendables
<1>2. w \in Bytes /\ Len(w) \in Nat
  <2>1. 1 \in 1 .. N + 1 /\ Later(ps, 1) = ps
    BY <1>1, LaterEnds
  <2>2. Wire(Later(ps, 1)) \in Bytes
    BY <2>1, LaterTyped
  <2> QED
    BY <2>1, <2>2, LenProperties DEF Bytes
<1>3. 0 \in I
  <2>1. Later(ps, N + 1) = <<>>
    BY <1>1, LaterEnds
  <2>2. Wire(Later(ps, N + 1)) = <<>> /\ Payloads(Later(ps, N + 1)) = <<>>
    BY <2>1, WireNothing
  <2>3. Items[<<>>] = <<>>
    <3>1. <<>> \in Bytes /\ Len(<<>>) = 0
      BY EmptySeq DEF Bytes
    <3>2. Headers(<<>>) = {}
      <4>1. Headers(<<>>) \subseteq 1 .. Len(<<>>) - 5
        BY <3>1, HeadersInside
      <4> QED
        BY <3>1, <4>1
    <3>3. FirstItem(<<>>).item = <<>>
      BY <3>2 DEF FirstItem
    <3> QED
      BY <3>1, <3>3, ItemsOf, Zenon DEF Unfold
  <2>4. Clean(N + 1)
    BY <2>2, <2>3 DEF Clean
  <2>5. N + 1 - 0 = N + 1
    BY <1>1
  <2> QED
    BY <2>4, <2>5
<1>4. ASSUME NEW i \in Nat, i \in I PROVE i + 1 \in I
  <2> SUFFICES ASSUME N + 1 - (i + 1) \in 1 .. N + 1 PROVE Clean(N + 1 - (i + 1))
    OBVIOUS
  <2> DEFINE k == N + 1 - (i + 1)
  <2>1. k \in 1 .. N /\ k \in 1 .. N + 1 /\ k + 1 \in 1 .. N + 1 /\ k + 1 = N + 1 - i /\ k \in Nat
    BY <1>1
  <2>2. Clean(k + 1)
    BY <1>4, <2>1
  <2> HIDE DEF k
  <2> DEFINE b == BytesOf(ps[k])
             x == Wire(Later(ps, k + 1))
  <2>3. Sendable(ps[k]) /\ ps[k].kind \in {"frame", "text", "noise"}
    BY <2>1 DEF Sendables, Sendable, Piece
  <2>4. Wire(Later(ps, k)) = b \o x
        /\ Payloads(Later(ps, k)) = ItemOf(ps[k]) \o Payloads(Later(ps, k + 1))
    BY <2>1, LaterWire
  <2>5. b \in Bytes /\ x \in Bytes /\ Payloads(Later(ps, k + 1)) \in Seq(Item)
    BY <2>1, <2>3, LaterTyped, PieceItems
  <2>6. CASE ps[k].kind # "noise"
    <3>1. Items[b \o x] = ItemOf(ps[k]) \o Items[x]
      BY <2>3, <2>5, <2>6, PieceItems
    <3>2. Clean(k)
      BY <2>2, <2>4, <3>1 DEF Clean
    <3> QED
      BY <3>2 DEF k
  <2>7. CASE ps[k].kind = "noise"
    <3> DEFINE p == Place(ps, k)
               q == Place(ps, k + 1)
    <3>1. /\ p \in 0 .. Len(w) /\ advance(w, p) = Wire(Later(ps, k))
          /\ q \in 0 .. Len(w) /\ advance(w, q) = x
          /\ q = p + Len(b) /\ Len(b) \in Nat
      BY <2>1, Places, NextPlace
    <3>2. ASSUME NEW l \in 1 .. (k + 1) - 1, ps[l].kind = "frame" PROVE Place(ps, l) < p
      <4>1. l # k /\ l \in 1 .. N /\ k \in l + 1 .. N + 1
        BY <1>1, <2>1, <2>7, <3>2
      <4>2. Place(ps, l) + 8 <= Place(ps, k) /\ Place(ps, l) \in Nat
        BY <3>2, <4>1, FrameLonger
      <4> QED
        BY <3>1, <4>2
    <3>3. p \in Nat
      BY <1>2, <3>1
    <3> HIDE DEF p
    <3>4. \A y \in StartsAt(w) : y > p => y > q
      BY <2>1, <3>2, <3>3, NoStartBetween
    <3> HIDE DEF q, w, b, x
    <3> DEFINE a == advance(w, p)
    <3>5. a \in Bytes /\ Len(a) = Len(w) - p /\ Len(b) \in 0 .. Len(a) /\ Len(b) \in 0 .. Len(w) - p
      <4>1. a \in Bytes /\ Len(a) = Len(w) - p
        BY <1>2, <3>1, Advance
      <4> HIDE DEF a
      <4> QED
        BY <1>2, <3>1, <4>1
    <3>6. \A y \in StartsAt(a) : y > Len(b)
      <4> TAKE y \in StartsAt(a)
      <4>1. y \in Int /\ y >= 1
        BY DEF StartsAt
      <4>2. y + p \in StartsAt(w)
        BY <1>2, <3>1, <4>1, StartsShift
      <4>3. y + p > p
        BY <3>3, <4>1
      <4>4. y + p > q
        BY <3>4, <4>2, <4>3
      <4> QED
        BY <3>1, <3>3, <4>1, <4>4
    <3>7. Items[a] = Items[advance(a, Len(b))]
      <4> HIDE DEF a
      <4> QED
        BY <3>5, <3>6, DropPrefix
    <3>8. advance(a, Len(b)) = advance(w, p + Len(b))
      BY <1>2, <3>1, <3>5, AdvanceAgain
    <3>9. ItemOf(ps[k]) = <<>>
      BY <2>7 DEF ItemOf, IsFrame
    <3>10. Payloads(Later(ps, k)) = Payloads(Later(ps, k + 1))
      BY <2>4, <2>5, <3>9, ConcatEmptySeq
    <3>11. Items[Wire(Later(ps, k))] = Items[x]
      BY <3>1, <3>7, <3>8
    <3>12. Clean(k)
      BY <2>2, <3>10, <3>11 DEF Clean, x
    <3> QED
      BY <3>12 DEF k
  <2> QED
    BY <2>3, <2>6, <2>7
<1> HIDE DEF I
<1>5. N + 1 - j \in Nat /\ N + 1 - (N + 1 - j) = j
  BY <1>1
<1>6. N + 1 - j \in I
  BY <1>3, <1>4, <1>5, UpInduction
<1> QED
  BY <1>5, <1>6 DEF I, Clean

-----------------------------------------------------------------------------
(* A damaged byte.                                                          *)

EndsWith(s, t) == \E front \in Seq(Item) : s = front \o t

LEMMA EndsItself ==
  ASSUME NEW s \in Seq(Item)
  PROVE  EndsWith(s, s)
<1>1. <<>> \o s = s /\ <<>> \in Seq(Item)
  BY ConcatEmptySeq, EmptySeq
<1> QED
  BY <1>1, Zenon DEF EndsWith

LEMMA EndsLonger ==
  ASSUME NEW s \in Seq(Item), NEW t \in Seq(Item), NEW h \in Seq(Item), EndsWith(s, t)
  PROVE  EndsWith(h \o s, t)
<1>1. PICK front \in Seq(Item) : s = front \o t
  BY DEF EndsWith
<1>2. h \o front \in Seq(Item)
  BY ConcatProperties
<1>3. (h \o front) \o t = h \o (front \o t)
  BY JoinItems
<1>4. h \o s = (h \o front) \o t
  BY <1>1, <1>3
<1> QED
  BY <1>2, <1>4, Zenon DEF EndsWith

\* The payloads from a piece on end with those from a later one on.
LEMMA PayloadsEnd ==
  ASSUME NEW ps, Sendables(ps), NEW j \in 1 .. Len(ps) + 1, NEW k \in 1 .. j
  PROVE  EndsWith(Payloads(Later(ps, k)), Payloads(Later(ps, j)))
<1> DEFINE Ends(l) == EndsWith(Payloads(Later(ps, l)), Payloads(Later(ps, j)))
           I == {i \in Nat : j - i \in 1 .. j => Ends(j - i)}
<1> HIDE DEF Ends
<1>1. ps \in Seq(Piece) /\ Len(ps) \in Nat
  BY LenProperties DEF Sendables
<1>2. Payloads(Later(ps, j)) \in Seq(Item)
  BY LaterTyped
<1>3. 0 \in I
  <2>1. Ends(j)
    BY <1>2, EndsItself DEF Ends
  <2>2. j - 0 = j
    BY <1>1
  <2> QED
    BY <2>1, <2>2
<1>4. ASSUME NEW i \in Nat, i \in I PROVE i + 1 \in I
  <2> SUFFICES ASSUME j - (i + 1) \in 1 .. j PROVE Ends(j - (i + 1))
    OBVIOUS
  <2> DEFINE l == j - (i + 1)
  <2>1. l \in 1 .. Len(ps) /\ l + 1 = j - i /\ l + 1 \in 1 .. j /\ l + 1 \in 1 .. Len(ps) + 1
    BY <1>1
  <2>2. Ends(l + 1)
    BY <1>4, <2>1
  <2> HIDE DEF l
  <2>3. /\ Payloads(Later(ps, l)) = ItemOf(ps[l]) \o Payloads(Later(ps, l + 1))
        /\ Payloads(Later(ps, l + 1)) \in Seq(Item) /\ ItemOf(ps[l]) \in Seq(Item)
    BY <2>1, LaterWire, LaterTyped, PieceItems DEF Sendables
  <2>4. EndsWith(ItemOf(ps[l]) \o Payloads(Later(ps, l + 1)), Payloads(Later(ps, j)))
    BY <1>2, <2>2, <2>3, EndsLonger DEF Ends
  <2>5. Ends(l)
    BY <2>3, <2>4 DEF Ends
  <2> QED
    BY <2>5 DEF l
<1> HIDE DEF I
<1>5. j - k \in Nat /\ j - (j - k) = k
  BY <1>1
<1>6. j - k \in I
  BY <1>3, <1>4, <1>5, UpInduction
<1> QED
  BY <1>5, <1>6 DEF I, Ends

\* Wherever reading begins on a clean line, the frames that begin from there on are
\* returned and nothing else.
LEMMA RestFrom ==
  ASSUME NEW ps, Sendables(ps), StartFree(ps), NEW j \in 1 .. Len(ps) + 1,
         NEW p \in 0 .. Place(ps, j)
  PROVE  EndsWith(Items[advance(Wire(ps), p)], Payloads(Later(ps, j)))
<1> DEFINE w == Wire(ps)
           K == {k \in 1 .. j : p <= Place(ps, k)}
<1>1. ps \in Seq(Piece) /\ Len(ps) \in Nat
  BY LenProperties DEF Sendables
<1>2. w \in Bytes /\ Len(w) \in Nat
  <2>1. 1 \in 1 .. Len(ps) + 1 /\ Later(ps, 1) = ps
    BY <1>1, LaterEnds
  <2>2. Wire(Later(ps, 1)) \in Bytes
    BY <2>1, LaterTyped
  <2> QED
    BY <2>1, <2>2, LenProperties DEF Bytes
<1>3. \A k \in 1 .. Len(ps) + 1 : Place(ps, k) \in 0 .. Len(w)
  BY Places
<1>4. K # {} /\ K \in SUBSET Nat
  <2>1. j \in 1 .. j /\ p <= Place(ps, j)
    BY <1>1, <1>2, <1>3
  <2> QED
    BY <2>1
<1>5. PICK k \in K : \A l \in K : k <= l
  BY <1>4, LeastOf
<1>6. k \in 1 .. j /\ k \in 1 .. Len(ps) + 1 /\ p <= Place(ps, k) /\ p \in Nat
  BY <1>1, <1>2, <1>3
<1>7. ASSUME NEW l \in 1 .. k - 1, ps[l].kind = "frame" PROVE Place(ps, l) < p
  <2>1. l \in 1 .. j /\ l < k /\ l \in 1 .. Len(ps) + 1
    BY <1>1, <1>6
  <2>2. ~ (l \in K)
    BY <1>5, <1>6, <2>1
  <2>3. ~ (p <= Place(ps, l)) /\ Place(ps, l) \in Int
    BY <1>3, <2>1, <2>2
  <2> QED
    BY <1>6, <2>3
<1>8. \A i \in StartsAt(w) : i > p => i > Place(ps, k)
  BY <1>6, <1>7, NoStartBetween
<1> DEFINE q == Place(ps, k)
           a == advance(w, p)
<1>9. advance(w, q) = Wire(Later(ps, k)) /\ q \in 0 .. Len(w)
  BY <1>6, Places
<1>10. p <= q /\ \A i \in StartsAt(w) : i > p => i > q
  BY <1>6, <1>8
<1> HIDE DEF w, q, K
<1>11. a \in Bytes /\ Len(a) = Len(w) - p /\ q - p \in 0 .. Len(w) - p /\ p \in 0 .. Len(w)
  BY <1>2, <1>6, <1>9, <1>10, Advance
<1>12. \A i \in StartsAt(a) : i > q - p
  <2> TAKE i \in StartsAt(a)
  <2>1. i \in Int /\ i >= 1
    BY DEF StartsAt
  <2>2. i + p \in StartsAt(w)
    BY <1>2, <1>11, <2>1, StartsShift
  <2>3. i + p > q
    BY <1>6, <1>10, <2>1, <2>2
  <2> QED
    BY <1>6, <1>9, <2>1, <2>3
<1>13. Items[a] = Items[advance(a, q - p)]
  <2>1. q - p \in 0 .. Len(a)
    BY <1>11
  <2> HIDE DEF a
  <2> QED
    BY <1>11, <1>12, <2>1, DropPrefix
<1>14. advance(a, q - p) = advance(w, q)
  <2>1. advance(a, q - p) = advance(w, p + (q - p))
    BY <1>2, <1>11, AdvanceAgain
  <2>2. p + (q - p) = q
    BY <1>2, <1>6, <1>9
  <2> QED
    BY <2>1, <2>2
<1>15. Items[a] = Payloads(Later(ps, k))
  BY <1>6, <1>9, <1>13, <1>14, CleanRest
<1> QED
  BY <1>6, <1>15, PayloadsEnd DEF w

\* The damaged line.
DamagedAt(s, w, i) ==
  /\ s \in Bytes /\ w \in Bytes /\ Len(s) = Len(w) /\ i \in 1 .. Len(w)
  /\ \A k \in 1 .. Len(w) : k # i => s[k] = w[k]

LEMMA AfterDamage ==
  ASSUME NEW s, NEW w, NEW i, DamagedAt(s, w, i), NEW p \in i .. Len(w)
  PROVE  advance(s, p) = advance(w, p)
<1>1. /\ s \in Bytes /\ w \in Bytes /\ Len(s) = Len(w) /\ i \in 1 .. Len(w)
      /\ \A k \in 1 .. Len(w) : k # i => s[k] = w[k]
  BY DEF DamagedAt
<1>2. Len(w) \in Nat /\ p \in 0 .. Len(w) /\ p \in 0 .. Len(s) /\ p >= i
  BY <1>1, LenProperties DEF Bytes
<1> DEFINE a == advance(s, p)
           b == advance(w, p)
<1>3. a \in Bytes /\ Len(a) = Len(w) - p /\ \A k \in 1 .. Len(w) - p : a[k] = s[k + p]
  BY <1>1, <1>2, Advance
<1>4. b \in Bytes /\ Len(b) = Len(w) - p /\ \A k \in 1 .. Len(w) - p : b[k] = w[k + p]
  BY <1>1, <1>2, Advance
<1> HIDE DEF a, b
<1>5. \A k \in 1 .. Len(w) - p : k + p \in 1 .. Len(w) /\ k + p # i
  BY <1>1, <1>2
<1>6. \A k \in 1 .. Len(w) - p : a[k] = b[k]
  BY <1>1, <1>3, <1>4, <1>5
<1>7. a = b
  BY <1>3, <1>4, <1>6, SeqEqual DEF Bytes
<1> QED
  BY <1>7 DEF a, b

\* The bytes of a frame on the line.
LEMMA FrameOnLine ==
  ASSUME NEW ps, Sendables(ps), NEW j \in 1 .. Len(ps), ps[j].kind = "frame"
  PROVE  /\ ps[j].bytes \in Bytes /\ Encodable(ps[j].bytes) /\ checksum(ps[j].bytes) \in U16
         /\ Wire(ps) \in Bytes /\ Place(ps, j) \in Nat
         /\ Place(ps, j) + Len(ps[j].bytes) + 8 <= Len(Wire(ps))
         /\ \A k \in 1 .. Len(ps[j].bytes) + 8 :
              Wire(ps)[Place(ps, j) + k] = encode(ps[j].bytes)[k]
<1> DEFINE w == Wire(ps)
           d == Place(ps, j)
           e == encode(ps[j].bytes)
           n == Len(ps[j].bytes)
           x == Wire(Later(ps, j + 1))
           a == advance(w, d)
<1>1. ps \in Seq(Piece) /\ Len(ps) \in Nat
  BY LenProperties DEF Sendables
<1>2. Sendable(ps[j])
  BY DEF Sendables
<1>3. ps[j].bytes \in Bytes /\ Encodable(ps[j].bytes) /\ checksum(ps[j].bytes) \in U16
  BY <1>2 DEF Sendable, Piece, Bytes
<1>4. e \in Bytes /\ Len(e) = n + 8 /\ n \in Nat
  BY <1>3, EncodeBytes, LenProperties DEF Bytes
<1>5. j \in 1 .. Len(ps) + 1 /\ j + 1 \in 1 .. Len(ps) + 1
  BY <1>1
<1>6. w \in Bytes /\ Len(w) \in Nat
  <2>1. 1 \in 1 .. Len(ps) + 1 /\ Later(ps, 1) = ps
    BY <1>1, LaterEnds
  <2>2. Wire(Later(ps, 1)) \in Bytes
    BY <2>1, LaterTyped
  <2> QED
    BY <2>1, <2>2, LenProperties DEF Bytes
<1>7. d \in 0 .. Len(w) /\ a = Wire(Later(ps, j))
  BY <1>5, Places
<1>8. Wire(Later(ps, j)) = e \o x /\ x \in Bytes
  <2>1. BytesOf(ps[j]) = e
    BY DEF BytesOf
  <2> QED
    BY <1>5, <2>1, LaterWire, LaterTyped
<1>9. /\ Len(a) = Len(w) - d
      /\ \A k \in 1 .. Len(w) - d : a[k] = w[k + d]
  BY <1>6, <1>7, Advance
<1> HIDE DEF w, d, e, x, a, n
<1>10. /\ Len(e \o x) = Len(e) + Len(x) /\ Len(x) \in Nat
       /\ \A k \in 1 .. Len(e) + Len(x) : (e \o x)[k] = IF k <= Len(e) THEN e[k] ELSE x[k - Len(e)]
  BY <1>4, <1>8, ConcatProperties, LenProperties DEF Bytes
<1>11. Len(w) - d = n + 8 + Len(x)
  BY <1>4, <1>7, <1>8, <1>9, <1>10
<1>12. ASSUME NEW k \in 1 .. n + 8 PROVE w[d + k] = e[k]
  <2>1. k \in 1 .. Len(w) - d /\ k \in 1 .. Len(e) + Len(x) /\ k <= Len(e) /\ k + d = d + k
    BY <1>4, <1>6, <1>7, <1>10, <1>11
  <2>2. a[k] = w[k + d] /\ (e \o x)[k] = e[k] /\ a = e \o x
    BY <1>7, <1>8, <1>9, <1>10, <2>1
  <2> QED
    BY <2>1, <2>2
<1>13. d \in Nat /\ d + n + 8 <= Len(w)
  BY <1>4, <1>6, <1>7, <1>10, <1>11
<1> QED
  BY <1>3, <1>6, <1>12, <1>13 DEF w, d, e, n

\* It is a header there, and stays one if another byte is damaged.
LEMMA FrameHeader ==
  ASSUME NEW ps, Sendables(ps), NEW j \in 1 .. Len(ps), ps[j].kind = "frame",
         NEW s, NEW i, DamagedAt(s, Wire(ps), i), i <= Place(ps, j)
  PROVE  Place(ps, j) + 1 \in Headers(s)
<1> DEFINE w == Wire(ps)
           d == Place(ps, j)
           e == encode(ps[j].bytes)
           n == Len(ps[j].bytes)
<1>1. /\ ps[j].bytes \in Bytes /\ Encodable(ps[j].bytes) /\ checksum(ps[j].bytes) \in U16
      /\ w \in Bytes /\ d \in Nat /\ d + n + 8 <= Len(w)
      /\ \A k \in 1 .. n + 8 : w[d + k] = e[k]
  BY FrameOnLine
<1>2. n \in Nat /\ Len(w) \in Nat
  BY <1>1, LenProperties DEF Bytes
<1>3. e[1] = 170 /\ e[2] = 204 /\ e[3] = 170 /\ e[4] = 204
  BY <1>1, EncodeBytes
<1>4. s \in Bytes /\ Len(s) = Len(w) /\ i \in Int /\ \A k \in 1 .. Len(w) : k # i => s[k] = w[k]
  BY DEF DamagedAt
<1>5. i <= d
  OBVIOUS
<1> HIDE DEF w, d, e, n
<1>6. \A k \in 1 .. 4 : k \in 1 .. n + 8 /\ d + k \in 1 .. Len(w) /\ d + k # i
  BY <1>1, <1>2, <1>4, <1>5
<1>7. \A k \in 1 .. 4 : s[d + k] = e[k]
  BY <1>1, <1>4, <1>6
<1>8. s[d + 1] = 170 /\ s[d + 2] = 204 /\ s[d + 3] = 170 /\ s[d + 4] = 204
  BY <1>3, <1>7
<1>9. \A m \in Int : m \in Headers(s) <=>
        /\ 1 <= m /\ m <= Len(s) - 5
        /\ s[m] = 170 /\ s[m + 1] = 204 /\ s[m + 2] = 170 /\ s[m + 3] = 204
  BY <1>4, HeaderIs, SMTT(30)
<1>10. /\ d + 1 \in Int /\ 1 <= d + 1 /\ d + 1 <= Len(s) - 5
       /\ d + 1 + 1 = d + 2 /\ d + 1 + 2 = d + 3 /\ d + 1 + 3 = d + 4
  BY <1>1, <1>2, <1>4
<1>11. d + 1 \in Headers(s)
  BY <1>8, <1>9, <1>10
<1> QED
  BY <1>11 DEF d

\* How far an item reaches.
LEMMA ItemReaches ==
  ASSUME NEW b \in Bytes, NEW i \in Headers(b), i + MAX_PAYLOAD_LEN + 7 <= Len(b)
  PROVE  /\ \E x \in Item : ItemAt(b, i).item = <<x>>
         /\ ItemAt(b, i).end \in i .. i + MAX_PAYLOAD_LEN + 7
<1> DEFINE n == from_le_bytes(b[i + 4], b[i + 5])
           o == ItemAt(b, i)
           x == IF checksum(SubSeq(b, i + 6, i + n + 5)) = from_le_bytes(b[i + n + 6], b[i + n + 7])
                  THEN Ok(SubSeq(b, i + 6, i + n + 5)) ELSE InvalidCRC
<1>1. i \in Nat /\ Len(b) \in Nat /\ MAX_PAYLOAD_LEN \in Nat /\ i \in 1 .. Len(b) - 5
  BY HeadersInside, LenProperties, LimitTyped DEF Bytes
<1>2. n \in Nat
  <2>1. b[i + 4] \in Byte /\ b[i + 5] \in Byte
    BY <1>1, ElementOfSeq DEF Bytes
  <2> QED
    BY <2>1, FromBytes
<1>3. o.item = <<>> \/ \E y \in Item : o.item = <<y>>
  BY ItemAtTyped
<1> HIDE DEF n
<1>4. CASE TooLong(n)
  <2>1. o = [item |-> <<InvalidLength>>, end |-> i + 5]
    BY <1>4, Zenon DEF ItemAt, n
  <2>2. o.item = <<InvalidLength>> /\ o.end = i + 5
    BY <2>1
  <2>3. i + 5 \in i .. i + MAX_PAYLOAD_LEN + 7 /\ InvalidLength \in Item
    BY <1>1 DEF Item
  <2> HIDE DEF o
  <2> QED
    BY <2>2, <2>3 DEF o
<1>5. CASE ~TooLong(n)
  <2>1. n <= MAX_PAYLOAD_LEN
    BY <1>1, <1>2, <1>5 DEF TooLong
  <2>2. ~ (i + n + 7 > Len(b))
    BY <1>1, <1>2, <2>1
  <2>3. o = [item |-> <<x>>, end |-> i + n + 7]
    BY <1>5, <2>2, Zenon DEF ItemAt, n
  <2> HIDE DEF x
  <2>4. o.item = <<x>> /\ o.end = i + n + 7
    BY <2>3
  <2>5. o.item # <<>>
    BY <2>4
  <2>6. i + n + 7 \in i .. i + MAX_PAYLOAD_LEN + 7
    BY <1>1, <1>2, <2>1
  <2> HIDE DEF o
  <2> QED
    BY <1>3, <2>4, <2>5, <2>6 DEF o
<1> QED
  BY <1>4, <1>5

LEMMA ResyncLine ==
  ASSUME NEW ps, Sendables(ps), StartFree(ps), NEW j \in 1 .. Len(ps), ps[j].kind = "frame",
         NEW s, NEW i, DamagedAt(s, Wire(ps), i), i + MAX_PAYLOAD_LEN + 7 <= Place(ps, j)
  PROVE  \A p \in 0 .. Place(ps, j) : EndsWith(Items[advance(s, p)], Payloads(Later(ps, j)))
<1> DEFINE w == Wire(ps)
           d == Place(ps, j)
           t == Payloads(Later(ps, j))
           Good(p) == EndsWith(Items[advance(s, p)], t)
           I == {n \in Nat : d - n \in 0 .. d => Good(d - n)}
<1>1. ps \in Seq(Piece) /\ Len(ps) \in Nat /\ MAX_PAYLOAD_LEN \in Nat
  BY LenProperties, LimitTyped DEF Sendables
<1>2. w \in Bytes /\ s \in Bytes /\ Len(s) = Len(w) /\ i \in 1 .. Len(w) /\ Len(w) \in Nat
  BY LenProperties DEF DamagedAt, Bytes
<1>3. d \in Nat /\ d + 8 <= Len(w)
  <2>1. /\ ps[j].bytes \in Bytes /\ d \in Nat /\ d + Len(ps[j].bytes) + 8 <= Len(w)
    BY FrameOnLine
  <2>2. Len(ps[j].bytes) \in Nat
    BY <2>1, LenProperties DEF Bytes
  <2> QED
    BY <1>2, <2>1, <2>2, SMTT(20)
<1>4. i \in Nat /\ i + MAX_PAYLOAD_LEN + 7 <= d /\ i <= d
  BY <1>1, <1>2, <1>3
<1>5. d + 1 \in Headers(s)
  BY <1>4, FrameHeader
<1>6. j \in 1 .. Len(ps) + 1
  BY <1>1
<1>7. t \in Seq(Item)
  BY <1>6, LaterTyped
\* Past the damage the line is clean.
<1>8. ASSUME NEW p \in i .. d PROVE Good(p)
  <2>1. p \in i .. Len(w) /\ p \in 0 .. d
    BY <1>2, <1>3, <1>4
  <2>2. advance(s, p) = advance(w, p)
    BY <2>1, AfterDamage
  <2>3. EndsWith(Items[advance(w, p)], t)
    BY <1>6, <2>1, RestFrom
  <2> QED
    BY <2>2, <2>3
<1> HIDE DEF d, w, t, Good
\* Before it the first item reaches no further than the frame.
<1>9. ASSUME NEW p \in 0 .. i - 1, \A q \in p + 1 .. d : Good(q) PROVE Good(p)
  <2> DEFINE a == advance(s, p)
  <2>1. p \in Nat /\ p \in 0 .. Len(s) /\ i \in p + 1 .. d
    BY <1>2, <1>4
  <2>2. a \in Bytes /\ Len(a) = Len(s) - p
    BY <1>2, <2>1, Advance
  <2>3. (d + 1) - p \in Headers(a)
    <3>1. (d + 1) - p \in Int /\ (d + 1) - p >= 1 /\ ((d + 1) - p) + p = d + 1
      BY <1>3, <1>4, <2>1
    <3> QED
      BY <1>2, <1>5, <2>1, <3>1, HeadersShift
  <2>4. PICK k \in Headers(a) : (\A l \in Headers(a) : k <= l) /\ FirstItem(a) = ItemAt(a, k)
    <3> HIDE DEF a
    <3> QED
      BY <2>2, <2>3, SomeFirst
  <2>5. k \in 1 .. Len(a) - 5 /\ k <= (d + 1) - p /\ k \in Nat
    <3> HIDE DEF a
    <3>1. Headers(a) \subseteq 1 .. Len(a) - 5
      BY <2>2, HeadersInside
    <3> QED
      BY <2>3, <2>4, <3>1
  <2>6. CASE k + p <= i
    <3>1. k + MAX_PAYLOAD_LEN + 7 <= Len(a)
      <4> HIDE DEF a
      <4> QED
        BY <1>1, <1>2, <1>3, <1>4, <2>1, <2>2, <2>5, <2>6
    <3> DEFINE e == ItemAt(a, k).end
    <3>2. e \in k .. k + MAX_PAYLOAD_LEN + 7 /\ \E x \in Item : ItemAt(a, k).item = <<x>>
      <4> HIDE DEF a
      <4> QED
        BY <2>2, <3>1, ItemReaches
    <3>3. PICK x \in Item : ItemAt(a, k).item = <<x>>
      BY <3>2
    <3>4. Items[a] = <<x>> \o Items[advance(a, e)]
      <4>1. FirstItem(a).item = <<x>> /\ FirstItem(a).end = e /\ FirstItem(a).item # <<>>
        BY <2>4, <3>3
      <4>2. Items[a] = Unfold(Items, a)
        BY <2>2, ItemsOf
      <4> HIDE DEF a, e
      <4> QED
        BY <4>1, <4>2, Zenon DEF Unfold
    <3> HIDE DEF e
    <3>5. e + p \in p + 1 .. d /\ e \in 0 .. Len(s) - p /\ p + e = e + p
      BY <1>1, <1>2, <1>3, <1>4, <2>1, <2>5, <2>6, <3>2
    <3>6. advance(a, e) = advance(s, e + p)
      <4>1. advance(a, e) = advance(s, p + e)
        BY <1>2, <2>1, <3>5, AdvanceAgain
      <4> QED
        BY <3>5, <4>1
    <3>7. EndsWith(Items[advance(s, e + p)], t)
      BY <1>9, <3>5 DEF Good
    <3>8. Items[advance(s, e + p)] \in Seq(Item) /\ <<x>> \in Seq(Item)
      <4>1. e + p \in 0 .. Len(s)
        BY <1>2, <1>3, <2>1, <3>5
      <4>2. advance(s, e + p) \in Bytes
        BY <1>2, <4>1, Advance
      <4> QED
        BY <4>2, ItemsTyped
    <3>9. EndsWith(<<x>> \o Items[advance(s, e + p)], t)
      BY <1>7, <3>7, <3>8, EndsLonger
    <3> QED
      BY <3>4, <3>6, <3>9 DEF Good
  <2>7. CASE ~ (k + p <= i)
    <3>1. \A y \in StartsAt(a) : y > i - p
      <4> TAKE y \in StartsAt(a)
      <4>1. y \in Int
        BY DEF StartsAt
      <4>2. CASE y <= Len(a) - 5
        <5> HIDE DEF a
        <5>1. y \in Headers(a)
          BY <2>2, <4>1, <4>2, HeaderBytes
        <5>2. k <= y
          BY <2>4, <5>1
        <5> QED
          BY <1>4, <2>1, <2>5, <2>7, <4>1, <5>2
      <4>3. CASE ~ (y <= Len(a) - 5)
        <5> HIDE DEF a
        <5> QED
          BY <1>2, <1>3, <1>4, <2>1, <2>2, <4>1, <4>3
      <4> QED
        BY <4>2, <4>3
    <3>2. i - p \in 0 .. Len(a) /\ i - p \in 0 .. Len(s) - p /\ p + (i - p) = i
      <4> HIDE DEF a
      <4> QED
        BY <1>2, <1>3, <1>4, <2>1, <2>2
    <3>3. Items[a] = Items[advance(a, i - p)]
      <4> HIDE DEF a
      <4> QED
        BY <2>2, <3>1, <3>2, DropPrefix
    <3>4. advance(a, i - p) = advance(s, i)
      <4>1. advance(a, i - p) = advance(s, p + (i - p))
        BY <1>2, <2>1, <3>2, AdvanceAgain
      <4> QED
        BY <3>2, <4>1
    <3>5. Good(i)
      BY <1>9, <2>1
    <3> QED
      BY <3>3, <3>4, <3>5 DEF Good
  <2> QED
    BY <2>6, <2>7
<1>10. ASSUME NEW n \in Nat, \A m \in 0 .. n - 1 : m \in I PROVE n \in I
  <2> SUFFICES ASSUME d - n \in 0 .. d PROVE Good(d - n)
    OBVIOUS
  <2>1. CASE d - n >= i
    <3>1. d - n \in i .. d
      BY <1>3, <1>4, <2>1
    <3> QED
      BY <1>8, <3>1
  <2>2. CASE ~ (d - n >= i)
    <3> DEFINE p == d - n
    <3>1. p \in 0 .. i - 1
      BY <1>3, <1>4, <2>2
    <3>2. ASSUME NEW q \in p + 1 .. d PROVE Good(q)
      <4>1. d - q \in 0 .. n - 1 /\ d - (d - q) = q /\ q \in 0 .. d
        BY <1>3, <3>1
      <4>2. d - q \in I
        BY <1>10, <4>1
      <4> QED
        BY <4>1, <4>2
    <3> HIDE DEF p
    <3>3. Good(p)
      BY <1>9, <3>1, <3>2
    <3> QED
      BY <3>3 DEF p
  <2> QED
    BY <2>1, <2>2
<1> HIDE DEF I
<1>11. Nat \subseteq I
  BY <1>10, CompleteInduction
<1>12. ASSUME NEW p \in 0 .. d PROVE Good(p)
  <2>1. d - p \in Nat /\ d - (d - p) = p
    BY <1>3
  <2>2. d - p \in I
    BY <1>11, <2>1
  <2> QED
    BY <2>1, <2>2 DEF I
<1> QED
  BY <1>12 DEF Good, d, t

-----------------------------------------------------------------------------
(* The inductive invariant.  CutsDontMatter speaks of the bytes to come; to *)
(* be kept when the device is unplugged it must hold for any others.        *)

Whole ==
  \A x \in Bytes : out \o Items[Held \o x] = Items[SubSeq(stream, 1, pos) \o x]

\* The line the device sends, with the damaged byte if there is one.
Line(ps, i, line) ==
  \/ i = 0 /\ line = Wire(ps)
  \/ /\ ps \in Damageable /\ DamagedAt(line, Wire(ps), i)
     /\ line[i] \in Wrong /\ line[i] # Wire(ps)[i]

\* What arrives is the line, or the beginning of it that was read before the device was
\* unplugged.
Arrives(line) ==
  /\ Len(stream) <= Len(line) /\ \A k \in 1 .. Len(stream) : stream[k] = line[k]
  /\ ~hungup => stream = line

AsSent ==
  pieces \in Traffic /\ \E line \in Bytes : Line(pieces, hit, line) /\ Arrives(line)

IInv == TypeOK /\ Whole /\ AsSent

\* TypeOK, one variable at a time.
LEMMA Typed ==
  ASSUME TypeOK
  PROVE  /\ stream \in Bytes /\ Len(stream) \in Nat /\ pos \in 0 .. Len(stream)
         /\ state \in FrameStates /\ src \in Bytes /\ out \in Seq(Item)
         /\ Held \in Bytes
<1>1. stream \in Bytes /\ pos \in 0 .. Len(stream) /\ state \in FrameStates /\ src \in Bytes
      /\ out \in Seq(Item)
  BY DEF TypeOK, Bytes, FrameStates
<1>2. Len(stream) \in Nat
  BY <1>1, LenProperties DEF Bytes
<1> QED
  BY <1>1, <1>2, HeldTyped DEF Held

\* Every line the device may send is typed.
LEMMA TrafficItems ==
  ASSUME NEW ps \in Traffic
  PROVE  /\ Wire(ps) \in Bytes /\ Sendables(ps)
         /\ (\A k \in DOMAIN ps : ps[k].kind # "noise") => Items[Wire(ps)] = Payloads(ps)
<1>1. ps \in Seq(Piece)
  BY ConstAssumption
<1>2. DOMAIN ps = 1 .. Len(ps) /\ Len(ps) \in Nat /\ \A k \in 1 .. Len(ps) : ps[k] \in Piece
  BY <1>1, LenProperties, ElementOfSeq
<1>3. \A k \in 1 .. Len(ps) : Sendable(ps[k])
  BY <1>2, ConstAssumption DEF Sendable
<1> QED
  BY <1>1, <1>2, <1>3, WireItems DEF Sendables

LEMMA InitTyped == Init => TypeOK /\ AsSent
<1> SUFFICES ASSUME Init PROVE TypeOK /\ AsSent
  OBVIOUS
<1>1. pieces \in Traffic /\ Wire(pieces) \in Bytes
  BY TrafficItems DEF Init
<1>2. stream \in Bytes /\ Line(pieces, hit, stream)
  <2>1. CASE hit = 0 /\ stream = Wire(pieces)
    BY <1>1, <2>1 DEF Line
  <2>2. CASE \E wire \in {Wire(pieces)} : \E i \in 1 .. Len(wire), b \in Wrong :
               /\ pieces \in Damageable /\ wire[i] # b
               /\ hit = i /\ stream = [wire EXCEPT ![i] = b]
    <3> DEFINE w == Wire(pieces)
    <3>1. PICK i \in 1 .. Len(w), b \in Wrong :
            /\ pieces \in Damageable /\ w[i] # b
            /\ hit = i /\ stream = [w EXCEPT ![i] = b]
      BY <2>2
    <3>2. b \in Byte /\ Len(w) \in Nat
      BY <1>1, ConstAssumption, LenProperties DEF Bytes
    <3> HIDE DEF w
    <3>3. /\ stream \in Bytes /\ Len(stream) = Len(w)
          /\ \A k \in 1 .. Len(w) : stream[k] = IF k = i THEN b ELSE w[k]
      <4>1. w \in Seq(Byte)
        BY <1>1 DEF Bytes, w
      <4> QED
        BY <3>1, <3>2, <4>1, ExceptSeq DEF Bytes
    <3>4. DamagedAt(stream, w, i) /\ stream[i] = b
      BY <1>1, <3>1, <3>3 DEF DamagedAt, w
    <3> QED
      BY <3>1, <3>3, <3>4 DEF Line, w
  <2> QED
    BY <2>1, <2>2 DEF Init
<1>3. pos = 0 /\ state = Wait /\ src = <<>> /\ out = <<>>
      /\ {hungup, readable, eof, failed} \subseteq BOOLEAN
  BY DEF Init
<1>4. Len(stream) \in Nat
  BY <1>2, LenProperties DEF Bytes
<1>5. src \in Seq(Byte) /\ out \in Seq(Item) /\ pos \in 0 .. Len(stream)
  BY <1>3, <1>4, EmptySeq
<1>6. AsSent
  BY <1>1, <1>2, <1>4 DEF AsSent, Arrives
<1> QED
  BY <1>2, <1>3, <1>5, <1>6 DEF TypeOK, Bytes

LEMMA InitWhole == Init => Whole
<1> SUFFICES ASSUME Init, NEW x \in Bytes
             PROVE  out \o Items[Held \o x] = Items[SubSeq(stream, 1, pos) \o x]
  BY DEF Whole
<1>1. pos = 0 /\ state = Wait /\ src = <<>> /\ out = <<>>
  BY DEF Init
<1>2. Held = <<>>
  BY <1>1, HeldInWait, EmptySeq DEF Held, Bytes
<1>3. SubSeq(stream, 1, pos) = <<>>
  BY <1>1, SubSeqEmpty
<1>4. <<>> \o x = x
  BY ConcatEmptySeq DEF Bytes
<1>5. <<>> \o Items[x] = Items[x]
  BY ItemsTyped, ConcatEmptySeq
<1> QED
  BY <1>1, <1>2, <1>3, <1>4, <1>5

\* A read only moves bytes to the buffer.
LEMMA ReadStep ==
  ASSUME TypeOK, Whole, NEW n \in Cuts, Read(n)
  PROVE  TypeOK' /\ Whole'
<1> DEFINE chunk == SubSeq(stream, pos + 1, pos + n)
           done == SubSeq(stream, 1, pos)
<1>1. /\ stream \in Bytes /\ Len(stream) \in Nat /\ pos \in 0 .. Len(stream)
      /\ state \in FrameStates /\ src \in Bytes /\ Held \in Bytes
  BY Typed
<1>2. n \in Nat /\ pos + n <= Len(stream) /\ pos' = pos + n /\ src' = src \o chunk
      /\ UNCHANGED <<stream, state, out, hungup, failed>> /\ readable' = TRUE /\ eof' = FALSE
  BY ConstAssumption DEF Read, lineVars
<1>3. chunk \in Bytes /\ done \in Bytes
  <2>1. \A k \in 1 .. Len(stream) : stream[k] \in Byte
    BY <1>1, ElementOfSeq DEF Bytes
  <2>2. /\ \A k \in pos + 1 .. pos + n : stream[k] \in Byte
        /\ \A k \in 1 .. pos : stream[k] \in Byte
        /\ pos + 1 \in Int /\ pos + n \in Int /\ 1 \in Int /\ pos \in Int
    BY <1>1, <1>2, <2>1
  <2> QED
    BY <2>2, SubSeqProperties DEF Bytes
<1>4. done \o chunk = SubSeq(stream, 1, pos + n)
  <2>1. 1 \in 1 .. Len(stream) + 1 /\ pos \in 1 - 1 .. Len(stream) /\ pos + n \in pos .. Len(stream)
    BY <1>1, <1>2
  <2> QED
    BY <1>1, <2>1, ConcatAdjacentSubSeq DEF Bytes
<1> HIDE DEF chunk, done
<1>5. Held' = Held \o chunk /\ src' \in Bytes
  <2>1. src' \in Bytes
    BY <1>1, <1>2, <1>3, ConcatProperties DEF Bytes
  <2> DEFINE h == IF state.frame THEN FRAME_START \o to_le_bytes(state.len) ELSE <<>>
  <2>2. h \in Bytes
    <3>1. CASE state = Wait
      BY <3>1, EmptySeq DEF Wait, Bytes
    <3>2. ASSUME NEW m \in 0 .. MAX_PAYLOAD_LEN, state = Frame(m) PROVE h \in Bytes
      <4>1. m \in U16 /\ h = HeaderOf(m)
        BY <3>2, LimitTyped DEF Frame, HeaderOf
      <4> QED
        BY <4>1, HeaderThen, EmptySeq DEF Bytes
    <3> QED
      BY <1>1, <3>1, <3>2 DEF FrameStates
  <2>3. Held = h \o src /\ Held' = h \o src'
    BY <1>2 DEF Held, HeldIn
  <2> HIDE DEF h
  <2>4. (h \o src) \o chunk = h \o (src \o chunk)
    BY <1>1, <1>3, <2>2, JoinBytes, ZenonT(60)
  <2> QED
    BY <1>2, <2>1, <2>3, <2>4
<1>6. ASSUME NEW x \in Bytes
      PROVE  out' \o Items[Held' \o x] = Items[SubSeq(stream', 1, pos') \o x]
  <2>1. chunk \o x \in Bytes
    BY <1>3, ConcatProperties DEF Bytes
  <2>2. out \o Items[Held \o (chunk \o x)] = Items[done \o (chunk \o x)]
    BY <2>1 DEF Whole, done
  <2>3. (Held \o chunk) \o x = Held \o (chunk \o x)
    BY <1>1, <1>3, JoinBytes, SMTT(30)
  <2>4. (done \o chunk) \o x = done \o (chunk \o x)
    BY <1>3, ConcatAssociative, SMTT(30) DEF Bytes
  <2>5. SubSeq(stream', 1, pos') = done \o chunk
    BY <1>2, <1>4
  <2> QED
    BY <1>2, <1>5, <2>2, <2>3, <2>4, <2>5
<1>7. Whole'
  BY <1>6 DEF Whole
<1>8. pos' \in 0 .. Len(stream')
  BY <1>1, <1>2
<1> QED
  BY <1>2, <1>5, <1>7, <1>8 DEF TypeOK, Bytes

\* A call of decode.
LEMMA DecodeStep ==
  ASSUME TypeOK, Whole, Decode
  PROVE  TypeOK' /\ Whole'
<1> DEFINE r == decode(state, src)
<1>1. /\ stream \in Bytes /\ Len(stream) \in Nat /\ pos \in 0 .. Len(stream)
      /\ state \in FrameStates /\ src \in Bytes /\ out \in Seq(Item)
  BY Typed
<1>2. state' = r.state /\ src' = r.src /\ out' = out \o r.items
      /\ UNCHANGED <<stream, pos, hungup, eof>>
      /\ readable' = (r.items # <<>>)
      /\ failed' = (eof /\ r.items = <<>> /\ r.src # <<>>)
  BY DEF Decode, lineVars
<1>3. Means(r, Held)
  BY <1>1, DecodeMeans DEF Held
<1> HIDE DEF r
<1>4. r.state \in FrameStates /\ r.src \in Bytes /\ r.items \in Seq(Item)
  BY <1>3 DEF Means
<1>5. Held' = HeldIn(r.state, r.src)
  BY <1>2 DEF Held
<1>6. ASSUME NEW x \in Bytes
      PROVE  out' \o Items[Held' \o x] = Items[SubSeq(stream', 1, pos') \o x]
  <2> DEFINE left == HeldIn(r.state, r.src) \o x
  <2>1. left \in Bytes
    BY <1>4, HeldTyped, ConcatProperties DEF Bytes
  <2>2. Items[left] \in Seq(Item)
    BY <2>1, ItemsTyped
  <2>3. out \o Items[Held \o x] = Items[SubSeq(stream, 1, pos) \o x]
    BY DEF Whole
  <2>4. Items[Held \o x] = r.items \o Items[left]
    BY <1>3, Zenon DEF Means
  <2>5. (out \o r.items) \o Items[left] = out \o (r.items \o Items[left])
    BY <1>1, <1>4, <2>2, JoinItems, Zenon
  <2>6. Held' \o x = left
    BY <1>5
  <2> HIDE DEF left
  <2> QED
    BY <1>2, <2>3, <2>4, <2>5, <2>6
<1>7. Whole'
  BY <1>6 DEF Whole
<1>8. out' \in Seq(Item)
  BY <1>1, <1>2, <1>4, ConcatProperties
<1>9. {hungup, readable, eof, failed}' \subseteq BOOLEAN
  <2>1. hungup \in BOOLEAN /\ eof \in BOOLEAN
    BY DEF TypeOK
  <2>2. readable' \in BOOLEAN /\ failed' \in BOOLEAN /\ hungup' = hungup /\ eof' = eof
    BY <1>2, <2>1, Zenon
  <2> QED
    BY <2>1, <2>2
<1>10. stream' \in Seq(Byte) /\ pos' \in 0 .. Len(stream') /\ state' \in FrameStates
       /\ src' \in Seq(Byte)
  BY <1>1, <1>2, <1>4 DEF Bytes
<1> QED
  BY <1>7, <1>8, <1>9, <1>10 DEF TypeOK, FrameStates

\* The bytes not yet read are gone, those that were are the ones before.
LEMMA HangUpStep ==
  ASSUME TypeOK, Whole, AsSent, HangUp
  PROVE  TypeOK' /\ Whole' /\ AsSent'
<1>1. stream \in Bytes /\ Len(stream) \in Nat /\ pos \in 0 .. Len(stream)
  BY Typed
<1>2. stream' = SubSeq(stream, 1, pos) /\ hungup' = TRUE
      /\ UNCHANGED <<pieces, hit, pos, state, src, readable, eof, out, failed>>
  BY DEF HangUp
<1>3. /\ stream' \in Bytes /\ Len(stream') = pos
      /\ \A k \in 1 .. pos : stream'[k] = stream[k]
  <2>1. \A k \in 1 .. pos : stream[k] \in Byte
    BY <1>1, ElementOfSeq DEF Bytes
  <2>2. 1 \in Int /\ pos \in Int
    BY <1>1
  <2>3. /\ SubSeq(stream, 1, pos) \in Seq(Byte)
        /\ Len(SubSeq(stream, 1, pos)) = IF 1 <= pos THEN pos - 1 + 1 ELSE 0
        /\ \A k \in 1 .. pos - 1 + 1 : SubSeq(stream, 1, pos)[k] = stream[1 + k - 1]
    BY <2>1, <2>2, SubSeqProperties
  <2> DEFINE s == SubSeq(stream, 1, pos)
  <2> HIDE DEF s
  <2>4. s \in Seq(Byte) /\ Len(s) = pos /\ \A k \in 1 .. pos : s[k] = stream[k]
    BY <1>1, <2>3 DEF s
  <2> QED
    BY <1>2, <2>4 DEF s, Bytes
<1>4. SubSeq(stream', 1, pos') = SubSeq(stream, 1, pos)
  BY <1>2, <1>3, SubSeqFull DEF Bytes
<1>5. Held' = Held
  BY <1>2 DEF Held
<1>6. Whole'
  BY <1>2, <1>4, <1>5 DEF Whole
<1>7. pos' \in 0 .. Len(stream')
  BY <1>1, <1>2, <1>3
<1>8. AsSent'
  <2>1. PICK line \in Bytes : Line(pieces, hit, line) /\ Arrives(line)
    BY DEF AsSent
  <2>2. Len(stream) <= Len(line) /\ \A k \in 1 .. Len(stream) : stream[k] = line[k]
    BY <2>1 DEF Arrives
  <2>3. Len(line) \in Nat
    BY LenProperties DEF Bytes
  <2>4. Len(stream') <= Len(line) /\ \A k \in 1 .. Len(stream') : stream'[k] = line[k]
    BY <1>1, <1>3, <2>2, <2>3
  <2>5. Arrives(line)'
    BY <1>2, <2>4 DEF Arrives
  <2> QED
    BY <1>2, <2>1, <2>5 DEF AsSent
<1> QED
  BY <1>2, <1>3, <1>6, <1>7, <1>8 DEF TypeOK, Bytes

LEMMA IInvStep == IInv /\ [Next]_vars => IInv'
<1> SUFFICES ASSUME IInv, [Next]_vars PROVE IInv'
  OBVIOUS
<1> USE DEF IInv
<1>1. ASSUME NEW n \in Cuts, Read(n) PROVE IInv'
  <2>1. AsSent'
    BY <1>1 DEF AsSent, Arrives, Read, lineVars
  <2> QED
    BY <1>1, <2>1, ReadStep
<1>2. CASE Decode
  <2>1. AsSent'
    BY <1>2 DEF AsSent, Arrives, Decode, lineVars
  <2> QED
    BY <1>2, <2>1, DecodeStep
<1>3. CASE HangUp
  BY <1>3, HangUpStep
<1>4. CASE ReadZero
  <2>1. UNCHANGED <<lineVars, pos, hungup, state, src, out, failed>>
        /\ readable' = TRUE /\ eof' = TRUE
    BY <1>4 DEF ReadZero
  <2>2. TypeOK' /\ AsSent'
    BY <2>1 DEF TypeOK, AsSent, Arrives, lineVars
  <2>3. Whole'
    BY <2>1 DEF Whole, Held, lineVars
  <2> QED
    BY <2>2, <2>3
<1>5. CASE UNCHANGED vars
  BY <1>5 DEF TypeOK, AsSent, Arrives, Whole, Held, vars, lineVars
<1> QED
  BY <1>1, <1>2, <1>3, <1>4, <1>5 DEF Next, Quiet

LEMMA Invariance == Spec => []IInv
<1>1. Init => IInv
  BY InitTyped, InitWhole DEF IInv
<1> QED
  BY <1>1, IInvStep, PTL DEF Spec

-----------------------------------------------------------------------------
\* The variables have their types: the buffer and what is returned are bytes the device
\* can send, and a header the codec has accepted is not beyond MAX_PAYLOAD_LEN.
THEOREM CodecTyped == Spec => []TypeOK
<1> QED
  BY Invariance, PTL DEF IInv

LEMMA NoCutMatters == IInv => CutsDontMatter
<1> SUFFICES ASSUME IInv PROVE CutsDontMatter
  OBVIOUS
<1> DEFINE rest == SubSeq(stream, pos + 1, Len(stream))
<1>1. stream \in Bytes /\ Len(stream) \in Nat /\ pos \in 0 .. Len(stream)
  BY Typed DEF IInv
<1>2. rest \in Bytes
  <2>1. rest = advance(stream, pos)
    BY DEF advance
  <2> QED
    BY <1>1, <2>1, Advance
<1>3. SubSeq(stream, 1, pos) \o rest = stream
  <2>1. 1 \in 1 .. Len(stream) + 1 /\ pos \in 1 - 1 .. Len(stream)
        /\ Len(stream) \in pos .. Len(stream)
    BY <1>1
  <2>2. SubSeq(stream, 1, pos) \o rest = SubSeq(stream, 1, Len(stream))
    BY <1>1, <2>1, ConcatAdjacentSubSeq DEF Bytes
  <2> QED
    BY <1>1, <2>2, SubSeqFull DEF Bytes
<1>4. out \o Items[Held \o rest] = Items[SubSeq(stream, 1, pos) \o rest]
  BY <1>2 DEF IInv, Whole
<1> QED
  BY <1>3, <1>4 DEF CutsDontMatter

\* However the bytes are cut into reads, what the codec returns is what the bytes stand
\* for: decode's state and buffer lose, repeat and reorder nothing, damaged or not.
THEOREM CutsNeverMatter == Spec => []CutsDontMatter
<1> QED
  BY Invariance, NoCutMatters, PTL

\* On an undamaged line every frame that encode wrote is delivered, in order, with its
\* data and nothing between.
THEOREM FramesAlwaysArrive == Spec => []FramesArrive
<1>1. IInv => FramesArrive
  <2> SUFFICES ASSUME IInv, hit = 0 /\ ~hungup, \A k \in DOMAIN pieces : pieces[k].kind # "noise"
               PROVE  out \o Items[Held \o SubSeq(stream, pos + 1, Len(stream))] = Payloads(pieces)
    BY DEF FramesArrive
  <2>1. out \o Items[Held \o SubSeq(stream, pos + 1, Len(stream))] = Items[stream]
    BY NoCutMatters DEF CutsDontMatter
  <2>2. pieces \in Traffic /\ stream = Wire(pieces)
    <3>1. PICK line \in Bytes : Line(pieces, hit, line) /\ stream = line
      BY DEF IInv, AsSent, Arrives
    <3>2. ~ DamagedAt(line, Wire(pieces), 0)
      BY DEF DamagedAt
    <3> QED
      BY <3>1, <3>2 DEF Line, IInv, AsSent
  <2> QED
    BY <2>1, <2>2, TrafficItems
<1> QED
  BY <1>1, Invariance, PTL

\* What is behind the front of a sequence.
LEMMA BehindFront ==
  ASSUME NEW front \in Seq(Item), NEW t \in Seq(Item)
  PROVE  Len(front) \in 0 .. Len(front \o t) /\ advance(front \o t, Len(front)) = t
<1> DEFINE s == front \o t
           n == Len(front)
           a == advance(s, n)
<1>1. n \in Nat /\ Len(t) \in Nat
  BY LenProperties
<1>2. /\ s \in Seq(Item) /\ Len(s) = n + Len(t)
      /\ \A k \in 1 .. n + Len(t) : s[k] = IF k <= n THEN front[k] ELSE t[k - n]
  BY ConcatProperties
<1>3. \A k \in n + 1 .. Len(s) : s[k] \in Item
  <2> HIDE DEF s, n
  <2>1. \A k \in n + 1 .. Len(s) : k \in 1 .. Len(s)
    BY <1>1, <1>2
  <2> QED
    BY <1>2, <2>1, ElementOfSeq
<1> HIDE DEF s, n
<1>4. n + 1 \in Int /\ Len(s) \in Int
  BY <1>1, <1>2
<1>5. /\ a \in Seq(Item)
      /\ Len(a) = IF n + 1 <= Len(s) THEN Len(s) - (n + 1) + 1 ELSE 0
      /\ \A k \in 1 .. Len(s) - (n + 1) + 1 : a[k] = s[(n + 1) + k - 1]
  BY <1>3, <1>4, SubSeqProperties DEF advance
<1> HIDE DEF a
<1>6. Len(a) = Len(t)
  BY <1>1, <1>2, <1>5
<1>7. \A k \in 1 .. Len(t) : a[k] = t[k]
  <2> TAKE k \in 1 .. Len(t)
  <2>1. k \in 1 .. Len(s) - (n + 1) + 1 /\ (n + 1) + k - 1 = n + k
        /\ n + k \in 1 .. n + Len(t) /\ ~ (n + k <= n) /\ n + k - n = k
    BY <1>1, <1>2
  <2>2. a[k] = s[n + k]
    BY <1>5, <2>1
  <2>3. s[n + k] = t[k]
    <3>1. PICK m \in 1 .. n + Len(t) : m = n + k
      BY <2>1
    <3>2. s[m] = t[m - n]
      BY <1>1, <1>2, <2>1, <3>1
    <3>3. m - n = k
      BY <1>1, <3>1
    <3> QED
      BY <3>1, <3>2, <3>3
  <2> QED
    BY <2>2, <2>3
<1>8. a = t
  BY <1>5, <1>6, <1>7, SeqEqual
<1>9. n \in 0 .. Len(s)
  BY <1>1, <1>2
<1> QED
  BY <1>8, <1>9 DEF a, s, n

\* One damaged byte costs a bounded stretch of the line: every frame that begins
\* MAX_PAYLOAD_LEN + 8 bytes after it or later is delivered, and from the first of them
\* on nothing else is returned, because decode refuses a length beyond MAX_PAYLOAD_LEN.
THEOREM AlwaysResync == Spec => []Resync
<1>1. IInv => Resync
  <2> DEFINE returned == out \o Items[Held \o SubSeq(stream, pos + 1, Len(stream))]
  <2> SUFFICES ASSUME IInv, hit # 0, ~hungup, StartFree(pieces), NEW j \in DOMAIN pieces,
                      IsFrame(pieces[j]), Begin(pieces, j) >= hit + MAX_PAYLOAD_LEN + 8
               PROVE  \E n \in 0 .. Len(returned) :
                        advance(returned, n) = Payloads(Later(pieces, j))
    BY DEF Resync
  <2>1. returned = Items[stream]
    BY NoCutMatters DEF CutsDontMatter
  <2> HIDE DEF returned
  <2>2. pieces \in Traffic /\ stream \in Bytes
    BY DEF IInv, AsSent, TypeOK, Bytes
  <2>3. Sendables(pieces)
    BY <2>2, TrafficItems
  <2>4. DamagedAt(stream, Wire(pieces), hit)
    BY DEF IInv, AsSent, Line, Arrives
  <2>5. j \in 1 .. Len(pieces) /\ j \in 1 .. Len(pieces) + 1
    <3>1. \A s \in Seq(Piece) : Len(s) \in Nat /\ DOMAIN s = 1 .. Len(s)
      BY LenProperties
    <3>2. Len(pieces) \in Nat /\ DOMAIN pieces = 1 .. Len(pieces)
      BY <2>3, <3>1 DEF Sendables
    <3> QED
      BY <3>2
  <2>6. Place(pieces, j) \in Nat /\ hit \in Nat /\ MAX_PAYLOAD_LEN \in Nat
        /\ Begin(pieces, j) = Place(pieces, j) + 1
    <3>1. Wire(pieces) \in Bytes /\ hit \in 1 .. Len(Wire(pieces))
      BY <2>4 DEF DamagedAt
    <3>2. Len(Wire(pieces)) \in Nat
      BY <3>1, LenProperties DEF Bytes
    <3> QED
      BY <2>3, <2>5, <3>1, <3>2, Places, LimitTyped DEF Begin, Place
  <2>7. hit + MAX_PAYLOAD_LEN + 7 <= Place(pieces, j)
    BY <2>6
  <2>8. \A p \in 0 .. Place(pieces, j) :
          EndsWith(Items[advance(stream, p)], Payloads(Later(pieces, j)))
    BY <2>3, <2>4, <2>5, <2>7, ResyncLine DEF IsFrame
  <2>9. advance(stream, 0) = stream
    BY <2>2, SubSeqFull DEF advance, Bytes
  <2>10. EndsWith(Items[stream], Payloads(Later(pieces, j)))
    <3>1. 0 \in 0 .. Place(pieces, j)
      BY <2>6
    <3> QED
      BY <2>8, <2>9, <3>1
  <2>11. PICK front \in Seq(Item) : Items[stream] = front \o Payloads(Later(pieces, j))
    BY <2>10 DEF EndsWith
  <2>12. Payloads(Later(pieces, j)) \in Seq(Item)
    BY <2>3, <2>5, LaterTyped
  <2> QED
    BY <2>1, <2>11, <2>12, BehindFront
<1> QED
  BY <1>1, Invariance, PTL

-----------------------------------------------------------------------------
(* What an item is the item of.                                             *)

\* x is the item of a header of b.
StandsIn(b, x) == \E i \in Headers(b) : ItemAt(b, i).item = <<x>>

LEMMA ItemsStand ==
  ASSUME NEW b \in Bytes, NEW k \in 1 .. Len(Items[b])
  PROVE  StandsIn(b, Items[b][k])
<1> DEFINE All(c) == \A l \in 1 .. Len(Items[c]) : StandsIn(c, Items[c][l])
           I == {n \in Nat : \A c \in Bytes : Len(c) = n => All(c)}
<1>1. ASSUME NEW n \in Nat, \A m \in 0 .. n - 1 : m \in I PROVE n \in I
  <2> SUFFICES ASSUME NEW c \in Bytes, Len(c) = n, NEW l \in 1 .. Len(Items[c])
               PROVE  StandsIn(c, Items[c][l])
    OBVIOUS
  <2> DEFINE e == FirstItem(c).end
             a == advance(c, e)
  <2>1. Items[c] = Unfold(Items, c)
    BY ItemsOf
  <2>2. FirstItem(c).item # <<>>
    <3>1. CASE FirstItem(c).item = <<>>
      <4>1. Items[c] = <<>>
        BY <2>1, <3>1, Zenon DEF Unfold
      <4>2. Len(<<>>) = 0
        OBVIOUS
      <4>3. ~ (l \in 1 .. 0)
        OBVIOUS
      <4> QED
        BY <4>1, <4>2, <4>3
    <3> QED
      BY <3>1
  <2>3. PICK x \in Item : FirstItem(c).item = <<x>>
    BY <2>2, FirstTyped
  <2>4. e \in 1 .. Len(c) /\ e \in 0 .. Len(c)
    BY <2>2, FirstTyped
  <2>5. Items[c] = <<x>> \o Items[a]
    BY <2>1, <2>2, <2>3, Zenon DEF Unfold
  <2>6. PICK i \in Headers(c) : FirstItem(c) = ItemAt(c, i)
    <3>1. Headers(c) # {}
      BY <2>2 DEF FirstItem
    <3> QED
      BY <3>1, SomeFirst
  <2>7. StandsIn(c, x)
    BY <2>3, <2>6 DEF StandsIn
  <2> HIDE DEF e
  <2>8. a \in Bytes /\ Len(a) = Len(c) - e
    BY <2>4, Advance
  <2> HIDE DEF a
  <2>9. Items[a] \in Seq(Item) /\ Len(Items[a]) \in Nat
    BY <2>8, ItemsTyped, LenProperties
  <2>10. ASSUME NEW m \in 1 .. Len(Items[a]) PROVE StandsIn(c, Items[a][m])
    <3>1. Len(a) \in 0 .. n - 1
      BY <2>4, <2>8, LenProperties DEF Bytes
    <3>2. Len(a) \in I
      BY <1>1, <3>1
    <3>3. StandsIn(a, Items[a][m])
      BY <2>8, <2>10, <3>2
    <3>4. PICK y \in Headers(a) : ItemAt(a, y).item = <<Items[a][m]>>
      BY <3>3 DEF StandsIn
    <3>5. y \in Int /\ y >= 1
      BY <2>8, HeadersInside
    <3>6. y + e \in Headers(c)
      BY <2>4, <3>4, <3>5, HeadersShift DEF a
    <3>7. ItemAt(a, y).item = ItemAt(c, y + e).item
      BY <2>4, ItemShift DEF a
    <3> QED
      BY <3>4, <3>6, <3>7 DEF StandsIn
  <2>11. /\ Len(<<x>> \o Items[a]) = 1 + Len(Items[a])
         /\ \A m \in 1 .. 1 + Len(Items[a]) :
              (<<x>> \o Items[a])[m] = IF m <= 1 THEN x ELSE Items[a][m - 1]
    <3>1. <<x>> \in Seq(Item) /\ Len(<<x>>) = 1 /\ <<x>>[1] = x
      OBVIOUS
    <3>2. /\ Len(<<x>> \o Items[a]) = Len(<<x>>) + Len(Items[a])
          /\ \A m \in 1 .. Len(<<x>>) + Len(Items[a]) :
               (<<x>> \o Items[a])[m] = IF m <= Len(<<x>>) THEN <<x>>[m] ELSE Items[a][m - Len(<<x>>)]
      BY <2>9, <3>1, ConcatProperties, Zenon
    <3>3. \A m \in 1 .. 1 + Len(Items[a]) : m <= 1 => m = 1
      BY <2>9
    <3> QED
      BY <3>1, <3>2, <3>3, Zenon
  <2>12. CASE l = 1
    <3>1. Items[c][l] = x
      <4>1. 1 \in 1 .. 1 + Len(Items[a]) /\ 1 <= 1
        BY <2>9
      <4> QED
        BY <2>5, <2>11, <2>12, <4>1, Zenon
    <3> QED
      BY <2>7, <3>1
  <2>13. CASE l # 1
    <3>1. l \in 1 .. 1 + Len(Items[a])
      BY <2>5, <2>11
    <3>2. ~ (l <= 1) /\ l - 1 \in 1 .. Len(Items[a])
      BY <2>9, <2>13, <3>1
    <3>3. Items[c][l] = Items[a][l - 1]
      BY <2>5, <2>11, <3>1, <3>2, Zenon
    <3> QED
      BY <2>10, <3>2, <3>3
  <2> QED
    BY <2>12, <2>13
<1> HIDE DEF I
<1>2. Nat \subseteq I
  BY <1>1, CompleteInduction
<1>3. Len(b) \in I
  BY <1>2, LenProperties DEF Bytes
<1> QED
  BY <1>3 DEF I

\* An item that is data is what a header announces, and its checksum is right.
LEMMA OkItem ==
  ASSUME NEW b \in Bytes, NEW i \in Headers(b), NEW x, ItemAt(b, i).item = <<x>>, IsOk(x),
         NEW n, n = from_le_bytes(b[i + 4], b[i + 5])
  PROVE  /\ i + n + 7 <= Len(b) /\ x.data = SubSeq(b, i + 6, i + n + 5)
         /\ checksum(x.data) = from_le_bytes(b[i + n + 6], b[i + n + 7])
<1> DEFINE data == SubSeq(b, i + 6, i + n + 5)
           crc == from_le_bytes(b[i + n + 6], b[i + n + 7])
           o == ItemAt(b, i)
<1>1. i \in Nat /\ Len(b) \in Nat /\ i \in 1 .. Len(b) - 5
  BY HeadersInside, LenProperties DEF Bytes
<1>2. n \in Nat
  <2>1. b[i + 4] \in Byte /\ b[i + 5] \in Byte
    BY <1>1, ElementOfSeq DEF Bytes
  <2> QED
    BY <2>1, FromBytes
<1>3. ~ IsOk(InvalidLength) /\ ~ IsOk(InvalidCRC) /\ \A d : Ok(d).data = d
  BY DEF IsOk, InvalidLength, InvalidCRC, Ok
<1>4. \A y : <<x>> = <<y>> => x = y
  OBVIOUS
<1>5. o.item = <<x>> /\ <<x>> # <<>>
  OBVIOUS
<1>6. ~TooLong(n)
  <2>1. CASE TooLong(n)
    <3>1. o = [item |-> <<InvalidLength>>, end |-> i + 5]
      BY <2>1, Zenon DEF ItemAt
    <3> HIDE DEF o
    <3>2. o.item = <<InvalidLength>>
      BY <3>1
    <3> QED
      BY <1>3, <1>4, <1>5, <3>2
  <2> QED
    BY <2>1
<1>7. ~ (i + n + 7 > Len(b))
  <2>1. CASE i + n + 7 > Len(b)
    <3>1. o = [item |-> <<>>, end |-> Len(b)]
      BY <1>6, <2>1, Zenon DEF ItemAt
    <3> HIDE DEF o
    <3>2. o.item = <<>>
      BY <3>1
    <3> QED
      BY <1>5, <3>2
  <2> QED
    BY <2>1
<1> DEFINE y == IF checksum(data) = crc THEN Ok(data) ELSE InvalidCRC
<1>8. x = y
  <2>1. o = [item |-> <<y>>, end |-> i + n + 7]
    BY <1>6, <1>7, Zenon DEF ItemAt
  <2> HIDE DEF o, y
  <2>2. o.item = <<y>>
    BY <2>1
  <2> QED
    BY <1>4, <1>5, <2>2
<1> HIDE DEF data, crc
<1>9. checksum(data) = crc /\ x = Ok(data)
  BY <1>3, <1>8
<1>10. i + n + 7 <= Len(b)
  BY <1>1, <1>2, <1>7
<1>11. x.data = data
  BY <1>3, <1>9
<1> QED
  BY <1>9, <1>10, <1>11, Zenon DEF data, crc

\* Data whose header was not damaged is what a frame carried.
LEMMA SentData ==
  ASSUME NEW ps \in Traffic, StartFree(ps), NEW h, NEW line \in Bytes, Line(ps, h, line),
         NEW b \in Bytes, Len(b) <= Len(line), \A k \in 1 .. Len(b) : b[k] = line[k],
         NEW i \in Headers(b), ~ (h \in i .. i + FRAME_HEADER_LEN - 1),
         NEW x, ItemAt(b, i).item = <<x>>, IsOk(x)
  PROVE  \E j \in DOMAIN ps : IsFrame(ps[j]) /\ ps[j].bytes = x.data
<1> DEFINE w == Wire(ps)
<1>1. w \in Bytes /\ Sendables(ps)
  BY TrafficItems
<1>2. ps \in Seq(Piece) /\ DOMAIN ps = 1 .. Len(ps)
  <2>1. \A s \in Seq(Piece) : DOMAIN s = 1 .. Len(s)
    BY LenProperties
  <2> QED
    BY <1>1, <2>1 DEF Sendables
<1>3. Len(w) \in Nat /\ Len(b) \in Nat /\ Len(line) \in Nat
  BY <1>1, LenProperties DEF Bytes
<1>4. /\ Len(b) <= Len(w) /\ \A k \in 1 .. Len(b) : k # h => b[k] = w[k]
      /\ h \in 1 .. Len(w) => ps \in Damageable /\ line[h] \in Wrong /\ line[h] # w[h]
  <2>1. CASE h = 0 /\ line = w
    <3> HIDE DEF w
    <3> QED
      BY <1>3, <2>1
  <2>2. CASE /\ ps \in Damageable /\ DamagedAt(line, w, h)
             /\ line[h] \in Wrong /\ line[h] # w[h]
    <3> HIDE DEF w
    <3>1. Len(line) = Len(w) /\ \A k \in 1 .. Len(w) : k # h => line[k] = w[k]
      BY <2>2 DEF DamagedAt
    <3> QED
      BY <1>3, <2>2, <3>1
  <2> QED
    BY <2>1, <2>2 DEF Line
<1>5. /\ i \in Nat /\ 1 <= i /\ i <= Len(b) - 5
      /\ b[i] = 170 /\ b[i + 1] = 204 /\ b[i + 2] = 170 /\ b[i + 3] = 204
  <2>1. i \in 1 .. Len(b) - 5
    BY HeadersInside
  <2>2. i \in Int /\ i \in Nat /\ 1 <= i /\ i <= Len(b) - 5
    BY <1>3, <2>1
  <2> QED
    BY <2>2, HeaderIs
<1> HIDE DEF w
<1>6. \A k \in i .. i + 5 : k \in 1 .. Len(b) /\ k # h /\ b[k] = w[k]
  <2>1. i + FRAME_HEADER_LEN - 1 = i + 5
    BY <1>5 DEF FRAME_HEADER_LEN
  <2>2. \A k \in i .. i + 5 : k # h
    BY <2>1
  <2>3. \A k \in i .. i + 5 : k \in 1 .. Len(b)
    BY <1>3, <1>5
  <2> QED
    BY <1>4, <2>2, <2>3, Zenon
<1>7. PICK j \in 1 .. Len(ps) : ps[j].kind = "frame" /\ i = Place(ps, j) + 1
  <2>1. b[i] = w[i] /\ b[i + 1] = w[i + 1] /\ b[i + 2] = w[i + 2] /\ b[i + 3] = w[i + 3]
    BY <1>5, <1>6
  <2>2. i \in 1 .. Len(w) - 3 /\ i \in Int
    BY <1>3, <1>4, <1>5
  <2>3. i \in StartsAt(w)
    BY <1>1, <1>5, <2>1, <2>2, StartBytes
  <2> QED
    BY <1>1, <2>3, FrameAtStart DEF w
<1> DEFINE d == Place(ps, j)
           item == ps[j].bytes
           e == encode(item)
           n == Len(item)
           data == x.data
<1>8. /\ item \in Bytes /\ Encodable(item) /\ checksum(item) \in U16
      /\ d \in Nat /\ d + n + 8 <= Len(w)
      /\ \A k \in 1 .. n + 8 : w[d + k] = e[k]
  BY <1>1, <1>7, FrameOnLine DEF w
<1>9. n \in Nat
  BY <1>8, LenProperties DEF Bytes
<1>10. /\ from_le_bytes(e[5], e[6]) = n
       /\ \A k \in 1 .. n : e[6 + k] = item[k]
       /\ from_le_bytes(e[n + 7], e[n + 8]) = checksum(item)
  <2>1. item \in Bytes /\ Encodable(item) /\ checksum(item) \in U16
    BY <1>8
  <2> HIDE DEF item
  <2> QED
    BY <2>1, EncodeBytes
<1>11. i = d + 1 /\ d \in Nat
  BY <1>7, <1>8
<1> HIDE DEF d, item, e, n, data
<1>12. n = from_le_bytes(b[i + 4], b[i + 5])
  <2>1. i + 4 \in i .. i + 5 /\ i + 5 \in i .. i + 5 /\ i + 4 = d + 5 /\ i + 5 = d + 6
    BY <1>11
  <2>2. 5 \in 1 .. n + 8 /\ 6 \in 1 .. n + 8
    BY <1>9
  <2>3. b[i + 4] = w[i + 4] /\ b[i + 5] = w[i + 5] /\ w[d + 5] = e[5] /\ w[d + 6] = e[6]
    BY <1>6, <1>8, <2>1, <2>2
  <2> QED
    BY <1>10, <2>1, <2>3
<1>13. /\ i + n + 7 <= Len(b) /\ data = SubSeq(b, i + 6, i + n + 5)
       /\ checksum(data) = from_le_bytes(b[i + n + 6], b[i + n + 7])
  BY <1>12, OkItem DEF data
<1>14. data \in Bytes /\ Len(data) = n /\ \A k \in 1 .. n : data[k] = b[i + 5 + k]
  <2>1. \A k \in i + 6 .. i + n + 5 : b[k] \in Byte
    <3>1. \A k \in i + 6 .. i + n + 5 : k \in 1 .. Len(b)
      BY <1>3, <1>5, <1>9, <1>13
    <3> QED
      BY <3>1, ElementOfSeq DEF Bytes
  <2>2. i + 6 \in Int /\ i + n + 5 \in Int
    BY <1>5, <1>9
  <2> DEFINE lo == i + 6
             hi == i + n + 5
             s == SubSeq(b, lo, hi)
  <2> HIDE DEF lo, hi
  <2>3. /\ s \in Seq(Byte)
        /\ Len(s) = IF lo <= hi THEN hi - lo + 1 ELSE 0
        /\ \A k \in 1 .. hi - lo + 1 : s[k] = b[lo + k - 1]
    BY <2>1, <2>2, SubSeqProperties, SMTT(20) DEF lo, hi
  <2> HIDE DEF s
  <2>4. hi - lo + 1 = n /\ lo \in Int /\ hi \in Int /\ \A k \in 1 .. n : lo + k - 1 = i + 5 + k
    BY <1>5, <1>9 DEF lo, hi
  <2>5. Len(s) = n
    BY <1>9, <2>3, <2>4
  <2>6. \A k \in 1 .. n : s[k] = b[i + 5 + k]
    BY <2>3, <2>4
  <2>7. data = s
    BY <1>13 DEF s, lo, hi
  <2> QED
    BY <2>3, <2>5, <2>6, <2>7 DEF Bytes
\* The line has the frame's bytes, but for the damaged one.
<1>15. \A k \in 1 .. n + 8 : i - 1 + k \in 1 .. Len(b)
                            /\ (i - 1 + k # h => b[i - 1 + k] = e[k])
  <2> TAKE k \in 1 .. n + 8
  <2>1. i - 1 + k \in 1 .. Len(b) /\ i - 1 + k = d + k
    BY <1>3, <1>5, <1>8, <1>9, <1>11, <1>13
  <2>2. w[d + k] = e[k]
    BY <1>8
  <2> QED
    BY <1>4, <2>1, <2>2
<1>16. \A k \in 1 .. n : /\ 6 + k \in 1 .. n + 8 /\ i - 1 + (6 + k) = i + 5 + k
                        /\ (i + 5 + k # h => data[k] = item[k])
  <2> TAKE k \in 1 .. n
  <2>1. 6 + k \in 1 .. n + 8 /\ i - 1 + (6 + k) = i + 5 + k
    BY <1>5, <1>9
  <2>2. i - 1 + (6 + k) # h => b[i - 1 + (6 + k)] = e[6 + k]
    BY <1>15, <2>1
  <2>3. e[6 + k] = item[k] /\ data[k] = b[i + 5 + k]
    BY <1>10, <1>14
  <2> QED
    BY <2>1, <2>2, <2>3
<1>17. ASSUME NEW m \in 1 .. n, h = i + 5 + m PROVE FALSE
  <2>1. h \in 1 .. Len(w) /\ b[h] = line[h]
    <3>1. i - 1 + (6 + m) \in 1 .. Len(b) /\ i - 1 + (6 + m) = h
      BY <1>15, <1>16, <1>17
    <3> QED
      BY <1>3, <1>4, <3>1
  <2>2. ps \in Damageable /\ line[h] \in Wrong /\ line[h] # w[h]
    BY <1>4, <2>1
  <2>3. w[h] = item[m]
    <3>1. h = d + (6 + m) /\ 6 + m \in 1 .. n + 8
      BY <1>5, <1>8, <1>9, <1>11, <1>17
    <3>2. w[d + (6 + m)] = e[6 + m] /\ e[6 + m] = item[m]
      BY <1>8, <1>10, <3>1
    <3> QED
      BY <3>1, <3>2
  <2>4. data[m] = line[h]
    BY <1>14, <1>17, <2>1
  <2>5. data = [item EXCEPT ![m] = line[h]]
    <3> DEFINE f == [item EXCEPT ![m] = line[h]]
    <3>1. line[h] \in Byte
      BY <2>2, ConstAssumption
    <3>2. f \in Bytes /\ Len(f) = n /\ \A k \in 1 .. n : f[k] = IF k = m THEN line[h] ELSE item[k]
      <4>1. item \in Seq(Byte) /\ Len(item) = n
        BY <1>8 DEF Bytes, n
      <4> QED
        BY <3>1, <4>1, ExceptSeq DEF Bytes
    <3> HIDE DEF f
    <3>3. \A k \in 1 .. n : data[k] = f[k]
      <4> TAKE k \in 1 .. n
      <4>1. k # m => i + 5 + k # h
        BY <1>5, <1>17
      <4> QED
        BY <1>16, <2>4, <3>2, <4>1
    <3> QED
      BY <1>14, <3>2, <3>3, SeqEqual DEF f, Bytes
  <2>6. checksum(data) = checksum(item)
    <3>1. i + n + 6 = i - 1 + (n + 7) /\ i + n + 7 = i - 1 + (n + 8)
          /\ n + 7 \in 1 .. n + 8 /\ n + 8 \in 1 .. n + 8
          /\ i - 1 + (n + 7) # h /\ i - 1 + (n + 8) # h
      BY <1>5, <1>9, <1>17
    <3>2. b[i + n + 6] = e[n + 7] /\ b[i + n + 7] = e[n + 8]
      BY <1>15, <3>1
    <3> QED
      BY <1>10, <1>13, <3>2
  <2>7. checksum([item EXCEPT ![m] = line[h]]) # checksum(item)
    <3>1. j \in DOMAIN ps /\ m \in DOMAIN item
      <4>1. \A s \in Seq(Byte) : DOMAIN s = 1 .. Len(s)
        BY LenProperties
      <4> QED
        BY <1>2, <1>8, <4>1 DEF n, Bytes
    <3>2. line[h] # item[m]
      BY <2>2, <2>3
    <3> QED
      BY <1>7, <2>2, <3>1, <3>2, ChecksumAssumption DEF item
  <2> QED
    BY <2>5, <2>6, <2>7
<1>18. data = item
  <2>1. \A k \in 1 .. n : i + 5 + k # h
    BY <1>17
  <2>2. \A k \in 1 .. n : data[k] = item[k]
    BY <1>16, <2>1
  <2>3. item \in Seq(Byte) /\ Len(item) = n /\ data \in Seq(Byte) /\ Len(data) = n
    BY <1>8, <1>14 DEF n, Bytes
  <2> QED
    BY <2>2, <2>3, SeqEqual
<1> QED
  BY <1>2, <1>7, <1>18 DEF IsFrame, item, data

\* A damaged byte never becomes data nobody sent: the length or the checksum gives it
\* away, as long as the checksum tells one wrong byte of the data and a damaged header is
\* not followed by what looks like its checksum.
THEOREM NeverForged == Spec => []NothingForged
<1>1. IInv => NothingForged
  <2> SUFFICES ASSUME IInv, StartFree(pieces), ~PassedByChance, NEW k \in DOMAIN out,
                      IsOk(out[k])
               PROVE  \E j \in DOMAIN pieces : IsFrame(pieces[j]) /\ pieces[j].bytes = out[k].data
    BY DEF NothingForged
  <2>1. /\ stream \in Bytes /\ Len(stream) \in Nat /\ pos \in 0 .. Len(stream)
        /\ out \in Seq(Item) /\ Held \in Bytes
    BY Typed DEF IInv
  <2>2. PICK line \in Bytes : Line(pieces, hit, line) /\ Arrives(line)
    BY DEF IInv, AsSent
  <2> DEFINE rest == SubSeq(stream, pos + 1, Len(stream))
             tail == Items[Held \o rest]
             x == out[k]
  <2>3. out \o tail = Items[stream]
    BY NoCutMatters DEF CutsDontMatter
  <2>4. tail \in Seq(Item)
    <3>1. rest = advance(stream, pos)
      BY DEF advance
    <3>2. rest \in Bytes
      BY <2>1, <3>1, Advance
    <3> HIDE DEF rest
    <3>3. Held \o rest \in Bytes
      BY <2>1, <3>2, ConcatProperties DEF Bytes
    <3> QED
      BY <3>3, ItemsTyped
  <2> HIDE DEF tail
  <2>5. k \in 1 .. Len(out) /\ Len(out) \in Nat /\ Len(tail) \in Nat
    <3>1. \A s \in Seq(Item) : Len(s) \in Nat /\ DOMAIN s = 1 .. Len(s)
      BY LenProperties
    <3> QED
      BY <2>1, <2>4, <3>1
  <2>6. k \in 1 .. Len(Items[stream]) /\ Items[stream][k] = x
    <3>1. /\ Len(out \o tail) = Len(out) + Len(tail)
          /\ \A m \in 1 .. Len(out) + Len(tail) :
               (out \o tail)[m] = IF m <= Len(out) THEN out[m] ELSE tail[m - Len(out)]
      BY <2>1, <2>4, ConcatProperties, Zenon
    <3>2. k \in 1 .. Len(out) + Len(tail) /\ k <= Len(out)
      BY <2>5
    <3> QED
      BY <2>3, <3>1, <3>2, Zenon
  <2>7. PICK i \in Headers(stream) : ItemAt(stream, i).item = <<x>>
    BY <2>1, <2>6, ItemsStand DEF StandsIn
  <2> HIDE DEF x
  <2>8. IsOk(x)
    BY DEF x
  <2>9. ~ (hit \in i .. i + FRAME_HEADER_LEN - 1)
    <3>1. ItemAt(stream, i).item # <<>> /\ ItemAt(stream, i).item[1] = x
      BY <2>7
    <3> QED
      BY <2>8, <3>1, Zenon DEF PassedByChance
  <2>10. pieces \in Traffic
    BY DEF IInv, AsSent
  <2>11. Len(stream) <= Len(line) /\ \A m \in 1 .. Len(stream) : stream[m] = line[m]
    BY <2>2 DEF Arrives
  <2>12. \E j \in DOMAIN pieces : IsFrame(pieces[j]) /\ pieces[j].bytes = x.data
    BY <2>1, <2>2, <2>7, <2>8, <2>9, <2>10, <2>11, SentData
  <2> QED
    BY <2>12 DEF x
<1> QED
  BY <1>1, Invariance, PTL
=============================================================================
