------------------------ MODULE ListAllocatorProofs -------------------------
(***************************************************************************)
(* What ListAllocator promises holds for every heap and every set of       *)
(* layouts.                                                                *)
(***************************************************************************)
EXTENDS ListAllocator, TLAPS

(* Arithmetic *)

LEMMA Quotient ==
  ASSUME NEW a \in Nat, NEW d \in Nat \ {0}
  PROVE  /\ a \div d \in Nat
         /\ a = d * (a \div d) + (a % d) /\ 0 <= a % d /\ a % d < d
OBVIOUS

LEMMA Multiple ==
  ASSUME NEW d \in Nat \ {0}, NEW q \in Nat
  PROVE  (q * d) % d = 0
OBVIOUS

LEMMA MultipleOf8 ==
  ASSUME NEW d \in Nat \ {0}, NEW q \in Nat, d % 8 = 0
  PROVE  (q * d) % 8 = 0
<1>1. PICK k \in Nat : d = 8 * k
  OBVIOUS
<1>2. q * d = 8 * (q * k) /\ q * k \in Nat
  BY <1>1
<1>3. \A m \in Nat : (8 * m) % 8 = 0
  OBVIOUS
<1> QED BY <1>2, <1>3, Zenon

LEMMA SumOf8 ==
  ASSUME NEW x \in Nat, NEW y \in Nat, x % 8 = 0, y % 8 = 0
  PROVE  (x + y) % 8 = 0
OBVIOUS

LEMMA Divides8 ==
  ASSUME NEW x \in Nat, NEW d \in Nat \ {0}, d % 8 = 0, x % d = 0
  PROVE  x % 8 = 0
<1>1. x \div d \in Nat /\ x = (x \div d) * d
  BY Quotient
<1> QED BY <1>1, MultipleOf8, Zenon

(* Rounding up. *)
LEMMA AlignUpOK ==
  ASSUME NEW a \in Nat, NEW d \in Nat \ {0}
  PROVE  /\ AlignUp(a, d) \in Nat /\ AlignUp(a, d) % d = 0
         /\ a <= AlignUp(a, d) /\ AlignUp(a, d) < a + d
         /\ d % 8 = 0 => AlignUp(a, d) % 8 = 0
<1> DEFINE q == (a + d - 1) \div d
<1>1. /\ q \in Nat /\ d * q <= a + d - 1 /\ a + d - 1 < d * q + d
  BY Quotient, a + d - 1 \in Nat
<1>2. AlignUp(a, d) = q * d
  BY DEF AlignUp
<1>3. AlignUp(a, d) \in Nat /\ a <= AlignUp(a, d) /\ AlignUp(a, d) < a + d
  BY <1>1, <1>2
<1>4. AlignUp(a, d) % d = 0 /\ (d % 8 = 0 => AlignUp(a, d) % 8 = 0)
  BY <1>1, <1>2, Multiple, MultipleOf8, Zenon
<1> QED BY <1>3, <1>4

(* size_align: a block can hold what was asked for, and a ListNode. *)
LEMMA LayoutOK ==
  ASSUME NEW l \in Layouts
  PROVE  /\ AlignOf(l) \in Nat \ {0} /\ AlignOf(l) % 8 = 0
         /\ l.align <= 8 => AlignOf(l) = 8
         /\ \A x \in Nat : x % AlignOf(l) = 0 => x % l.align = 0 /\ x % 8 = 0
         /\ l.size \in Nat \ {0}
         /\ SizeOf(l) \in Nat /\ SizeOf(l) >= 16 /\ SizeOf(l) % 8 = 0
         /\ SizeOf(l) >= l.size
<1>1. /\ l.size \in Nat \ {0} /\ l.align \in Nat \ {0}
      /\ l.align % 8 = 0 \/ 8 % l.align = 0
  BY ListAllocatorAssumption DEF NodeAlign
<1>2. /\ AlignOf(l) \in Nat \ {0} /\ AlignOf(l) % 8 = 0
      /\ l.align <= 8 => AlignOf(l) = 8
      /\ l.align >= 8 => AlignOf(l) = l.align
  BY <1>1 DEF AlignOf, NodeAlign
<1>3. ASSUME NEW x \in Nat, x % AlignOf(l) = 0
      PROVE  x % l.align = 0 /\ x % 8 = 0
  <2>1. CASE l.align < 8
    <3>1. l.align \in {1, 2, 4}
      BY <1>1, <2>1
    <3> QED BY <1>2, <1>3, <2>1, <3>1
  <2>2. CASE l.align >= 8
    BY <1>2, <1>3, <2>2, Divides8
  <2> QED BY <1>1, <2>1, <2>2
<1>4. /\ SizeOf(l) \in Nat /\ SizeOf(l) >= 16 /\ SizeOf(l) % 8 = 0
      /\ SizeOf(l) >= l.size
  <2> DEFINE padded == AlignUp(l.size, AlignOf(l))
  <2>1. padded \in Nat /\ padded >= l.size /\ padded % 8 = 0
    BY <1>1, <1>2, AlignUpOK, Zenon
  <2>2. SizeOf(l) = IF padded < 16 THEN 16 ELSE padded
    BY DEF SizeOf, NodeSize
  <2> HIDE DEF padded
  <2> QED BY <1>1, <2>1, <2>2
<1> QED BY <1>1, <1>2, <1>3, <1>4
-----------------------------------------------------------------------------
(* Lists *)

BlockOK(b) ==
  b \in Blocks /\ b.size >= NodeSize /\ b.start % NodeAlign = 0 /\ b.size % NodeAlign = 0

(* What FreeListOK says of a list. *)
Sorted(f) ==
  /\ f \in Seq(Blocks)
  /\ \A i \in DOMAIN f : BlockOK(f[i])
  /\ \A i, j \in DOMAIN f : i < j => End(f[i]) < f[j].start

LEMMA BlockFields ==
  ASSUME NEW b \in Blocks
  PROVE  b.start \in Nat /\ b.size \in Nat /\ End(b) = b.start + b.size
BY DEF Blocks, End

LEMMA MakeBlock ==
  ASSUME NEW a \in Nat, NEW n \in Nat
  PROVE  /\ Block(a, n) \in Blocks /\ Block(a, n).start = a /\ Block(a, n).size = n
         /\ End(Block(a, n)) = a + n
BY DEF Block, Blocks, End

(* Concatenations and parts of sequences *)
LEMMA Concat ==
  ASSUME NEW S, NEW a \in Seq(S), NEW b \in Seq(S)
  PROVE  /\ a \o b \in Seq(S) /\ Len(a \o b) = Len(a) + Len(b)
         /\ \A i \in 1 .. Len(a) + Len(b) :
              (a \o b)[i] = IF i <= Len(a) THEN a[i] ELSE b[i - Len(a)]
OBVIOUS

LEMMA Front ==
  ASSUME NEW S, NEW f \in Seq(S), NEW n \in 0 .. Len(f)
  PROVE  /\ SubSeq(f, 1, n) \in Seq(S) /\ Len(SubSeq(f, 1, n)) = n
         /\ \A i \in 1 .. n : SubSeq(f, 1, n)[i] = f[i]
OBVIOUS

LEMMA Back ==
  ASSUME NEW S, NEW f \in Seq(S), NEW m \in 1 .. Len(f) + 1
  PROVE  /\ SubSeq(f, m, Len(f)) \in Seq(S)
         /\ Len(SubSeq(f, m, Len(f))) = Len(f) + 1 - m
         /\ \A i \in 1 .. Len(f) + 1 - m : SubSeq(f, m, Len(f))[i] = f[m + i - 1]
OBVIOUS

(* A block in place of the blocks between positions p and q. *)
Splice(f, p, n, q) == SubSeq(f, 1, p) \o <<n>> \o SubSeq(f, q, Len(f))

IsSplice(g, f, p, n, q) ==
  /\ Len(g) = Len(f) + p + 2 - q
  /\ \A i \in 1 .. p : g[i] = f[i]
  /\ g[p + 1] = n
  /\ \A i \in q .. Len(f) : g[i - q + p + 2] = f[i]

LEMMA SpliceSeq ==
  ASSUME NEW S, NEW f \in Seq(S), NEW n \in S, NEW p \in Nat, NEW q \in Nat,
         p < q, q <= Len(f) + 1
  PROVE  Splice(f, p, n, q) \in Seq(S) /\ IsSplice(Splice(f, p, n, q), f, p, n, q)
<1> DEFINE a == SubSeq(f, 1, p)
           c == SubSeq(f, q, Len(f))
<1>1. /\ a \in Seq(S) /\ Len(a) = p /\ \A i \in 1 .. p : a[i] = f[i]
  <2>1. p \in 0 .. Len(f)
    OBVIOUS
  <2> QED BY <2>1, Front
<1>2. /\ c \in Seq(S) /\ Len(c) = Len(f) + 1 - q
      /\ \A i \in 1 .. Len(f) + 1 - q : c[i] = f[q + i - 1]
  <2>1. q \in 1 .. Len(f) + 1
    OBVIOUS
  <2> QED BY <2>1, Back
<1>3. <<n>> \in Seq(S) /\ Len(<<n>>) = 1 /\ <<n>>[1] = n
  OBVIOUS
<1> HIDE DEF a, c
<1> DEFINE b == a \o <<n>>
<1>4. /\ b \in Seq(S) /\ Len(b) = p + 1
      /\ \A i \in 1 .. p + 1 : b[i] = IF i <= p THEN f[i] ELSE n
  BY <1>1, <1>3, Concat
<1> HIDE DEF b
<1> DEFINE g == b \o c
<1>5. /\ g \in Seq(S) /\ Len(g) = Len(b) + Len(c)
      /\ \A i \in 1 .. Len(b) + Len(c) :
           g[i] = IF i <= Len(b) THEN b[i] ELSE c[i - Len(b)]
  BY <1>2, <1>4, Concat, Zenon
<1> HIDE DEF g
<1>6. Len(f) \in Nat
  OBVIOUS
<1>7. Len(g) = Len(f) + p + 2 - q
  BY <1>2, <1>4, <1>5, <1>6
<1>8. ASSUME NEW i \in 1 .. p PROVE g[i] = f[i]
  <2>1. i \in 1 .. Len(b) + Len(c) /\ i <= Len(b) /\ i \in 1 .. p + 1 /\ i <= p
    BY <1>2, <1>4, <1>6
  <2> QED BY <1>4, <1>5, <2>1
<1>9. g[p + 1] = n
  <2>1. p + 1 \in 1 .. Len(b) + Len(c) /\ p + 1 <= Len(b) /\ b[p + 1] = n
    BY <1>2, <1>4, <1>6
  <2> QED BY <1>5, <2>1
<1>10. ASSUME NEW i \in q .. Len(f) PROVE g[i - q + p + 2] = f[i]
  <2>1. /\ i - q + p + 2 \in 1 .. Len(b) + Len(c) /\ i - q + p + 2 > Len(b)
        /\ i - q + p + 2 - Len(b) = i - q + 1
    BY <1>2, <1>4, <1>6
  <2>2. g[i - q + p + 2] = c[i - q + 1]
    BY <1>4, <1>5, <2>1
  <2>3. i - q + 1 \in 1 .. Len(f) + 1 - q /\ q + (i - q + 1) - 1 = i
    BY <1>6
  <2> QED BY <1>2, <2>2, <2>3
<1> QED BY <1>5, <1>7, <1>8, <1>9, <1>10, Zenon DEF a, b, c, g, Splice, IsSplice

(* It belongs there and touches neither neighbour. *)
Between(f, p, n, q) ==
  /\ p >= 1 => End(f[p]) < n.start
  /\ q <= Len(f) => End(n) < f[q].start

LEMMA SpliceSorted ==
  ASSUME NEW f, Sorted(f), NEW n, BlockOK(n), NEW p \in Nat, NEW q \in Nat,
         p < q, q <= Len(f) + 1, Between(f, p, n, q)
  PROVE  /\ Sorted(Splice(f, p, n, q))
         /\ \A b : b \in Range(Splice(f, p, n, q)) <=>
                     b = n \/ \E i \in 1 .. Len(f) : (i <= p \/ i >= q) /\ b = f[i]
<1> DEFINE g == Splice(f, p, n, q)
<1>1. f \in Seq(Blocks) /\ n \in Blocks /\ Len(f) \in Nat /\ DOMAIN f = 1 .. Len(f)
  BY DEF Sorted, BlockOK
<1>2. /\ g \in Seq(Blocks) /\ Len(g) = Len(f) + p + 2 - q
      /\ \A i \in 1 .. p : g[i] = f[i]
      /\ g[p + 1] = n
      /\ \A i \in q .. Len(f) : g[i - q + p + 2] = f[i]
  <2>1. g \in Seq(Blocks) /\ IsSplice(g, f, p, n, q)
    BY <1>1, SpliceSeq
  <2> QED BY <2>1, Zenon DEF IsSplice
<1> HIDE DEF g
<1>3. /\ DOMAIN g = 1 .. Len(f) + p + 2 - q
      /\ \A i \in DOMAIN g : i > p + 1 => /\ i + q - p - 2 \in q .. Len(f)
                                         /\ g[i] = f[i + q - p - 2]
  <2>1. DOMAIN g = 1 .. Len(f) + p + 2 - q
    BY <1>2
  <2>2. ASSUME NEW i \in DOMAIN g, i > p + 1
        PROVE  i + q - p - 2 \in q .. Len(f) /\ g[i] = f[i + q - p - 2]
    <3> DEFINE k == i + q - p - 2
    <3>1. i \in Int /\ i > p + 1 /\ i <= Len(f) + p + 2 - q /\ Len(f) \in Int
      BY <1>1, <2>1, <2>2
    <3>2. k \in q .. Len(f) /\ k - q + p + 2 = i
      BY <3>1
    <3> HIDE DEF k
    <3>3. g[i] = f[k]
      BY <1>2, <3>2
    <3> QED BY <3>2, <3>3 DEF k
  <2> QED BY <2>1, <2>2
<1>4. \A i \in 1 .. Len(f) : /\ BlockOK(f[i]) /\ f[i].start \in Nat /\ End(f[i]) \in Nat
                             /\ f[i].start < End(f[i])
  <2> TAKE i \in 1 .. Len(f)
  <2>1. BlockOK(f[i])
    BY <1>1 DEF Sorted
  <2> QED BY <2>1, BlockFields DEF BlockOK, NodeSize
<1>5. n.start \in Nat /\ End(n) \in Nat /\ n.start < End(n)
  BY BlockFields DEF BlockOK, NodeSize
<1>6. \A i, j \in 1 .. Len(f) : i < j => End(f[i]) < f[j].start
  BY <1>1 DEF Sorted
<1>7. \A i \in 1 .. p : End(f[i]) < n.start
  <2> TAKE i \in 1 .. p
  <2>1. i \in 1 .. Len(f) /\ p \in 1 .. Len(f) /\ p >= 1
    BY <1>1
  <2>2. End(f[p]) < n.start
    BY <2>1 DEF Between
  <2>3. CASE i < p
    <3>1. End(f[i]) < f[p].start
      BY <1>6, <2>1, <2>3
    <3> QED BY <1>4, <1>5, <2>1, <2>2, <3>1
  <2> QED BY <2>2, <2>3
<1>8. \A i \in q .. Len(f) : End(n) < f[i].start
  <2> TAKE i \in q .. Len(f)
  <2>1. i \in 1 .. Len(f) /\ q \in 1 .. Len(f) /\ q <= Len(f)
    BY <1>1
  <2>2. End(n) < f[q].start
    BY <2>1 DEF Between
  <2> QED BY <1>4, <1>5, <1>6, <2>1, <2>2
<1>9. \A i \in DOMAIN g : BlockOK(g[i])
  <2> TAKE i \in DOMAIN g
  <2>1. CASE i <= p
    BY <1>1, <1>2, <1>3, <1>4, <2>1
  <2>2. CASE i > p + 1
    <3>1. i + q - p - 2 \in 1 .. Len(f) /\ g[i] = f[i + q - p - 2]
      BY <1>1, <1>3, <2>2
    <3> QED BY <1>4, <3>1
  <2> QED BY <1>2, <1>3, <2>1, <2>2
<1>10. ASSUME NEW i \in DOMAIN g, NEW j \in DOMAIN g, i < j
       PROVE  End(g[i]) < g[j].start
  <2>1. CASE j <= p
    <3>1. i \in 1 .. Len(f) /\ j \in 1 .. Len(f) /\ i \in 1 .. p /\ j \in 1 .. p
      BY <1>1, <1>3, <1>10, <2>1
    <3>2. g[i] = f[i] /\ g[j] = f[j]
      BY <1>2, <3>1
    <3> QED BY <1>6, <1>10, <3>1, <3>2
  <2>2. CASE j = p + 1
    BY <1>1, <1>2, <1>3, <1>7, <1>10, <2>2
  <2>3. CASE j > p + 1 /\ i = p + 1
    BY ZenonT(30), <1>1, <1>2, <1>3, <1>8, <1>10, <2>3
  <2>4. CASE j > p + 1 /\ i # p + 1
    <3>1. /\ j + q - p - 2 \in 1 .. Len(f) /\ g[j] = f[j + q - p - 2]
      BY <1>1, <1>2, <1>3, <2>4
    <3>2. CASE i <= p
      <4>1. i \in 1 .. p /\ i \in 1 .. Len(f) /\ i < j + q - p - 2
        <5>1. i \in 1 .. p /\ i \in 1 .. Len(f)
          BY <1>1, <1>3, <3>2
        <5>2. j \in Int /\ j >= p + 2 /\ q >= p + 1
          BY <1>3, <2>4
        <5>3. j + q - p - 2 >= p + 1
          BY <5>2
        <5> QED BY <5>1, <5>2, <5>3
      <4>2. g[i] = f[i]
        BY <1>2, <4>1
      <4> QED BY <1>6, <3>1, <4>1, <4>2
    <3>3. CASE i > p + 1
      <4>1. /\ i + q - p - 2 \in 1 .. Len(f) /\ g[i] = f[i + q - p - 2]
            /\ i + q - p - 2 < j + q - p - 2
        BY <1>1, <1>3, <1>10, <2>4, <3>3
      <4> QED BY <1>6, <3>1, <4>1
    <3> QED BY <1>3, <2>4, <3>2, <3>3
  <2> QED BY <1>3, <2>1, <2>2, <2>3, <2>4
<1>11. ASSUME NEW b
       PROVE  b \in Range(g) <=>
                b = n \/ \E i \in 1 .. Len(f) : (i <= p \/ i >= q) /\ b = f[i]
  <2>1. ASSUME NEW i \in DOMAIN g, b = g[i]
        PROVE  b = n \/ \E k \in 1 .. Len(f) : (k <= p \/ k >= q) /\ b = f[k]
    <3>1. CASE i <= p
      <4>1. i \in 1 .. Len(f) /\ g[i] = f[i]
        BY <1>1, <1>2, <1>3, <3>1
      <4> QED BY <2>1, <3>1, <4>1
    <3>2. CASE i = p + 1
      BY <1>1, <1>2, <1>3, <2>1, <3>2
    <3>3. CASE i > p + 1
      <4>1. /\ i + q - p - 2 \in 1 .. Len(f) /\ g[i] = f[i + q - p - 2]
            /\ i + q - p - 2 >= q
        BY <1>1, <1>2, <1>3, <3>3
      <4> QED BY <2>1, <4>1
    <3>4. i <= p \/ i = p + 1 \/ i > p + 1
      BY <1>3
    <3> QED BY <3>1, <3>2, <3>3, <3>4
  <2>2. ASSUME NEW i \in 1 .. Len(f), i <= p \/ i >= q, b = f[i]
        PROVE  \E k \in DOMAIN g : b = g[k]
    <3>1. CASE i <= p
      <4>1. i \in DOMAIN g /\ g[i] = f[i]
        BY <1>1, <1>2, <1>3, <3>1
      <4> QED BY <2>2, <4>1
    <3>2. CASE i >= q
      <4>1. /\ i - q + p + 2 \in DOMAIN g /\ g[i - q + p + 2] = f[i]
        BY <1>1, <1>2, <1>3, <3>2
      <4> QED BY <2>2, <4>1
    <3> QED BY <2>2, <3>1, <3>2
  <2>3. p + 1 \in DOMAIN g /\ g[p + 1] = n
    BY <1>1, <1>2, <1>3
  <2> QED BY <2>1, <2>2, <2>3 DEF Range
<1> QED BY <1>2, <1>9, <1>10, <1>11 DEF Sorted, g

(* A list without its k-th block. *)
LEMMA RemoveSorted ==
  ASSUME NEW f, Sorted(f), NEW k \in DOMAIN f
  PROVE  /\ Sorted(Unlink(f, k))
         /\ \A b : b \in Range(Unlink(f, k)) <=>
                     \E i \in 1 .. Len(f) : i # k /\ b = f[i]
<1> DEFINE a == SubSeq(f, 1, k - 1)
           c == SubSeq(f, k + 1, Len(f))
           g == Unlink(f, k)
<1>1. f \in Seq(Blocks) /\ Len(f) \in Nat /\ DOMAIN f = 1 .. Len(f) /\ k \in 1 .. Len(f)
  BY DEF Sorted
<1>2. /\ a \in Seq(Blocks) /\ Len(a) = k - 1 /\ \A i \in 1 .. k - 1 : a[i] = f[i]
  <2>1. k - 1 \in 0 .. Len(f)
    BY <1>1
  <2> QED BY <1>1, <2>1, Front
<1>3. /\ c \in Seq(Blocks) /\ Len(c) = Len(f) - k
      /\ \A i \in 1 .. Len(f) - k : c[i] = f[k + i]
  <2>1. k + 1 \in 1 .. Len(f) + 1
    BY <1>1
  <2>2. /\ c \in Seq(Blocks) /\ Len(c) = Len(f) + 1 - (k + 1)
        /\ \A i \in 1 .. Len(f) + 1 - (k + 1) : c[i] = f[(k + 1) + i - 1]
    BY <1>1, <2>1, Back
  <2>3. Len(f) + 1 - (k + 1) = Len(f) - k /\ \A i \in Nat : (k + 1) + i - 1 = k + i
    BY <1>1
  <2>4. ASSUME NEW i \in 1 .. Len(f) - k PROVE c[i] = f[k + i]
    <3>1. i \in Nat
      BY <1>1
    <3> QED BY <2>2, <2>3, <3>1, Zenon
  <2> QED BY <2>2, <2>3, <2>4, Zenon
<1>4. g = a \o c
  BY DEF Unlink
<1> HIDE DEF a, c, g
<1>5. /\ g \in Seq(Blocks) /\ Len(g) = Len(a) + Len(c)
      /\ \A i \in 1 .. Len(a) + Len(c) : g[i] = IF i <= Len(a) THEN a[i] ELSE c[i - Len(a)]
  BY <1>2, <1>3, <1>4, Concat, Zenon
<1>6. DOMAIN g = 1 .. Len(f) - 1
  BY <1>1, <1>2, <1>3, <1>5
<1>7. \A i \in DOMAIN g : /\ i < k => g[i] = f[i]
                          /\ i >= k => g[i] = f[i + 1]
  <2> TAKE i \in DOMAIN g
  <2>1. CASE i < k
    BY <1>1, <1>2, <1>3, <1>5, <1>6, <2>1
  <2>2. CASE i >= k
    <3>1. /\ i \in 1 .. Len(a) + Len(c) /\ ~(i <= Len(a)) /\ i - Len(a) = i - k + 1
          /\ i - k + 1 \in 1 .. Len(f) - k /\ k + (i - k + 1) = i + 1
      BY <1>1, <1>2, <1>3, <1>6, <2>2
    <3>2. g[i] = c[i - k + 1]
      BY <1>5, <3>1
    <3> QED BY <1>1, <1>3, <2>2, <3>1, <3>2
  <2> QED BY <1>1, <1>6, <2>1, <2>2
<1>8. \A i \in DOMAIN g : BlockOK(g[i])
  <2> TAKE i \in DOMAIN g
  <2>1. i \in DOMAIN f /\ i + 1 \in DOMAIN f
    BY <1>1, <1>6
  <2> QED BY <1>1, <1>6, <1>7, <2>1 DEF Sorted
<1>9. ASSUME NEW i \in DOMAIN g, NEW j \in DOMAIN g, i < j
      PROVE  End(g[i]) < g[j].start
  <2>1. i \in DOMAIN f /\ i + 1 \in DOMAIN f /\ j \in DOMAIN f /\ j + 1 \in DOMAIN f
    BY <1>1, <1>6
  <2>2. \A m, n \in DOMAIN f : m < n => End(f[m]) < f[n].start
    BY DEF Sorted
  <2>3. CASE j < k
    BY <1>1, <1>6, <1>7, <1>9, <2>1, <2>2, <2>3
  <2>4. CASE i < k /\ j >= k
    BY <1>1, <1>6, <1>7, <1>9, <2>1, <2>2, <2>4
  <2>5. CASE i >= k
    <3>1. g[i] = f[i + 1] /\ g[j] = f[j + 1] /\ i + 1 < j + 1
      BY <1>1, <1>6, <1>7, <1>9, <2>5
    <3> QED BY <2>1, <2>2, <3>1
  <2> QED BY <1>1, <1>6, <2>3, <2>4, <2>5
<1>10. ASSUME NEW b
       PROVE  b \in Range(g) <=> \E i \in 1 .. Len(f) : i # k /\ b = f[i]
  <2>1. ASSUME NEW i \in DOMAIN g, b = g[i]
        PROVE  \E m \in 1 .. Len(f) : m # k /\ b = f[m]
    <3>1. i \in 1 .. Len(f) /\ i + 1 \in 1 .. Len(f)
      BY <1>1, <1>6
    <3>2. CASE i < k
      BY <1>7, <2>1, <3>1, <3>2
    <3>3. CASE i >= k
      <4>1. g[i] = f[i + 1] /\ i + 1 # k
        BY <1>1, <1>7, <3>1, <3>3
      <4> QED BY <2>1, <3>1, <4>1
    <3> QED BY <1>1, <3>1, <3>2, <3>3
  <2>2. ASSUME NEW i \in 1 .. Len(f), i # k, b = f[i]
        PROVE  \E m \in DOMAIN g : b = g[m]
    <3>1. CASE i < k
      <4>1. i \in DOMAIN g /\ g[i] = f[i]
        BY <1>1, <1>6, <1>7, <3>1
      <4> QED BY <2>2, <4>1
    <3>2. CASE i > k
      <4>1. i - 1 \in DOMAIN g /\ i - 1 >= k /\ (i - 1) + 1 = i
        BY <1>1, <1>6, <3>2
      <4>2. g[i - 1] = f[i]
        BY <1>7, <4>1
      <4> QED BY <2>2, <4>1, <4>2
    <3> QED BY <1>1, <2>2, <3>1, <3>2
  <2> QED BY <2>1, <2>2 DEF Range
<1> QED BY <1>5, <1>8, <1>9, <1>10 DEF Sorted, g

INSTANCE WellFoundedInduction

LEMMA Least ==
  ASSUME NEW S \in SUBSET Nat, S # {}
  PROVE  \E n \in S : \A m \in S : n <= m
<1>1. PICK x \in S : \A y \in S : <<y, x>> \notin OpToRel(<, Nat)
  BY NatLessThanWellFounded, WFMin, Zenon
<1>2. \A y \in S : ~(y < x)
  BY <1>1, Zenon DEF OpToRel
<1> QED BY <1>2

(* The new block of add_free_block is disjoint from the blocks listed. *)
Apart(f, b) == \A i \in DOMAIN f : Disjoint(b, f[i])

(* add_free_block finds the place of the new block: behind all blocks that *)
(* end before it and before all others.                                    *)
LEMMA StopAtOK ==
  ASSUME NEW f, Sorted(f), NEW b, BlockOK(b), Apart(f, b)
  PROVE  /\ StopAt(f, b) \in 1 .. Len(f) + 1
         /\ \A i \in 1 .. Len(f) : IF i < StopAt(f, b) THEN End(f[i]) <= b.start
                                   ELSE End(b) <= f[i].start
         /\ ~AddPanics(f, b)
<1> DEFINE Stops(i) == Overlaps(b, f[i]) \/ End(b) <= f[i].start
           IsStop(k) == /\ k <= Len(f) => Stops(k)
                        /\ \A i \in 1 .. k - 1 : ~Overlaps(b, f[i]) /\ End(b) > f[i].start
<1>1. f \in Seq(Blocks) /\ Len(f) \in Nat /\ DOMAIN f = 1 .. Len(f)
  BY DEF Sorted
<1>2. \A i \in 1 .. Len(f) : /\ f[i].start \in Nat /\ End(f[i]) \in Nat
                             /\ f[i].start < End(f[i])
  <2> TAKE i \in 1 .. Len(f)
  <2>1. BlockOK(f[i])
    BY <1>1 DEF Sorted
  <2> QED BY <2>1, BlockFields DEF BlockOK, NodeSize
<1>3. b.start \in Nat /\ End(b) \in Nat /\ b.start < End(b)
  BY BlockFields DEF BlockOK, NodeSize
<1>4. \A i \in 1 .. Len(f) : /\ ~Overlaps(b, f[i])
                             /\ ~(End(b) <= f[i].start) => End(f[i]) <= b.start
  BY <1>1, <1>2, <1>3 DEF Apart, Disjoint, Overlaps
<1>5. \E k \in 1 .. Len(f) + 1 : IsStop(k)
  <2> DEFINE K == {i \in 1 .. Len(f) : End(b) <= f[i].start}
  <2>1. CASE K = {}
    <3>1. \A i \in 1 .. Len(f) : ~(End(b) <= f[i].start)
      BY <2>1
    <3>2. \A i \in 1 .. Len(f) : ~Overlaps(b, f[i]) /\ End(b) > f[i].start
      BY <1>2, <1>3, <1>4, <3>1
    <3>3. Len(f) + 1 \in 1 .. Len(f) + 1 /\ ~(Len(f) + 1 <= Len(f)) /\ (Len(f) + 1) - 1 = Len(f)
      BY <1>1
    <3>4. IsStop(Len(f) + 1)
      BY <3>2, <3>3
    <3> QED BY <3>3, <3>4
  <2>2. CASE K # {}
    <3>1. K \in SUBSET Nat
      BY <1>1
    <3>2. PICK k \in K : \A m \in K : k <= m
      BY <2>2, <3>1, Least, Zenon
    <3>3. IsStop(k)
      BY <1>1, <1>2, <1>3, <1>4, <3>2
    <3> QED BY <1>1, <3>2, <3>3
  <2> QED BY <2>1, <2>2
<1> DEFINE k == StopAt(f, b)
<1>6. k \in 1 .. Len(f) + 1 /\ IsStop(k)
  BY <1>5 DEF StopAt
<1> HIDE DEF k
<1>7. \A i \in 1 .. Len(f) : i < k => End(f[i]) <= b.start
  BY <1>1, <1>2, <1>3, <1>4, <1>6
<1>8. \A i \in 1 .. Len(f) : i >= k => End(b) <= f[i].start
  <2> SUFFICES ASSUME NEW i \in 1 .. Len(f), i >= k PROVE End(b) <= f[i].start
    OBVIOUS
  <2>1. k \in 1 .. Len(f) /\ End(b) <= f[k].start
    BY <1>1, <1>4, <1>6
  <2>2. i > k => End(f[k]) < f[i].start
    BY <1>1, <2>1 DEF Sorted
  <2> QED BY <1>1, <1>2, <1>3, <2>1, <2>2
<1>9. ~AddPanics(f, b)
  BY <1>1, <1>4, <1>6 DEF AddPanics, k
<1> QED BY <1>6, <1>7, <1>8, <1>9 DEF k

(* add_free_block puts a block n in place of the blocks from p + 1 to      *)
(* q - 1: the new block and the neighbours it touches.                     *)
Coalesced(f, b, p, n, q) ==
  LET k == StopAt(f, b)
  IN  /\ IF p = k - 1
         THEN n.start = b.start /\ (k > 1 => End(f[k - 1]) < b.start)
         ELSE /\ p = k - 2 /\ k > 1
              /\ n.start = f[k - 1].start /\ End(f[k - 1]) = b.start
      /\ IF q = k
         THEN End(n) = End(b) /\ (k <= Len(f) => End(b) < f[k].start)
         ELSE q = k + 1 /\ k <= Len(f) /\ End(n) = End(f[k]) /\ End(b) = f[k].start

LEMMA AddCoalesces ==
  ASSUME NEW f, Sorted(f), NEW b, BlockOK(b), Apart(f, b)
  PROVE  \E n, p, q : /\ p \in Nat /\ q \in Nat /\ p < q /\ q <= Len(f) + 1
                      /\ BlockOK(n) /\ Coalesced(f, b, p, n, q)
                      /\ AddFreeBlock(f, b) = Splice(f, p, n, q)
<1> DEFINE k == StopAt(f, b)
           joins == k <= Len(f) /\ End(b) = f[k].start
           absorbed == k > 1 /\ End(f[k - 1]) = b.start
           new == IF joins THEN Block(b.start, b.size + f[k].size) ELSE b
           q == IF joins THEN k + 1 ELSE k
<1>1. f \in Seq(Blocks) /\ Len(f) \in Nat /\ DOMAIN f = 1 .. Len(f)
  BY DEF Sorted
<1>2. k \in 1 .. Len(f) + 1
  BY StopAtOK
<1>3. /\ k > 1 => BlockOK(f[k - 1]) /\ End(f[k - 1]) <= b.start
      /\ k <= Len(f) => BlockOK(f[k]) /\ End(b) <= f[k].start
  <2>1. k > 1 => k - 1 \in 1 .. Len(f) /\ k - 1 < k
    BY <1>1, <1>2
  <2>2. k <= Len(f) => k \in 1 .. Len(f)
    BY <1>1, <1>2
  <2> HIDE DEF k
  <2>3. \A i \in 1 .. Len(f) : IF i < k THEN End(f[i]) <= b.start
                               ELSE End(b) <= f[i].start
    BY StopAtOK DEF k
  <2> QED BY <1>1, <1>2, <2>1, <2>2, <2>3 DEF Sorted
<1>4. AddFreeBlock(f, b) =
        IF absorbed
        THEN Splice(f, k - 2, Block(f[k - 1].start, f[k - 1].size + new.size), q)
        ELSE Splice(f, k - 1, new, q)
  BY DEF AddFreeBlock, Splice
<1> HIDE DEF k
<1>5. /\ b.start \in Nat /\ b.size \in Nat /\ End(b) = b.start + b.size
      /\ b.size >= 16 /\ b.start % 8 = 0 /\ b.size % 8 = 0
  BY BlockFields DEF BlockOK, NodeSize, NodeAlign
<1>60. ASSUME NEW c, BlockOK(c)
       PROVE  /\ c.start \in Nat /\ c.size \in Nat /\ End(c) = c.start + c.size
              /\ c.size >= 16 /\ c.start % 8 = 0 /\ c.size % 8 = 0
  BY <1>60, BlockFields DEF BlockOK, NodeSize, NodeAlign
<1>6. k <= Len(f) => /\ f[k].start \in Nat /\ f[k].size \in Nat
                     /\ End(f[k]) = f[k].start + f[k].size
                     /\ f[k].size >= 16 /\ f[k].size % 8 = 0
  <2>1. k <= Len(f) => BlockOK(f[k])
    BY <1>3, Zenon
  <2> QED BY <1>60, <2>1, Zenon
<1>7. k > 1 => /\ f[k - 1].start \in Nat /\ f[k - 1].size \in Nat
               /\ End(f[k - 1]) = f[k - 1].start + f[k - 1].size
               /\ f[k - 1].size >= 16 /\ f[k - 1].start % 8 = 0 /\ f[k - 1].size % 8 = 0
  <2>1. k > 1 => BlockOK(f[k - 1])
    BY ZenonT(30), <1>3
  <2> QED BY <1>60, <2>1, Zenon
<1>8. /\ new.start = b.start /\ new.size \in Nat /\ new.size >= 16 /\ new.size % 8 = 0
      /\ End(new) = b.start + new.size
      /\ End(new) = IF joins THEN End(f[k]) ELSE End(b)
      /\ BlockOK(new)
  <2>1. CASE joins
    <3> DEFINE m == b.size + f[k].size
    <3>0. m \in Nat /\ m >= 16 /\ b.start + m = End(f[k])
      <4>1. /\ f[k].size \in Nat /\ f[k].start \in Nat
            /\ End(f[k]) = f[k].start + f[k].size /\ End(b) = f[k].start
        BY <1>6, <2>1
      <4> QED BY <1>5, <4>1
    <3>1. m % 8 = 0
      <4>1. f[k].size \in Nat /\ f[k].size % 8 = 0
        BY <1>6, <2>1, Zenon
      <4> QED BY <1>5, <4>1, SumOf8, Zenon
    <3> HIDE DEF m
    <3>2. new = Block(b.start, m)
      BY <2>1 DEF m
    <3> HIDE DEF new, joins
    <3>3. /\ new \in Blocks /\ new.start = b.start /\ new.size = m
          /\ End(new) = b.start + m
      BY <1>5, <3>0, <3>2, MakeBlock, Zenon
    <3> QED BY <1>5, <2>1, <3>0, <3>1, <3>3 DEF BlockOK, NodeSize, NodeAlign
  <2>2. CASE ~joins
    BY <1>5, <2>2
  <2> QED BY <2>1, <2>2
<1>9. /\ q \in Nat /\ q <= Len(f) + 1 /\ k <= q
      /\ IF q = k THEN End(new) = End(b) /\ (k <= Len(f) => End(b) < f[k].start)
         ELSE q = k + 1 /\ k <= Len(f) /\ End(new) = End(f[k]) /\ End(b) = f[k].start
  <2>1. CASE joins
    <3>1. /\ q = k + 1 /\ k <= Len(f) /\ End(b) = f[k].start /\ End(new) = End(f[k])
      BY <1>8, <2>1, Zenon
    <3> HIDE DEF q, new, joins
    <3> QED BY <1>1, <1>2, <3>1
  <2>2. CASE ~joins
    <3>1. q = k /\ End(new) = End(b) /\ (k <= Len(f) => End(b) # f[k].start)
      BY <1>8, <2>2, Zenon
    <3>2. /\ End(b) \in Nat
          /\ k <= Len(f) => f[k].start \in Nat /\ End(b) <= f[k].start
      BY <1>3, <1>5, <1>6
    <3> HIDE DEF q, new, joins
    <3> QED BY <1>1, <1>2, <3>1, <3>2
  <2> QED BY <2>1, <2>2, Zenon
<1> HIDE DEF joins, new, q
<1>10. CASE absorbed
  <2> DEFINE m == f[k - 1].size + new.size
             n == Block(f[k - 1].start, m)
  <2>1. m \in Nat /\ m >= 16 /\ m % 8 = 0 /\ f[k - 1].start + m = End(new)
    BY <1>5, <1>7, <1>8, <1>10
  <2> HIDE DEF m
  <2>2. BlockOK(n) /\ n.start = f[k - 1].start /\ End(n) = End(new)
    <3>1. f[k - 1].start \in Nat /\ f[k - 1].start % 8 = 0
      BY <1>7, <1>10, Zenon
    <3>2. /\ n \in Blocks /\ n.start = f[k - 1].start /\ n.size = m
          /\ End(n) = f[k - 1].start + m
      BY <2>1, <3>1, MakeBlock, Zenon
    <3> HIDE DEF n
    <3> QED BY <2>1, <3>1, <3>2 DEF BlockOK, NodeSize, NodeAlign
  <2>3. AddFreeBlock(f, b) = Splice(f, k - 2, n, q)
    BY <1>4, <1>10 DEF m
  <2>4. k - 2 \in Nat /\ k - 2 < q /\ k - 2 # k - 1
    BY <1>2, <1>9, <1>10
  <2> HIDE DEF n
  <2>5. Coalesced(f, b, k - 2, n, q)
    BY <1>2, <1>9, <1>10, <2>2, <2>4 DEF Coalesced, k
  <2> QED BY <1>9, <2>2, <2>3, <2>4, <2>5
<1>11. CASE ~absorbed
  <2>1. k - 1 \in Nat /\ k - 1 < q
    BY <1>2, <1>9
  <2>2. k > 1 => End(f[k - 1]) < b.start
    <3>1. ASSUME k > 1
          PROVE  /\ End(f[k - 1]) \in Nat /\ b.start \in Nat
                 /\ End(f[k - 1]) <= b.start /\ End(f[k - 1]) # b.start
      BY <1>3, <1>5, <1>7, <1>11, <3>1
    <3> QED BY <3>1
  <2>3. Coalesced(f, b, k - 1, new, q)
    BY <1>8, <1>9, <2>2 DEF Coalesced, k
  <2> QED BY <1>4, <1>8, <1>9, <1>11, <2>1, <2>3
<1> QED BY <1>10, <1>11

In(x, b) == b.start <= x /\ x < End(b)

(* Two blocks are disjoint when they have no byte in common. *)
LEMMA DisjointBytes ==
  ASSUME NEW b \in Blocks, NEW c \in Blocks, b.size > 0, c.size > 0
  PROVE  /\ Disjoint(b, c) <=> \A x \in Nat : ~(In(x, b) /\ In(x, c))
         /\ b.start \in Nat /\ In(b.start, b)
         /\ End(b) - 1 \in Nat /\ In(End(b) - 1, b)
<1>1. /\ b.start \in Nat /\ b.size \in Nat /\ End(b) = b.start + b.size
      /\ c.start \in Nat /\ c.size \in Nat /\ End(c) = c.start + c.size
  BY BlockFields
<1>2. Disjoint(b, c) => \A x \in Nat : ~(In(x, b) /\ In(x, c))
  BY <1>1 DEF Disjoint, In
<1>3. ASSUME \A x \in Nat : ~(In(x, b) /\ In(x, c))
      PROVE  Disjoint(b, c)
  <2>1. ~(In(b.start, b) /\ In(b.start, c)) /\ ~(In(c.start, b) /\ In(c.start, c))
    BY <1>1, <1>3
  <2> QED BY <1>1, <2>1 DEF Disjoint, In
<1> QED BY <1>1, <1>2, <1>3 DEF In

(* add_free_block keeps the list sorted and coalesced, and the bytes in it *)
(* are those of the old list and of the new block.                         *)
LEMMA AddOK ==
  ASSUME NEW f, Sorted(f), NEW b, BlockOK(b), Apart(f, b)
  PROVE  /\ Sorted(AddFreeBlock(f, b))
         /\ \A x \in Nat : Covers(Range(AddFreeBlock(f, b)), x) <=>
                             Covers(Range(f), x) \/ In(x, b)
<1> DEFINE k == StopAt(f, b)
           g == AddFreeBlock(f, b)
<1>1. PICK n, p, q : /\ p \in Nat /\ q \in Nat /\ p < q /\ q <= Len(f) + 1
                     /\ BlockOK(n) /\ Coalesced(f, b, p, n, q)
                     /\ g = Splice(f, p, n, q)
  BY AddCoalesces
<1> HIDE DEF g
<1>2. f \in Seq(Blocks) /\ Len(f) \in Nat /\ DOMAIN f = 1 .. Len(f)
  BY DEF Sorted
<1>3. k \in 1 .. Len(f) + 1
  BY StopAtOK
<1>4. /\ IF p = k - 1
         THEN n.start = b.start /\ (k > 1 => End(f[k - 1]) < b.start)
         ELSE /\ p = k - 2 /\ k > 1
              /\ n.start = f[k - 1].start /\ End(f[k - 1]) = b.start
      /\ IF q = k
         THEN End(n) = End(b) /\ (k <= Len(f) => End(b) < f[k].start)
         ELSE q = k + 1 /\ k <= Len(f) /\ End(n) = End(f[k]) /\ End(b) = f[k].start
  BY <1>1 DEF Coalesced
<1> HIDE DEF k
<1>5. \A i \in 1 .. Len(f) : /\ f[i] \in Blocks /\ f[i].start \in Nat /\ f[i].size \in Nat
                             /\ f[i].size >= 16 /\ End(f[i]) = f[i].start + f[i].size
  BY <1>2, BlockFields, Zenon DEF Sorted, BlockOK, NodeSize
<1>6. \A i, j \in 1 .. Len(f) : i < j => End(f[i]) < f[j].start
  BY <1>2 DEF Sorted
<1>7. /\ b.start \in Nat /\ b.size \in Nat /\ b.size >= 16 /\ End(b) = b.start + b.size
      /\ n.start \in Nat /\ n.size \in Nat /\ n.size >= 16 /\ End(n) = n.start + n.size
  BY <1>1, BlockFields DEF BlockOK, NodeSize
<1>8. Between(f, p, n, q)
  <2>1. ASSUME p >= 1 PROVE End(f[p]) < n.start
    <3>1. CASE p = k - 1
      BY <1>1, <1>3, <1>4, <2>1, <3>1
    <3>2. CASE p # k - 1
      <4>1. p = k - 2 /\ k - 1 \in 1 .. Len(f) /\ p \in 1 .. Len(f) /\ p < k - 1
        BY <1>1, <1>2, <1>3, <1>4, <2>1, <3>2
      <4> QED BY <1>4, <1>6, <3>2, <4>1
    <3> QED BY <3>1, <3>2
  <2>2. ASSUME q <= Len(f) PROVE End(n) < f[q].start
    <3>1. CASE q = k
      BY <1>4, <2>2, <3>1
    <3>2. CASE q # k
      <4>1. q = k + 1 /\ k \in 1 .. Len(f) /\ q \in 1 .. Len(f) /\ k < q
        BY <1>1, <1>2, <1>3, <1>4, <2>2, <3>2
      <4> QED BY <1>4, <1>6, <3>2, <4>1
    <3> QED BY <3>1, <3>2
  <2> QED BY <2>1, <2>2 DEF Between
<1>9. /\ Sorted(g)
      /\ \A c : c \in Range(g) <=>
                  c = n \/ \E i \in 1 .. Len(f) : (i <= p \/ i >= q) /\ c = f[i]
  BY <1>1, <1>8, SpliceSorted
<1>10. \A c : c \in Range(f) <=> \E i \in 1 .. Len(f) : c = f[i]
  BY <1>2 DEF Range
<1>11. ASSUME NEW x \in Nat
       PROVE  In(x, n) <=> \/ In(x, b)
                           \/ p # k - 1 /\ In(x, f[k - 1])
                           \/ q # k /\ In(x, f[k])
  <2>1. p # k - 1 => k - 1 \in 1 .. Len(f)
    BY <1>2, <1>3, <1>4
  <2>2. q # k => k \in 1 .. Len(f)
    BY <1>2, <1>3, <1>4
  <2>3. p # k - 1 => /\ f[k - 1].start \in Nat /\ End(f[k - 1]) \in Nat
                     /\ f[k - 1].start < End(f[k - 1])
    BY <1>5, <2>1
  <2>4. q # k => /\ f[k].start \in Nat /\ End(f[k]) \in Nat
                 /\ f[k].start < End(f[k])
    BY <1>5, <2>2
  <2>5. End(b) \in Nat /\ End(n) \in Nat /\ b.start < End(b)
    BY <1>7
  <2>6. CASE p = k - 1 /\ q = k
    BY <1>4, <2>6 DEF In
  <2>7. CASE p # k - 1 /\ q = k
    <3> DEFINE u == f[k - 1]
    <3>1. /\ n.start = u.start /\ End(u) = b.start /\ End(n) = End(b)
          /\ u.start \in Nat /\ End(u) \in Nat /\ u.start < End(u)
      BY <1>4, <2>3, <2>7
    <3> HIDE DEF u
    <3>2. In(x, n) <=> In(x, b) \/ In(x, u)
      BY <1>7, <2>5, <3>1 DEF In
    <3> QED BY <2>7, <3>2 DEF u
  <2>8. CASE p = k - 1 /\ q # k
    <3> DEFINE v == f[k]
    <3>1. /\ n.start = b.start /\ End(n) = End(v) /\ End(b) = v.start
          /\ v.start \in Nat /\ End(v) \in Nat /\ v.start < End(v)
      BY <1>4, <2>4, <2>8
    <3> HIDE DEF v
    <3>2. In(x, n) <=> In(x, b) \/ In(x, v)
      BY <1>7, <2>5, <3>1 DEF In
    <3> QED BY <2>8, <3>2 DEF v
  <2>9. CASE p # k - 1 /\ q # k
    <3> DEFINE u == f[k - 1]
               v == f[k]
    <3>1. /\ n.start = u.start /\ End(u) = b.start
          /\ End(n) = End(v) /\ End(b) = v.start
      BY <1>4, <2>9
    <3>2. u.start \in Nat /\ End(v) \in Nat /\ u.start < End(u) /\ v.start < End(v)
      BY <2>3, <2>4, <2>9
    <3> HIDE DEF u, v
    <3>3. In(x, n) <=> In(x, b) \/ In(x, u) \/ In(x, v)
      BY <1>7, <2>5, <3>1, <3>2 DEF In
    <3> QED BY <2>9, <3>3 DEF u, v
  <2> QED BY <2>6, <2>7, <2>8, <2>9
<1>12. ASSUME NEW x \in Nat, Covers(Range(g), x)
       PROVE  Covers(Range(f), x) \/ In(x, b)
  <2>1. PICK c \in Range(g) : In(x, c)
    BY <1>12 DEF Covers, In
  <2>2. CASE c = n
    <3>1. p # k - 1 => k - 1 \in 1 .. Len(f)
      BY <1>2, <1>3, <1>4
    <3>2. q # k => k \in 1 .. Len(f)
      BY <1>2, <1>3, <1>4
    <3> QED BY <1>10, <1>11, <2>1, <2>2, <3>1, <3>2 DEF Covers, In
  <2>3. CASE c # n
    BY <1>9, <1>10, <2>1, <2>3 DEF Covers, In
  <2> QED BY <2>2, <2>3
<1>13. ASSUME NEW x \in Nat, Covers(Range(f), x) \/ In(x, b)
       PROVE  Covers(Range(g), x)
  <2>1. CASE In(x, n)
    BY <1>9, <2>1 DEF Covers, In
  <2>2. CASE ~In(x, n)
    <3>1. PICK i \in 1 .. Len(f) : In(x, f[i])
      BY <1>10, <1>11, <1>13, <2>2 DEF Covers, In
    <3>2. i <= p \/ i >= q
      BY <1>1, <1>2, <1>3, <1>4, <1>11, <2>2, <3>1
    <3> QED BY <1>9, <3>1, <3>2 DEF Covers, In
  <2> QED BY <2>1, <2>2
<1> QED BY <1>9, <1>12, <1>13 DEF g

(* A block none of whose bytes is free may be freed. *)
LEMMA ApartBytes ==
  ASSUME NEW f, Sorted(f), NEW b, BlockOK(b),
         \A x \in Nat : ~(In(x, b) /\ Covers(Range(f), x))
  PROVE  Apart(f, b)
<1> SUFFICES ASSUME NEW i \in DOMAIN f PROVE Disjoint(b, f[i])
  BY DEF Apart
<1>1. f[i] \in Blocks /\ f[i].size > 0 /\ b \in Blocks /\ b.size > 0
  BY BlockFields DEF Sorted, BlockOK, NodeSize
<1>2. f[i] \in Range(f)
  BY DEF Range
<1>3. \A x \in Nat : ~(In(x, b) /\ In(x, f[i]))
  BY <1>2 DEF Covers, In
<1> QED BY <1>1, <1>3, DisjointBytes

(* Unlinking a node takes the bytes of its block out of the list. *)
LEMMA RemoveBytes ==
  ASSUME NEW f, Sorted(f), NEW k \in DOMAIN f
  PROVE  /\ Sorted(Unlink(f, k))
         /\ \A x \in Nat :
              /\ Covers(Range(f), x) <=> In(x, f[k]) \/ Covers(Range(Unlink(f, k)), x)
              /\ ~(In(x, f[k]) /\ Covers(Range(Unlink(f, k)), x))
<1> DEFINE g == Unlink(f, k)
<1>1. /\ Sorted(g)
      /\ \A b : b \in Range(g) <=> \E i \in 1 .. Len(f) : i # k /\ b = f[i]
  BY RemoveSorted
<1> HIDE DEF g
<1>2. f \in Seq(Blocks) /\ Len(f) \in Nat /\ DOMAIN f = 1 .. Len(f) /\ k \in 1 .. Len(f)
  BY DEF Sorted
<1>3. \A c : c \in Range(f) <=> \E i \in 1 .. Len(f) : c = f[i]
  BY <1>2 DEF Range
<1>4. \A i \in 1 .. Len(f) : /\ f[i].start \in Nat /\ End(f[i]) \in Nat
                             /\ f[i].start < End(f[i])
  <2> TAKE i \in 1 .. Len(f)
  <2>1. f[i] \in Blocks /\ f[i].size >= 16
    BY <1>2 DEF Sorted, BlockOK, NodeSize
  <2> QED BY <2>1, BlockFields
<1>5. \A i, j \in 1 .. Len(f) : i < j => End(f[i]) < f[j].start
  BY <1>2 DEF Sorted
<1>6. ASSUME NEW x \in Nat, In(x, f[k]), Covers(Range(g), x) PROVE FALSE
  <2>1. PICK i \in 1 .. Len(f) : i # k /\ In(x, f[i])
    BY <1>1, <1>6 DEF Covers, In
  <2>2. CASE i < k
    BY <1>2, <1>4, <1>5, <1>6, <2>1, <2>2 DEF In
  <2>3. CASE k < i
    BY <1>2, <1>4, <1>5, <1>6, <2>1, <2>3 DEF In
  <2> QED BY <1>2, <2>1, <2>2, <2>3
<1>7. ASSUME NEW x \in Nat
      PROVE  Covers(Range(f), x) <=> In(x, f[k]) \/ Covers(Range(g), x)
  BY <1>1, <1>2, <1>3 DEF Covers, In
<1> QED BY <1>1, <1>6, <1>7 DEF g

(* find_free_block returns a block of the list that fits. *)
LEMMA FirstFitOK ==
  ASSUME free \in Seq(Blocks), NEW size, NEW align, FirstFit(size, align) # 0
  PROVE  /\ FirstFit(size, align) \in DOMAIN free
         /\ Fits(free[FirstFit(size, align)], size, align)
<1> DEFINE I == {i \in 1 .. Len(free) : Fits(free[i], size, align)}
           first == CHOOSE i \in I : \A j \in I : i <= j
<1>1. FirstFit(size, align) = IF I # {} THEN first ELSE 0
  BY DEF FirstFit
<1>2. I \in SUBSET Nat /\ I # {}
  BY <1>1
<1>3. first \in I
  <2> HIDE DEF I
  <2> QED BY <1>2, Least, Zenon
<1>4. DOMAIN free = 1 .. Len(free)
  OBVIOUS
<1> QED BY <1>1, <1>2, <1>3, <1>4

-----------------------------------------------------------------------------
(* The inductive invariant *)

InHeap(x) == HeapStart <= x /\ x < HeapStart + HeapSize
IsLive(L, x) == \E a \in L : In(x, BlockOf(a))

(* Every byte of the heap is in exactly one block: a free one, a live one  *)
(* or a leaked one.                                                        *)
Partition(f, L, K) ==
  \A x \in Nat :
    /\ InHeap(x) <=> Covers(Range(f), x) \/ IsLive(L, x) \/ Covers(K, x)
    /\ ~(Covers(Range(f), x) /\ IsLive(L, x))
    /\ ~(Covers(Range(f), x) /\ Covers(K, x))
    /\ ~(IsLive(L, x) /\ Covers(K, x))
    /\ \A a, b \in L : In(x, BlockOf(a)) /\ In(x, BlockOf(b)) => a = b
    /\ \A b, c \in K : In(x, b) /\ In(x, c) => b = c

AllocationsOK(L) ==
  /\ L \in SUBSET [start : Nat, layout : Layouts]
  /\ \A a \in L : a.start % AlignOf(a.layout) = 0

GapsOK(K) == K \in SUBSET Blocks /\ \A b \in K : b.size > 0

IInv ==
  /\ Sorted(free) /\ AllocationsOK(live) /\ GapsOK(leaked)
  /\ Partition(free, live, leaked)
  /\ panicked = FALSE

(* What an allocation occupies can be freed as a block. *)
LEMMA LiveBlock ==
  ASSUME NEW L, AllocationsOK(L), NEW a \in L
  PROVE  /\ BlockOK(BlockOf(a)) /\ BlockOf(a).start = a.start
         /\ BlockOf(a).size = SizeOf(a.layout) /\ End(BlockOf(a)) = a.start + SizeOf(a.layout)
         /\ a.start \in Nat /\ a.layout \in Layouts
<1>1. a.start \in Nat /\ a.layout \in Layouts /\ a.start % AlignOf(a.layout) = 0
  BY DEF AllocationsOK
<1>2. /\ SizeOf(a.layout) \in Nat /\ SizeOf(a.layout) >= 16 /\ SizeOf(a.layout) % 8 = 0
      /\ a.start % 8 = 0
  BY <1>1, LayoutOK
<1>3. /\ BlockOf(a) \in Blocks /\ BlockOf(a).start = a.start
      /\ BlockOf(a).size = SizeOf(a.layout)
      /\ End(BlockOf(a)) = a.start + SizeOf(a.layout)
  BY <1>1, <1>2, MakeBlock, Zenon DEF BlockOf
<1> QED BY <1>1, <1>2, <1>3 DEF BlockOK, NodeSize, NodeAlign

LEMMA InitIInv == Init => IInv
<1> SUFFICES ASSUME Init PROVE IInv
  OBVIOUS
<1> DEFINE heap == Block(HeapStart, HeapSize)
           none == <<>>
<1>1. /\ HeapStart \in Nat /\ HeapStart % 8 = 0
      /\ HeapSize \in Nat /\ HeapSize >= 16 /\ HeapSize % 8 = 0
  BY ListAllocatorAssumption DEF NodeAlign, NodeSize
<1>2. /\ heap \in Blocks /\ heap.start = HeapStart /\ heap.size = HeapSize
      /\ End(heap) = HeapStart + HeapSize
  BY <1>1, MakeBlock, Zenon
<1> HIDE DEF heap
<1>3. BlockOK(heap)
  BY <1>1, <1>2 DEF BlockOK, NodeAlign, NodeSize
<1>4. /\ none \in Seq(Blocks) /\ DOMAIN none = {}
  OBVIOUS
<1>5. Sorted(none) /\ Apart(none, heap) /\ Range(none) = {}
  BY <1>4 DEF Sorted, Apart, Range
<1> HIDE DEF none
<1>6. free = AddFreeBlock(none, heap) /\ live = {} /\ leaked = {} /\ panicked = FALSE
  BY DEF Init, heap, none
<1>7. /\ Sorted(free)
      /\ \A x \in Nat : Covers(Range(free), x) <=> In(x, heap)
  BY <1>3, <1>5, <1>6, AddOK DEF Covers
<1>8. \A x \in Nat : InHeap(x) <=> In(x, heap)
  BY <1>2 DEF InHeap, In
<1>9. Partition(free, live, leaked)
  BY <1>6, <1>7, <1>8 DEF Partition, IsLive, Covers
<1> QED BY <1>6, <1>7, <1>9 DEF IInv, AllocationsOK, GapsOK

(* dealloc: the block freed is disjoint from the free ones, so             *)
(* add_free_block does not panic, and its bytes are free.                  *)
LEMMA DeallocIInv ==
  ASSUME IInv, NEW a \in live, Dealloc(a)
  PROVE  IInv'
<1> DEFINE b == BlockOf(a)
<1>1. /\ Sorted(free) /\ AllocationsOK(live) /\ GapsOK(leaked)
      /\ Partition(free, live, leaked)
  BY DEF IInv
<1>2. BlockOK(b)
  BY <1>1, LiveBlock
<1>3. \A x \in Nat : In(x, b) => IsLive(live, x)
  BY DEF IsLive
<1> HIDE DEF b
<1>4. Apart(free, b)
  BY <1>1, <1>2, <1>3, ApartBytes DEF Partition
<1>5. ~AddPanics(free, b)
  BY <1>1, <1>2, <1>4, StopAtOK
<1>6. /\ panicked' = FALSE /\ free' = AddFreeBlock(free, b)
      /\ live' = live \ {a} /\ leaked' = leaked
  BY <1>5 DEF Dealloc, b, BlockOf
<1>7. /\ Sorted(free')
      /\ \A x \in Nat : Covers(Range(free'), x) <=> Covers(Range(free), x) \/ In(x, b)
  BY <1>1, <1>2, <1>4, <1>6, AddOK
<1>8. \A x \in Nat : IsLive(live, x) <=> IsLive(live', x) \/ In(x, b)
  BY <1>6 DEF IsLive, b
<1>9. \A x \in Nat : ~(IsLive(live', x) /\ In(x, b))
  BY <1>1, <1>6 DEF IsLive, b, Partition
<1>10. Partition(free', live', leaked')
  <2> SUFFICES ASSUME NEW x \in Nat
               PROVE  /\ InHeap(x) <=> \/ Covers(Range(free'), x) \/ IsLive(live', x)
                                       \/ Covers(leaked', x)
                      /\ ~(Covers(Range(free'), x) /\ IsLive(live', x))
                      /\ ~(Covers(Range(free'), x) /\ Covers(leaked', x))
                      /\ ~(IsLive(live', x) /\ Covers(leaked', x))
                      /\ \A c, d \in live' : In(x, BlockOf(c)) /\ In(x, BlockOf(d)) => c = d
                      /\ \A c, d \in leaked' : In(x, c) /\ In(x, d) => c = d
    BY DEF Partition, InHeap
  <2>1. /\ InHeap(x) <=> Covers(Range(free), x) \/ IsLive(live, x) \/ Covers(leaked, x)
        /\ ~(Covers(Range(free), x) /\ IsLive(live, x))
        /\ ~(Covers(Range(free), x) /\ Covers(leaked, x))
        /\ ~(IsLive(live, x) /\ Covers(leaked, x))
        /\ \A c, d \in live : In(x, BlockOf(c)) /\ In(x, BlockOf(d)) => c = d
        /\ \A c, d \in leaked : In(x, c) /\ In(x, d) => c = d
    BY <1>1 DEF Partition
  <2> QED BY <1>6, <1>7, <1>8, <1>9, <2>1
<1>11. AllocationsOK(live') /\ GapsOK(leaked')
  BY <1>1, <1>6 DEF AllocationsOK, GapsOK
<1> QED BY <1>6, <1>7, <1>10, <1>11 DEF IInv

(* alloc: the block found is cut into a leaked gap, the allocation and a   *)
(* tail that goes back to the list.  There is a gap only where the layout  *)
(* asks for more than the alignment of a node, which every free block has. *)
LEMMA AllocIInv ==
  ASSUME IInv, NEW l \in Layouts, Alloc(l)
  PROVE  /\ IInv'
         /\ leaked' # leaked => \E a \in live' \ live : a.layout.align > NodeAlign
<1> DEFINE size == SizeOf(l)
           i == FirstFit(size, AlignOf(l))
           e == free[i]
           at == AlignUp(e.start, AlignOf(l))
           rest == Unlink(free, i)
           left == End(e) - (at + size)
           tail == Block(at + size, left)
           a == [start |-> at, layout |-> l]
           G == IF at = e.start THEN {} ELSE {Block(e.start, at - e.start)}
<1>1. /\ Sorted(free) /\ AllocationsOK(live) /\ GapsOK(leaked)
      /\ Partition(free, live, leaked) /\ panicked = FALSE
  BY Zenon DEF IInv
<1>2. /\ i # 0 /\ live' = live \cup {a} /\ leaked' = leaked \cup G
      /\ IF tail.size = 0
         THEN free' = rest /\ panicked' = panicked
         ELSE /\ panicked' = AddPanics(rest, tail)
              /\ free' = IF panicked' THEN rest ELSE AddFreeBlock(rest, tail)
  BY Zenon DEF Alloc
<1>3. i \in DOMAIN free /\ (left = 0 \/ left >= 16)
  <2>1. i \in DOMAIN free /\ Fits(e, size, AlignOf(l))
    <3>1. free \in Seq(Blocks)
      BY <1>1, Zenon DEF Sorted
    <3> QED BY <1>2, <3>1, FirstFitOK, Zenon
  <2> HIDE DEF i, e, size
  <2> QED BY <2>1, Zenon DEF Fits, NodeSize
<1> HIDE DEF i
<1>4. /\ e \in Blocks /\ e.start \in Nat /\ e.size \in Nat /\ End(e) = e.start + e.size
      /\ e.size >= 16 /\ e.start % 8 = 0 /\ e.size % 8 = 0
  BY <1>1, <1>3, BlockFields DEF Sorted, BlockOK, NodeSize, NodeAlign
<1>5. /\ Sorted(rest)
      /\ \A x \in Nat : /\ Covers(Range(free), x) <=> In(x, e) \/ Covers(Range(rest), x)
                        /\ ~(In(x, e) /\ Covers(Range(rest), x))
  BY <1>1, <1>3, RemoveBytes
<1> HIDE DEF e, rest
<1>6. /\ size \in Nat /\ size >= 16 /\ size % 8 = 0
      /\ AlignOf(l) \in Nat \ {0} /\ AlignOf(l) % 8 = 0
  BY LayoutOK
<1>7. at \in Nat /\ e.start <= at /\ at % AlignOf(l) = 0 /\ at % 8 = 0
  BY <1>4, <1>6, AlignUpOK, Zenon
<1>8. l.align <= 8 => at = e.start
  <2> SUFFICES ASSUME l.align <= 8 PROVE at = e.start
    OBVIOUS
  <2>1. AlignOf(l) = 8
    BY LayoutOK
  <2>2. at < e.start + 8
    BY <1>4, <2>1, AlignUpOK, 8 \in Nat \ {0}, Zenon
  <2> HIDE DEF at
  <2>3. \A x, y \in Nat : x <= y /\ y < x + 8 /\ x % 8 = 0 /\ y % 8 = 0 => x = y
    OBVIOUS
  <2> QED BY <1>4, <1>7, <2>2, <2>3
<1> HIDE DEF size, at
<1>9. left \in Nat /\ left % 8 = 0 /\ at + size + left = End(e)
  <2>0. End(e) \in Nat
    BY <1>4
  <2>1. left \in Nat /\ at + size + left = End(e)
    <3>1. left \in Int /\ at + size + left = End(e)
      BY <1>6, <1>7, <2>0
    <3>2. left = 0 \/ left >= 16
      BY <1>3
    <3> HIDE DEF left
    <3> QED BY <3>1, <3>2
  <2>2. (at + size) % 8 = 0 /\ (e.start + e.size) % 8 = 0
    BY <1>4, <1>6, <1>7, SumOf8
  <2>3. \A x, y \in Nat : x % 8 = 0 /\ (x + y) % 8 = 0 => y % 8 = 0
    OBVIOUS
  <2>4. at + size \in Nat /\ ((at + size) + left) % 8 = 0
    BY <1>4, <1>6, <1>7, <2>1, <2>2
  <2> QED BY <2>1, <2>2, <2>3, <2>4
<1> HIDE DEF left
<1>10. /\ tail \in Blocks /\ tail.start = at + size /\ tail.size = left
      /\ End(tail) = End(e)
  BY <1>6, <1>7, <1>9, MakeBlock, at + size \in Nat, Zenon
<1>11. (at + size) % 8 = 0
  BY <1>6, <1>7, SumOf8
<1> HIDE DEF tail
<1>12. /\ Sorted(free') /\ panicked' = FALSE
       /\ \A x \in Nat : Covers(Range(free'), x) <=> Covers(Range(rest), x) \/ In(x, tail)
  <2>1. CASE left = 0
    <3>1. free' = rest /\ panicked' = FALSE
      BY <1>1, <1>2, <1>10, <2>1
    <3>2. \A x \in Nat : ~In(x, tail)
      BY <1>4, <1>6, <1>7, <1>9, <1>10, <2>1 DEF In
    <3> QED BY <1>5, <3>1, <3>2, Zenon
  <2>2. CASE left # 0
    <3>1. BlockOK(tail)
      BY <1>3, <1>9, <1>10, <1>11, <2>2 DEF BlockOK, NodeSize, NodeAlign
    <3>2. \A x \in Nat : In(x, tail) => In(x, e)
      BY <1>4, <1>6, <1>7, <1>9, <1>10 DEF In
    <3>3. Apart(rest, tail)
      BY <1>5, <3>1, <3>2, ApartBytes
    <3>4. ~AddPanics(rest, tail)
      BY <1>5, <3>1, <3>3, StopAtOK
    <3>5. free' = AddFreeBlock(rest, tail) /\ panicked' = FALSE
      BY <1>2, <1>10, <2>2, <3>4
    <3> QED BY <1>5, <3>1, <3>3, <3>5, AddOK
  <2> QED BY <2>1, <2>2, Zenon
<1>13. /\ a.start = at /\ a.layout = l /\ a \in [start : Nat, layout : Layouts]
  BY <1>7
<1>14. /\ BlockOf(a).start = at /\ End(BlockOf(a)) = at + size
  BY <1>6, <1>7, <1>13, MakeBlock, Zenon DEF BlockOf, size
<1> HIDE DEF a
<1>15. /\ GapsOK(G)
       /\ \A x \in Nat : Covers(G, x) <=> e.start <= x /\ x < at
       /\ \A b, c \in G : b = c
  <2>1. CASE at = e.start
    BY <1>4, <2>1 DEF GapsOK, Covers
  <2>2. CASE at # e.start
    <3> DEFINE n == at - e.start
               g == Block(e.start, n)
    <3>1. n \in Nat /\ n > 0 /\ e.start + n = at
      BY <1>4, <1>7, <2>2
    <3> HIDE DEF n
    <3>2. g \in Blocks /\ g.size = n /\ g.start = e.start /\ End(g) = at
      BY <1>4, <3>1, MakeBlock, Zenon
    <3>3. G = {g}
      BY <2>2 DEF n
    <3> HIDE DEF g, G
    <3> QED BY <3>1, <3>2, <3>3 DEF GapsOK, Covers
  <2> QED BY <2>1, <2>2
<1>16. at = e.start => G = {}
  OBVIOUS
<1> HIDE DEF G
<1>17. \A x \in Nat :
         /\ In(x, e) <=> Covers(G, x) \/ In(x, BlockOf(a)) \/ In(x, tail)
         /\ ~(Covers(G, x) /\ In(x, BlockOf(a)))
         /\ ~(Covers(G, x) /\ In(x, tail))
         /\ ~(In(x, BlockOf(a)) /\ In(x, tail))
  BY <1>4, <1>6, <1>7, <1>9, <1>10, <1>14, <1>15 DEF In
<1>18. \A x \in Nat : /\ IsLive(live', x) <=> IsLive(live, x) \/ In(x, BlockOf(a))
                      /\ Covers(leaked', x) <=> Covers(leaked, x) \/ Covers(G, x)
  BY <1>2 DEF IsLive, Covers
<1>19. Partition(free', live', leaked')
  <2> SUFFICES ASSUME NEW x \in Nat
               PROVE  /\ InHeap(x) <=> \/ Covers(Range(free'), x) \/ IsLive(live', x)
                                       \/ Covers(leaked', x)
                      /\ ~(Covers(Range(free'), x) /\ IsLive(live', x))
                      /\ ~(Covers(Range(free'), x) /\ Covers(leaked', x))
                      /\ ~(IsLive(live', x) /\ Covers(leaked', x))
                      /\ \A c, d \in live' : In(x, BlockOf(c)) /\ In(x, BlockOf(d)) => c = d
                      /\ \A c, d \in leaked' : In(x, c) /\ In(x, d) => c = d
    BY DEF Partition, InHeap
  <2>1. /\ InHeap(x) <=> Covers(Range(free), x) \/ IsLive(live, x) \/ Covers(leaked, x)
        /\ ~(Covers(Range(free), x) /\ IsLive(live, x))
        /\ ~(Covers(Range(free), x) /\ Covers(leaked, x))
        /\ ~(IsLive(live, x) /\ Covers(leaked, x))
        /\ \A c, d \in live : In(x, BlockOf(c)) /\ In(x, BlockOf(d)) => c = d
        /\ \A c, d \in leaked : In(x, c) /\ In(x, d) => c = d
    BY <1>1 DEF Partition
  <2>2. /\ InHeap(x) <=> \/ Covers(Range(free'), x) \/ IsLive(live', x)
                         \/ Covers(leaked', x)
        /\ ~(Covers(Range(free'), x) /\ IsLive(live', x))
        /\ ~(Covers(Range(free'), x) /\ Covers(leaked', x))
        /\ ~(IsLive(live', x) /\ Covers(leaked', x))
    BY <1>5, <1>12, <1>17, <1>18, <2>1
  <2>3. ASSUME NEW c \in live', NEW d \in live', In(x, BlockOf(c)), In(x, BlockOf(d))
        PROVE  c = d
    <3>1. In(x, BlockOf(a)) => ~IsLive(live, x)
      BY <1>5, <1>17, <2>1
    <3> QED BY <1>2, <2>1, <2>3, <3>1 DEF IsLive
  <2>4. ASSUME NEW c \in leaked', NEW d \in leaked', In(x, c), In(x, d)
        PROVE  c = d
    <3>1. Covers(G, x) => ~Covers(leaked, x)
      BY <1>5, <1>17, <2>1
    <3> QED BY <1>2, <1>15, <2>1, <2>4, <3>1 DEF Covers, In
  <2> QED BY <2>2, <2>3, <2>4
<1>20. AllocationsOK(live') /\ GapsOK(leaked')
  BY <1>1, <1>2, <1>7, <1>13, <1>15 DEF AllocationsOK, GapsOK
<1>21. IInv'
  BY <1>12, <1>19, <1>20 DEF IInv
<1>22. a \notin live
  <2>1. In(at, BlockOf(a))
    BY <1>6, <1>7, <1>14 DEF In
  <2>2. Covers(Range(free), at)
    BY <1>5, <1>7, <1>17, <2>1
  <2> QED BY <1>1, <1>7, <2>1, <2>2 DEF Partition, IsLive
<1>23. ASSUME leaked' # leaked PROVE l.align > NodeAlign
  <2>1. l.align \in Nat
    BY ListAllocatorAssumption
  <2> QED BY <1>2, <1>8, <1>16, <1>23, <2>1 DEF NodeAlign
<1> QED BY <1>2, <1>13, <1>21, <1>22, <1>23

LEMMA NextIInv ==
  ASSUME IInv, [Next]_vars
  PROVE  /\ IInv'
         /\ leaked' # leaked => \E a \in live' \ live : a.layout.align > NodeAlign
<1>1. CASE UNCHANGED vars
  BY <1>1 DEF vars, IInv
<1>2. CASE \E l \in Layouts : Alloc(l)
  BY <1>2, AllocIInv
<1>3. CASE \E l \in Layouts : AllocFails(l)
  BY <1>3 DEF AllocFails, vars, IInv
<1>4. CASE \E a \in live : Dealloc(a)
  <2>1. leaked' = leaked
    BY <1>4 DEF Dealloc
  <2> QED BY <1>4, <2>1, DeallocIInv
<1> QED BY <1>1, <1>2, <1>3, <1>4 DEF Next

(* Bytes and blocks: what the invariant says of the blocks of the heap. *)
LEMMA IInvMeans == IInv => FreeListOK /\ NoOverlap /\ Conserved /\ NeverPanics
<1> SUFFICES ASSUME IInv PROVE FreeListOK /\ NoOverlap /\ Conserved /\ NeverPanics
  OBVIOUS
<1>1. /\ Sorted(free) /\ AllocationsOK(live) /\ GapsOK(leaked)
      /\ Partition(free, live, leaked) /\ panicked = FALSE
  BY DEF IInv
<1>2. HeapStart \in Nat /\ HeapSize \in Nat
  BY ListAllocatorAssumption
<1>3. FreeListOK
  BY <1>1, Zenon DEF FreeListOK, TypeOK, Sorted, BlockOK, AllocationsOK, GapsOK
<1>4. /\ \A b \in Range(free) : b \in Blocks /\ b.size > 0
      /\ \A b \in leaked : b \in Blocks /\ b.size > 0
      /\ \A a \in live : BlockOf(a) \in Blocks /\ BlockOf(a).size > 0
  <2>1. \A i \in DOMAIN free : free[i] \in Blocks /\ free[i].size > 0
    BY <1>1, BlockFields DEF Sorted, BlockOK, NodeSize
  <2>2. ASSUME NEW a \in live PROVE BlockOf(a) \in Blocks /\ BlockOf(a).size > 0
    <3>1. BlockOK(BlockOf(a))
      BY <1>1, LiveBlock
    <3> QED BY <3>1, BlockFields DEF BlockOK, NodeSize
  <2> QED BY <1>1, <2>1, <2>2 DEF Range, GapsOK
<1>5. \A a, b \in live : a = b \/ Disjoint(BlockOf(a), BlockOf(b))
  BY <1>1, <1>4, DisjointBytes DEF Partition
<1>6. \A a \in live, b \in Range(free) \cup leaked : Disjoint(BlockOf(a), b)
  <2> TAKE a \in live, b \in Range(free) \cup leaked
  <2>1. \A x \in Nat : ~(In(x, BlockOf(a)) /\ In(x, b))
    BY <1>1 DEF Partition, IsLive, Covers, In
  <2> QED BY <1>4, <2>1, DisjointBytes
<1>7. \A b \in Range(free), c \in leaked : Disjoint(b, c)
  <2> TAKE b \in Range(free), c \in leaked
  <2>1. \A x \in Nat : ~(In(x, b) /\ In(x, c))
    BY <1>1 DEF Partition, Covers, In
  <2> QED BY <1>4, <2>1, DisjointBytes
<1>8. \A b, c \in leaked : b = c \/ Disjoint(b, c)
  BY <1>1, <1>4, DisjointBytes DEF Partition
<1>9. ASSUME NEW b \in Pieces
      PROVE  /\ b \in Blocks /\ b.size > 0
             /\ \A x \in Nat : In(x, b) => InHeap(x)
  <2>1. b \in Range(free) \/ b \in leaked \/ \E a \in live : b = BlockOf(a)
    BY DEF Pieces
  <2> QED BY <1>1, <1>4, <2>1 DEF Partition, Covers, In, IsLive
<1>10. \A b \in Pieces : HeapStart <= b.start /\ End(b) <= HeapStart + HeapSize
  <2> TAKE b \in Pieces
  <2>1. b \in Blocks /\ b.size > 0 /\ b.start \in Nat /\ End(b) \in Nat
    BY <1>9, BlockFields
  <2>2. InHeap(b.start) /\ InHeap(End(b) - 1)
    BY <1>9, <2>1, DisjointBytes
  <2> QED BY <1>2, <2>1, <2>2 DEF InHeap
<1>11. ASSUME NEW a \in live
       PROVE  /\ a.start % a.layout.align = 0
              /\ \A b \in Pieces : b.start > a.start => b.start >= a.start + a.layout.size
  <2>1. /\ a.start \in Nat /\ a.layout \in Layouts /\ a.start % AlignOf(a.layout) = 0
        /\ BlockOf(a).start = a.start /\ End(BlockOf(a)) = a.start + SizeOf(a.layout)
    BY <1>1, LiveBlock DEF AllocationsOK
  <2>2. /\ a.start % a.layout.align = 0 /\ a.layout.size \in Nat /\ SizeOf(a.layout) \in Nat
        /\ SizeOf(a.layout) >= a.layout.size
    BY <2>1, LayoutOK
  <2>3. ASSUME NEW b \in Pieces, b.start > a.start
        PROVE  b.start >= a.start + a.layout.size
    <3>1. b \in Blocks /\ b.size > 0 /\ b.start \in Nat /\ End(b) = b.start + b.size
      BY <1>9, BlockFields
    <3>2. Disjoint(BlockOf(a), b)
      <4>1. b \in Range(free) \/ b \in leaked \/ \E c \in live : b = BlockOf(c)
        BY DEF Pieces
      <4>2. b # BlockOf(a)
        BY <2>1, <2>3, <3>1
      <4> QED BY <1>5, <1>6, <4>1, <4>2
    <3>3. a.start + SizeOf(a.layout) <= b.start \/ End(b) <= a.start
      BY <2>1, <3>2, Zenon DEF Disjoint
    <3>4. b.size \in Nat
      BY <3>1, BlockFields
    <3> QED BY <2>1, <2>2, <2>3, <3>1, <3>3, <3>4
  <2> QED BY <2>2, <2>3
<1>12. NoOverlap
  BY <1>5, <1>6, <1>7, <1>8, <1>10, <1>11 DEF NoOverlap
<1>13. Conserved
  <2> SUFFICES ASSUME NEW x \in HeapStart .. HeapStart + HeapSize - 1
               PROVE  Covers(Pieces, x)
    BY DEF Conserved
  <2>1. x \in Nat /\ InHeap(x)
    BY <1>2 DEF InHeap
  <2>2. Covers(Range(free), x) \/ IsLive(live, x) \/ Covers(leaked, x)
    BY <1>1, <2>1 DEF Partition
  <2> QED BY <2>2 DEF Covers, IsLive, In, Pieces
<1> QED BY <1>1, <1>3, <1>12, <1>13 DEF NeverPanics

-----------------------------------------------------------------------------
(* Every byte of the heap stays in exactly one block, whatever is          *)
(* allocated and freed (alloc, dealloc, add_free_block of list.rs).        *)
THEOREM Invariance == Spec => []IInv
<1>1. IInv /\ [Next]_vars => IInv'
  BY NextIInv
<1> QED BY InitIInv, <1>1, PTL DEF Spec

(* The free list of add_free_block stays sorted and fully coalesced, and   *)
(* every block in it can hold a ListNode.                                  *)
THEOREM FreeListCorrect == Spec => []FreeListOK
<1>1. IInv => FreeListOK
  BY IInvMeans
<1> QED BY Invariance, <1>1, PTL

(* alloc hands out no byte twice, respects size and alignment of the       *)
(* layout and stays inside the heap, for every heap and all layouts.       *)
THEOREM NothingOverlaps == Spec => []NoOverlap
<1>1. IInv => NoOverlap
  BY IInvMeans
<1> QED BY Invariance, <1>1, PTL

(* alloc and dealloc lose no byte but the gaps below an aligned address.   *)
THEOREM Conservation == Spec => []Conserved
<1>1. IInv => Conserved
  BY IInvMeans
<1> QED BY Invariance, <1>1, PTL

(* add_free_block never meets an overlap, its panic at list.rs:85, when   *)
(* the program frees what it allocated.                                    *)
THEOREM NoPanic == Spec => []NeverPanics
<1>1. IInv => NeverPanics
  BY IInvMeans
<1> QED BY Invariance, <1>1, PTL

(* alloc leaks only for a layout aligned to more than a ListNode. *)
THEOREM LeaksByAlignment == Spec => OnlyAlignmentLeaks
<1>1. IInv /\ [Next]_vars =>
        [leaked' # leaked => \E a \in live' \ live : a.layout.align > NodeAlign]_vars
  BY NextIInv
<1> QED BY Invariance, <1>1, PTL DEF Spec, OnlyAlignmentLeaks
=============================================================================
