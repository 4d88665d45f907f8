----------------------------- MODULE PacketsProofs -----------------------------
(***************************************************************************)
(* What pack() writes, unpack() reads, however a stream cuts and joins it: *)
(* the properties of Packets, for every text, number, list and read.       *)
(***************************************************************************)
EXTENDS Packets, TLAPS, SequenceTheorems, FiniteSetTheorems, WellFoundedInduction

(* Recursive functions *)

\* Every non-empty set of natural numbers has a least element.
LEMMA LeastElement ==
    ASSUME NEW T \in SUBSET Nat, T # {}
    PROVE  \E x \in T : \A y \in T : ~ (y < x)
<1>1. PICK x \in T : \A y \in T : ~ (<<y, x>> \in OpToRel(<, Nat))
  BY NatLessThanWellFounded, WFMin, Zenon
<1>2. \A u, v \in Nat : u < v => <<u, v>> \in OpToRel(<, Nat)
  BY Zenon DEF OpToRel
<1>. QED
  BY <1>1, <1>2, Zenon

\* Induction, with a set in place of the predicate.
LEMMA SetInduction ==
    ASSUME NEW P \in SUBSET Nat, 0 \in P, \A n \in P : n + 1 \in P
    PROVE  Nat \subseteq P
<1>. DEFINE T == Nat \ P
<1>. SUFFICES ASSUME T # {} PROVE FALSE
  OBVIOUS
<1>1. PICK x \in T : \A y \in T : ~ (y < x)
  BY LeastElement, Zenon
<1>2. x \in Nat /\ x # 0
  BY <1>1
<1>3. x - 1 \in Nat /\ x - 1 < x
  BY <1>2
<1>4. x - 1 \in P
  BY <1>1, <1>3
<1>5. (x - 1) + 1 \in P
  BY <1>4
<1>. QED
  BY <1>1, <1>2, <1>5

\* A recursion over 1 .. N describes a function.
Recursive(S, N, base, step) ==
    \E f \in [0 .. N -> S] :
       f[0] = base /\ \A n \in 1 .. N : f[n] = step[<<n, f[n - 1]>>]

LEMMA RecursionLemma ==
    ASSUME NEW S, NEW N \in Nat, NEW base \in S, NEW step \in [(1 .. N) \X S -> S]
    PROVE  Recursive(S, N, base, step)
<1>. DEFINE Good(n, f) == f[0] = base /\ \A i \in 1 .. n : f[i] = step[<<i, f[i - 1]>>]
            P == {n \in Nat : n <= N => \E f \in [0 .. n -> S] : Good(n, f)}
<1>1. 0 \in P
  <2>1. [i \in 0 .. 0 |-> base] \in [0 .. 0 -> S] /\ Good(0, [i \in 0 .. 0 |-> base])
    OBVIOUS
  <2>. QED
    BY <2>1, Zenon
<1>2. ASSUME NEW n \in P PROVE n + 1 \in P
  <2>1. n \in Nat /\ n + 1 \in Nat
    OBVIOUS
  <2>. SUFFICES ASSUME n + 1 <= N PROVE \E f \in [0 .. n + 1 -> S] : Good(n + 1, f)
    BY <2>1, Zenon
  <2>2. n <= N
    BY <2>1
  <2>3. PICK f \in [0 .. n -> S] : Good(n, f)
    BY <2>2, Zenon
  <2>. DEFINE next == step[<<n + 1, f[n]>>]
              g == [i \in 0 .. n + 1 |-> IF i = n + 1 THEN next ELSE f[i]]
  <2>4. next \in S
    <3>1. n + 1 \in 1 .. N /\ f[n] \in S
      BY <2>1
    <3>. QED
      BY <3>1
  <2>5. g \in [0 .. n + 1 -> S] /\ g[0] = base
    <3>. HIDE DEF next
    <3>1. g \in [0 .. n + 1 -> S]
      BY <2>1, <2>4
    <3>2. 0 # n + 1 /\ 0 \in 0 .. n + 1
      BY <2>1
    <3>. QED
      BY <2>3, <3>1, <3>2
  <2>6. ASSUME NEW i \in 1 .. n + 1 PROVE g[i] = step[<<i, g[i - 1]>>]
    <3>1. i - 1 \in 0 .. n + 1 /\ i - 1 # n + 1 /\ i \in 0 .. n + 1
      BY <2>1
    <3>2. g[i - 1] = f[i - 1]
      BY <3>1
    <3>3. CASE i = n + 1
      <4>1. i - 1 = n /\ g[i] = next
        BY <2>1, <3>1, <3>3
      <4>. QED
        BY <3>2, <3>3, <4>1
    <3>4. CASE i # n + 1
      <4>1. i \in 1 .. n /\ g[i] = f[i]
        BY <2>1, <3>1, <3>4
      <4>2. f[i] = step[<<i, f[i - 1]>>]
        BY <2>3, <4>1, Zenon
      <4>. QED
        BY <3>2, <4>1, <4>2, Zenon
    <3>. QED
      BY <3>3, <3>4
  <2>. QED
    BY <2>5, <2>6, Zenon
<1>3. P \in SUBSET Nat
  OBVIOUS
<1>. HIDE DEF P
<1>4. N \in P /\ N <= N
  BY <1>1, <1>2, <1>3, SetInduction
<1>. QED
  BY <1>4, Zenon DEF P, Recursive

-------------------------------------------------------------------------------
(* Sequences *)

\* What is left of a sequence without its first m elements, and what they are.
LEMMA RestLemma ==
    ASSUME NEW S, NEW s \in Seq(S), NEW m \in 0 .. Len(s)
    PROVE  /\ SubSeq(s, m + 1, Len(s)) \in Seq(S)
           /\ Len(SubSeq(s, m + 1, Len(s))) = Len(s) - m
           /\ \A i \in 1 .. Len(s) - m : SubSeq(s, m + 1, Len(s))[i] = s[m + i]
<1>. DEFINE N == Len(s)
            rest == SubSeq(s, m + 1, N)
<1>1. N \in Nat /\ m + 1 \in Int /\ N \in Int /\ \A i \in m + 1 .. N : s[i] \in S
  OBVIOUS
<1>2. /\ rest \in Seq(S)
      /\ Len(rest) = IF m + 1 <= N THEN N - (m + 1) + 1 ELSE 0
      /\ \A i \in 1 .. N - (m + 1) + 1 : rest[i] = s[(m + 1) + i - 1]
  BY <1>1, SubSeqProperties
<1>3. Len(rest) = N - m /\ 1 .. N - (m + 1) + 1 = 1 .. N - m
  BY <1>1, <1>2
<1>4. \A i \in 1 .. N - m : (m + 1) + i - 1 = m + i
  BY <1>1
<1>. QED
  BY <1>2, <1>3, <1>4

LEMMA PrefixLemma ==
    ASSUME NEW S, NEW s \in Seq(S), NEW m \in 0 .. Len(s)
    PROVE  /\ SubSeq(s, 1, m) \in Seq(S) /\ Len(SubSeq(s, 1, m)) = m
           /\ \A i \in 1 .. m : SubSeq(s, 1, m)[i] = s[i]
<1>1. 1 \in Int /\ m \in Int /\ \A i \in 1 .. m : s[i] \in S
  OBVIOUS
<1>2. /\ SubSeq(s, 1, m) \in Seq(S)
      /\ Len(SubSeq(s, 1, m)) = IF 1 <= m THEN m - 1 + 1 ELSE 0
      /\ \A i \in 1 .. m - 1 + 1 : SubSeq(s, 1, m)[i] = s[1 + i - 1]
  BY <1>1, SubSeqProperties
<1>3. \A i \in 1 .. m : i \in 1 .. m - 1 + 1 /\ 1 + i - 1 = i
  OBVIOUS
<1>4. Len(SubSeq(s, 1, m)) = m
  BY <1>2
<1>. QED
  BY <1>2, <1>3, <1>4, Zenon

\* A function on 1 .. n is a sequence of n elements.
LEMMA FunctionIsSeq ==
    ASSUME NEW S, NEW n \in Nat, NEW s \in [1 .. n -> S]
    PROVE  s \in Seq(S) /\ Len(s) = n
<1>1. s \in UNION {[1 .. i -> S] : i \in Nat}
  OBVIOUS
<1>2. s \in Seq(S)
  BY <1>1, SeqDef, Zenon
<1>3. Len(s) \in Nat /\ 1 .. Len(s) = 1 .. n
  BY <1>2, LenProperties
<1>4. Len(s) = n
  BY <1>3
<1>. QED
  BY <1>2, <1>4

-------------------------------------------------------------------------------
(* Where packets end *)

\* The equation the recursive function of Offset satisfies.
OffsetBody(lengths, end) ==
    [n \in 0 .. Len(lengths) |-> IF n = 0 THEN 0 ELSE end[n - 1] + lengths[n]]

\* A packet ends its own length behind the one before it.
LEMMA OffsetLemma ==
    ASSUME NEW lengths \in Seq(Nat)
    PROVE  /\ Offset(lengths) \in [0 .. Len(lengths) -> Nat]
           /\ Offset(lengths)[0] = 0
           /\ \A n \in 1 .. Len(lengths) :
                 Offset(lengths)[n] = Offset(lengths)[n - 1] + lengths[n]
<1>. DEFINE N == Len(lengths)
            end == Offset(lengths)
<1>1. N \in Nat
  OBVIOUS
<1>2. \E f : f = OffsetBody(lengths, f)
  <2>. DEFINE step == [p \in (1 .. N) \X Nat |-> p[2] + lengths[p[1]]]
  <2>1. step \in [(1 .. N) \X Nat -> Nat]
    <3>1. ASSUME NEW p \in (1 .. N) \X Nat PROVE p[2] + lengths[p[1]] \in Nat
      <4>1. p[1] \in 1 .. N /\ p[2] \in Nat
        OBVIOUS
      <4>2. lengths[p[1]] \in Nat
        BY <4>1
      <4>. QED
        BY <4>1, <4>2
    <3>. QED
      BY <3>1, Zenon
  <2>. HIDE DEF step
  <2>2. PICK f \in [0 .. N -> Nat] :
            f[0] = 0 /\ \A n \in 1 .. N : f[n] = step[<<n, f[n - 1]>>]
    <3>1. Recursive(Nat, N, 0, step)
      BY <1>1, <2>1, RecursionLemma
    <3>. QED
      BY <3>1, Zenon DEF Recursive
  <2>3. ASSUME NEW n \in 0 .. N
        PROVE  f[n] = IF n = 0 THEN 0 ELSE f[n - 1] + lengths[n]
    <3>1. CASE n = 0
      BY <2>2, <3>1
    <3>2. CASE n # 0
      <4>1. n \in 1 .. N /\ n - 1 \in 0 .. N
        BY <1>1, <3>2
      <4>2. <<n, f[n - 1]>> \in (1 .. N) \X Nat
        BY <4>1
      <4>3. step[<<n, f[n - 1]>>] = f[n - 1] + lengths[n]
        BY <4>2 DEF step
      <4>. QED
        BY <2>2, <3>2, <4>1, <4>3
    <3>. QED
      BY <3>1, <3>2
  <2>4. f = OffsetBody(lengths, f)
    BY <2>3, Zenon DEF OffsetBody
  <2>. QED
    BY <2>4, Zenon
<1>3. end = OffsetBody(lengths, end)
  BY <1>2, Zenon DEF Offset, OffsetBody
<1>. HIDE DEF end
<1>4. /\ DOMAIN end = 0 .. N
      /\ \A n \in 0 .. N : end[n] = IF n = 0 THEN 0 ELSE end[n - 1] + lengths[n]
  BY <1>3, Zenon DEF OffsetBody
<1>5. end[0] = 0
  BY <1>1, <1>4
<1>6. ASSUME NEW n \in 1 .. N PROVE end[n] = end[n - 1] + lengths[n]
  <2>1. n \in 0 .. N /\ n # 0
    BY <1>1
  <2>. QED
    BY <1>4, <2>1, Zenon
<1>7. \A n \in 0 .. N : end[n] \in Nat
  <2>. DEFINE P == {n \in Nat : n <= N => end[n] \in Nat}
  <2>1. 0 \in P
    BY <1>5
  <2>2. ASSUME NEW n \in P PROVE n + 1 \in P
    <3>. SUFFICES ASSUME n + 1 <= N PROVE end[n + 1] \in Nat
      OBVIOUS
    <3>1. n \in Nat /\ n + 1 \in 1 .. N /\ end[n] \in Nat
      BY <1>1
    <3>2. end[n + 1] = end[n] + lengths[n + 1]
      BY <1>6, <3>1
    <3>3. lengths[n + 1] \in Nat
      BY <3>1
    <3>. QED
      BY <3>1, <3>2, <3>3
  <2>. HIDE DEF P
  <2>3. Nat \subseteq P
    BY <2>1, <2>2, SetInduction DEF P
  <2>. QED
    BY <1>1, <2>3 DEF P
<1>8. end = [n \in 0 .. N |-> end[n]]
  BY <1>3, <1>4, Zenon DEF OffsetBody
<1>9. end \in [0 .. N -> Nat]
  BY <1>7, <1>8, Zenon
<1>. QED
  BY <1>5, <1>6, <1>9 DEF end

-------------------------------------------------------------------------------
(* One field *)

\* The values of a 16-bit field, and the conversion to one.
Width == 65536
Shorts == 0 .. Width - 1
Cut(n) == n % Width

LEMMA ModRange == \A n \in Nat, m \in Nat \ {0} : n % m \in 0 .. m - 1
  OBVIOUS

LEMMA ByteRange == \A n \in Nat : n % 256 \in Bytes /\ n \div 256 \in Nat
  BY SMT DEF Bytes

LEMMA WidthLemma == Width \in Nat \ {0}
  BY SMT DEF Width

LEMMA ShortRange == \A n \in Nat : Cut(n) \in Shorts
  BY ModRange, WidthLemma, Zenon DEF Cut, Shorts

LEMMA ShortSplit == \A n \in Nat : Cut(n) = 256 * ((n \div 256) % 256) + (n % 256)
  BY SMTT(30) DEF Cut, Width

LEMMA ByteSplit ==
    ASSUME NEW v \in Shorts
    PROVE  /\ v \in Nat /\ v % 256 \in Bytes /\ v \div 256 \in Bytes
           /\ v = (v % 256) + 256 * (v \div 256)
  <1>1. v \in Nat /\ v < Width
    BY WidthLemma DEF Shorts
  <1>2. v % 256 \in Bytes
    BY <1>1, ByteRange
  <1>3. v \div 256 \in Bytes
    <2>1. v < 65536
      BY <1>1 DEF Width
    <2> QED
      BY <1>1, <2>1, SMTT(15) DEF Bytes
  <1>4. v = (v % 256) + 256 * (v \div 256)
    BY <1>1, SMTT(15)
  <1> QED
    BY <1>1, <1>2, <1>3, <1>4

\* The two bytes of a number are bytes, and are put together again to the number
\* cut to 16 bits: packi16() and unpacku16().
LEMMA ShortLemma ==
    ASSUME NEW n \in Nat
    PROVE  /\ packi16(n)[1] \in Bytes /\ packi16(n)[2] \in Bytes
           /\ unpacku16(packi16(n)[1], packi16(n)[2]) = Cut(n)
  <1>1. packi16(n)[1] = (n \div 256) % 256 /\ packi16(n)[2] = n % 256
    BY DEF packi16
  <1>2. (n \div 256) % 256 \in Bytes /\ n % 256 \in Bytes
    BY ByteRange
  <1>3. unpacku16(packi16(n)[1], packi16(n)[2]) = 256 * ((n \div 256) % 256) + (n % 256)
    BY <1>1, SMTT(20) DEF unpacku16
  <1>4. unpacku16(packi16(n)[1], packi16(n)[2]) = Cut(n)
    BY <1>3, ShortSplit, SMTT(20)
  <1> QED
    BY <1>1, <1>2, <1>4

\* A number stored through a pointer to unsigned int is read back from the two
\* bytes of its field, cut to 16 bits, and of the rest only the two bytes behind
\* the field may change: the "H" of unpack() on what the "H" of pack() wrote.
THEOREM FieldCorrect ==
    ASSUME NEW n \in Nat, NEW M, NEW mem \in [M -> Bytes], M \subseteq Nat,
           NEW at \in Nat, at \in M, at + 1 \in M,
           NEW after, after = StoreInt(mem, at, unpacku16(packi16(n)[1], packi16(n)[2]))
    PROVE  /\ after \in [M -> Bytes]
           /\ LoadShort(after, at) = Cut(n)
           /\ \A o \in M \ {at, at + 1, at + 2, at + 3} : after[o] = mem[o]
  <1>1. PICK v \in Shorts : v = Cut(n) /\ after = StoreInt(mem, at, v)
    BY ShortLemma, ShortRange
  <1>2. /\ v \in Nat /\ v % 256 \in Bytes /\ v \div 256 \in Bytes
        /\ v = (v % 256) + 256 * (v \div 256)
    BY ByteSplit
  <1> DEFINE low == v % 256
             high == v \div 256
  <1>3. after = [o \in M |-> IF o = at THEN low
                             ELSE IF o = at + 1 THEN high
                             ELSE IF o \in {at + 2, at + 3} THEN 0
                             ELSE mem[o]]
    BY <1>1 DEF StoreInt
  <1>4. low \in Bytes /\ high \in Bytes /\ 0 \in Bytes /\ v = low + 256 * high
    BY <1>2, SMTT(15) DEF Bytes
  <1> HIDE DEF low, high
  <1>5. after \in [M -> Bytes]
    BY <1>3, <1>4, SMTT(15)
  <1>6. after[at] = low /\ after[at + 1] = high
    <2>1. at + 1 # at
      BY SMTT(15)
    <2> QED
      BY <1>3, <2>1, ZenonT(10)
  <1>7. \A o \in M \ {at, at + 1, at + 2, at + 3} : after[o] = mem[o]
    BY <1>3, ZenonT(10)
  <1>8. LoadShort(after, at) = v
    BY <1>4, <1>6, ZenonT(20) DEF LoadShort
  <1> QED
    BY <1>1, <1>5, <1>7, <1>8

-------------------------------------------------------------------------------
(* Streams *)

\* No packet is empty: each ends behind all the earlier ones.
LEMMA OffsetGrows ==
    ASSUME NEW lengths \in Seq(Nat), \A i \in DOMAIN lengths : lengths[i] > 0,
           NEW m \in 0 .. Len(lengths), NEW n \in m + 1 .. Len(lengths)
    PROVE  Offset(lengths)[m] < Offset(lengths)[n]
<1>. DEFINE end == Offset(lengths)
            P == {i \in Nat : m + 1 + i <= Len(lengths) => end[m] < end[m + 1 + i]}
<1>1. lengths \in Seq(Nat) /\ Len(lengths) \in Nat /\ m \in Nat
  OBVIOUS
<1>2. /\ end \in [0 .. Len(lengths) -> Nat]
      /\ \A i \in 1 .. Len(lengths) : end[i] = end[i - 1] + lengths[i]
  BY <1>1, OffsetLemma
<1>. HIDE DEF end
<1>3. ASSUME NEW i \in 0 .. Len(lengths), i + 1 <= Len(lengths)
      PROVE  end[i] \in Nat /\ end[i] < end[i + 1]
  <2>1. i + 1 \in 1 .. Len(lengths) /\ (i + 1) - 1 = i
    BY <1>1, <1>3
  <2>2. end[i + 1] = end[i] + lengths[i + 1]
    BY <1>2, <2>1, Zenon
  <2>3. lengths[i + 1] \in Nat /\ lengths[i + 1] > 0
    BY <2>1
  <2>4. end[i] \in Nat
    BY <1>2, Zenon
  <2>5. \A a, b \in Nat : b > 0 => a < a + b
    OBVIOUS
  <2>. QED
    BY <2>2, <2>3, <2>4, <2>5, Zenon
<1>4. 0 \in P
  BY <1>1, <1>3
<1>5. ASSUME NEW i \in P PROVE i + 1 \in P
  <2>. SUFFICES ASSUME m + 1 + (i + 1) <= Len(lengths)
                PROVE  end[m] < end[m + 1 + (i + 1)]
    OBVIOUS
  <2>1. i \in Nat /\ m + 1 + i \in 0 .. Len(lengths) /\ (m + 1 + i) + 1 <= Len(lengths)
    BY <1>1
  <2>2. end[m] < end[m + 1 + i]
    BY <1>1, <2>1
  <2>3. end[m + 1 + i] \in Nat /\ end[m + 1 + i] < end[(m + 1 + i) + 1]
    BY <1>3, <2>1
  <2>4. (m + 1 + i) + 1 = m + 1 + (i + 1) /\ m + 1 + (i + 1) \in 0 .. Len(lengths)
    BY <1>1, <2>1
  <2>5. end[m] \in Nat /\ end[m + 1 + (i + 1)] \in Nat
    BY <1>2, <2>4
  <2>6. \A a, b, c \in Nat : a < b /\ b < c => a < c
    OBVIOUS
  <2>. HIDE DEF P
  <2>. QED
    BY <2>2, <2>3, <2>4, <2>5, <2>6, Zenon
<1>. HIDE DEF P
<1>6. Nat \subseteq P
  BY <1>4, <1>5, SetInduction DEF P
<1>7. n - (m + 1) \in Nat /\ m + 1 + (n - (m + 1)) = n /\ n <= Len(lengths)
  BY <1>1
<1>. QED
  BY <1>6, <1>7 DEF P, end

\* One more packet leaves the others where they are.
LEMMA OffsetAppend ==
    ASSUME NEW lengths \in Seq(Nat), NEW length \in Nat
    PROVE  /\ \A n \in 0 .. Len(lengths) :
                 Offset(Append(lengths, length))[n] = Offset(lengths)[n]
           /\ Offset(Append(lengths, length))[Len(lengths) + 1]
                = Offset(lengths)[Len(lengths)] + length
<1>. DEFINE N == Len(lengths)
            more == Append(lengths, length)
            end == Offset(lengths)
            end2 == Offset(more)
            P == {n \in Nat : n <= N => end2[n] = end[n]}
<1>1. /\ N \in Nat /\ more \in Seq(Nat) /\ Len(more) = N + 1 /\ more[N + 1] = length
      /\ \A i \in 1 .. N : more[i] = lengths[i]
  OBVIOUS
<1>2. end[0] = 0 /\ \A i \in 1 .. N : end[i] = end[i - 1] + lengths[i]
  BY OffsetLemma
<1>3. end2[0] = 0 /\ \A i \in 1 .. N + 1 : end2[i] = end2[i - 1] + more[i]
  BY <1>1, OffsetLemma
<1>. HIDE DEF N, more, end, end2
<1>4. 0 \in P
  BY <1>2, <1>3
<1>5. ASSUME NEW n \in P PROVE n + 1 \in P
  <2>. SUFFICES ASSUME n + 1 <= N PROVE end2[n + 1] = end[n + 1]
    OBVIOUS
  <2>1. n + 1 \in 1 .. N /\ n + 1 \in 1 .. N + 1 /\ (n + 1) - 1 = n /\ end2[n] = end[n]
    BY <1>1
  <2>. HIDE DEF P
  <2>2. end[n + 1] = end[n] + lengths[n + 1]
    BY <1>2, <2>1
  <2>3. end2[n + 1] = end2[n] + more[n + 1]
    BY <1>3, <2>1
  <2>. QED
    BY <1>1, <2>1, <2>2, <2>3
<1>. HIDE DEF P
<1>6. Nat \subseteq P
  BY <1>4, <1>5, SetInduction DEF P
<1>7. \A n \in 0 .. N : end2[n] = end[n]
  BY <1>1, <1>6 DEF P
<1>8. N \in 0 .. N /\ N + 1 \in 1 .. N + 1 /\ (N + 1) - 1 = N
  BY <1>1
<1>9. end2[N + 1] = end[N] + length
  BY <1>1, <1>3, <1>7, <1>8
<1>. QED
  BY <1>7, <1>9 DEF N, more, end, end2

\* Without the first m packets, all begin and end that much earlier.
LEMMA OffsetDrop ==
    ASSUME NEW lengths \in Seq(Nat), NEW m \in 0 .. Len(lengths)
    PROVE  \A n \in 0 .. Len(lengths) - m :
              Offset(lengths)[m + n]
                = Offset(lengths)[m] + Offset(SubSeq(lengths, m + 1, Len(lengths)))[n]
<1>. DEFINE rest == SubSeq(lengths, m + 1, Len(lengths))
            N == Len(lengths)
            end == Offset(lengths)
            end2 == Offset(rest)
            P == {n \in Nat : n <= N - m => end[m + n] = end[m] + end2[n]}
<1>1. N \in Nat /\ m \in Nat /\ N - m \in Nat
  OBVIOUS
<1>2. /\ rest \in Seq(Nat) /\ Len(rest) = N - m
      /\ \A n \in 1 .. N - m : rest[n] = lengths[m + n]
  BY RestLemma
<1>3. /\ end \in [0 .. N -> Nat]
      /\ \A i \in 1 .. N : end[i] = end[i - 1] + lengths[i]
  BY OffsetLemma
<1>4. /\ end2 \in [0 .. N - m -> Nat] /\ end2[0] = 0
      /\ \A i \in 1 .. N - m : end2[i] = end2[i - 1] + rest[i]
  BY <1>2, OffsetLemma
<1>. HIDE DEF N, end, end2, rest
<1>5. 0 \in P
  <2>1. m + 0 = m /\ m \in 0 .. N
    BY <1>1
  <2>2. end[m] \in Nat
    BY <1>3, <2>1
  <2>. QED
    BY <1>4, <2>1, <2>2
<1>6. ASSUME NEW n \in P PROVE n + 1 \in P
  <2>. SUFFICES ASSUME n + 1 <= N - m PROVE end[m + (n + 1)] = end[m] + end2[n + 1]
    OBVIOUS
  <2>1. /\ n \in Nat /\ n + 1 \in 1 .. N - m /\ (n + 1) - 1 = n
        /\ end[m + n] = end[m] + end2[n]
    BY <1>1
  <2>2. /\ m + (n + 1) \in 1 .. N /\ m + (n + 1) - 1 = m + n
        /\ m \in 0 .. N /\ n \in 0 .. N - m
    BY <1>1, <2>1
  <2>. HIDE DEF P
  <2>3. end[m + (n + 1)] = end[m + n] + lengths[m + (n + 1)]
    BY <1>3, <2>2
  <2>4. end2[n + 1] = end2[n] + rest[n + 1]
    BY <1>4, <2>1
  <2>5. rest[n + 1] = lengths[m + (n + 1)] /\ rest[n + 1] \in Nat
    BY <1>2, <2>1
  <2>6. end[m] \in Nat /\ end2[n] \in Nat
    BY <1>3, <1>4, <2>2
  <2>7. end[m + (n + 1)] = (end[m] + end2[n]) + rest[n + 1]
    BY <2>1, <2>3, <2>5, Zenon
  <2>8. PICK a \in Nat, b \in Nat, c \in Nat : a = end[m] /\ b = end2[n] /\ c = rest[n + 1]
    BY <2>5, <2>6
  <2>9. (a + b) + c = a + (b + c)
    OBVIOUS
  <2>. QED
    BY <2>4, <2>7, <2>8, <2>9, Zenon
<1>. HIDE DEF P
<1>7. Nat \subseteq P
  BY <1>5, <1>6, SetInduction DEF P
<1>8. \A n \in 0 .. N - m : end[m + n] = end[m] + end2[n]
  BY <1>1, <1>7 DEF P
<1>. QED
  BY <1>8, Zenon DEF N, end, end2, rest

\* A read that ends with a packet leaves those behind the last it holds.
LastOf(lengths, k) ==
    \E m \in DOMAIN lengths :
       /\ k = Offset(lengths)[m]
       /\ \A packets : After(packets, lengths, k) = SubSeq(packets, m + 1, Len(packets))

LEMMA AfterLemma ==
    ASSUME NEW lengths, NEW k \in Ends(lengths)
    PROVE  LastOf(lengths, k)
<1>. DEFINE last == CHOOSE n \in DOMAIN lengths : Offset(lengths)[n] = k
<1>1. last \in DOMAIN lengths /\ Offset(lengths)[last] = k
  BY Zenon DEF Ends
<1>2. \A packets : After(packets, lengths, k) = SubSeq(packets, last + 1, Len(packets))
  BY Zenon DEF After
<1>. QED
  BY <1>1, <1>2, Zenon DEF LastOf

\* A stream holds these packets, one behind the other, and nothing else.
Lengths(packets) == [i \in DOMAIN packets |-> Len(packets[i])]

Framed(stream, packets) ==
    LET end == Offset(Lengths(packets))
    IN  /\ Len(stream) = end[Len(packets)]
        /\ \A i \in 1 .. Len(packets) : \A j \in 1 .. Len(packets[i]) :
              stream[end[i - 1] + j] = packets[i][j]

LEMMA LengthsLemma ==
    ASSUME NEW packets \in Seq(Seq(Bytes))
    PROVE  /\ Lengths(packets) \in Seq(Nat) /\ Len(Lengths(packets)) = Len(packets)
           /\ \A i \in 1 .. Len(packets) : Lengths(packets)[i] = Len(packets[i])
<1>1. ASSUME NEW i \in 1 .. Len(packets) PROVE Len(packets[i]) \in Nat
  <2>1. packets[i] \in Seq(Bytes)
    OBVIOUS
  <2>. QED
    BY <2>1
<1>2. Lengths(packets) = [i \in 1 .. Len(packets) |-> Len(packets[i])]
  BY DEF Lengths
<1>3. Lengths(packets) \in [1 .. Len(packets) -> Nat]
  BY <1>1, <1>2, Zenon
<1>4. Len(packets) \in Nat
  OBVIOUS
<1>5. Lengths(packets) \in Seq(Nat) /\ Len(Lengths(packets)) = Len(packets)
  BY <1>3, <1>4, FunctionIsSeq
<1>. QED
  BY <1>2, <1>5

\* Where the i-th packet lies: behind the earlier ones and before the end.
LEMMA PlaceLemma ==
    ASSUME NEW packets \in Seq(Seq(Bytes)),
           \A i \in 1 .. Len(packets) : Len(packets[i]) > 0,
           NEW i \in 1 .. Len(packets), NEW j \in 1 .. Len(packets[i]),
           NEW end, end = Offset(Lengths(packets))
    PROVE  /\ end[i - 1] \in Nat /\ end[i] \in Nat /\ end[Len(packets)] \in Nat
           /\ end[i] = end[i - 1] + Len(packets[i])
           /\ end[i - 1] + j \in 1 .. end[i] /\ end[i] <= end[Len(packets)]
<1>. DEFINE N == Len(packets)
<1>1. /\ N \in Nat /\ i \in 0 .. N /\ i - 1 \in 0 .. N /\ N \in 0 .. N
      /\ packets[i] \in Seq(Bytes)
  OBVIOUS
<1>2. /\ Lengths(packets) \in Seq(Nat) /\ Len(Lengths(packets)) = N
      /\ \A n \in 1 .. N : Lengths(packets)[n] = Len(packets[n])
  BY LengthsLemma
<1>3. /\ end \in [0 .. N -> Nat]
      /\ \A n \in 1 .. N : end[n] = end[n - 1] + Lengths(packets)[n]
  BY <1>2, OffsetLemma
<1>4. end[i - 1] \in Nat /\ end[i] \in Nat /\ end[N] \in Nat
  BY <1>1, <1>3
<1>5. end[i] = end[i - 1] + Len(packets[i])
  BY <1>2, <1>3
<1>6. end[i] <= end[N]
  <2>1. CASE i = N
    BY <1>4, <2>1
  <2>2. CASE i # N
    <3>1. N \in i + 1 .. N
      BY <1>1, <2>2
    <3>2. \A n \in DOMAIN Lengths(packets) : Lengths(packets)[n] > 0
      <4>1. DOMAIN Lengths(packets) = 1 .. N
        BY <1>2, LenProperties, Zenon
      <4>. QED
        BY <1>2, <4>1, Zenon
    <3>3. end[i] < end[N]
      BY <1>1, <1>2, <3>1, <3>2, OffsetGrows
    <3>4. \A a, b \in Nat : a < b => a <= b
      OBVIOUS
    <3>. QED
      BY <1>4, <3>3, <3>4, Zenon
  <2>. QED
    BY <2>1, <2>2
<1>7. end[i - 1] + j \in 1 .. end[i]
  <2>1. Len(packets[i]) \in Nat
    BY <1>1
  <2>2. \A a, b \in Nat : \A c \in 1 .. b : a + c \in 1 .. a + b
    OBVIOUS
  <2>. QED
    BY <1>4, <1>5, <2>1, <2>2, Zenon
<1>. QED
  BY <1>4, <1>5, <1>6, <1>7

\* The first packet is where the stream begins; without one it is empty.
LEMMA FramedFirst ==
    ASSUME NEW stream \in Seq(Bytes), NEW packets \in Seq(Seq(Bytes)),
           \A i \in 1 .. Len(packets) : Len(packets[i]) > 0,
           Framed(stream, packets), stream # <<>>
    PROVE  /\ 1 \in 1 .. Len(packets) /\ Len(packets[1]) <= Len(stream)
           /\ \A j \in 1 .. Len(packets[1]) : stream[j] = packets[1][j]
<1>. DEFINE end == Offset(Lengths(packets))
<1>1. Lengths(packets) \in Seq(Nat) /\ Len(Lengths(packets)) = Len(packets)
  BY LengthsLemma
<1>2. end[0] = 0
  BY <1>1, OffsetLemma
<1>3. Len(stream) = end[Len(packets)] /\ Len(stream) # 0
  BY DEF Framed
<1>4. 1 \in 1 .. Len(packets)
  <2>1. Len(packets) # 0
    BY <1>2, <1>3
  <2>. QED
    BY <2>1
<1>5. 1 - 1 = 0 /\ Len(packets[1]) \in Nat
  <2>1. packets[1] \in Seq(Bytes)
    BY <1>4
  <2>. QED
    BY <2>1
<1>6. \A j \in 1 .. Len(packets[1]) : stream[end[0] + j] = packets[1][j]
  BY <1>4, <1>5, Zenon DEF Framed
<1>7. Len(packets[1]) <= Len(stream)
  <2>1. 1 \in 1 .. Len(packets[1])
    BY <1>4, <1>5
  <2>2. /\ end[1] \in Nat /\ end[Len(packets)] \in Nat
        /\ end[1] = end[1 - 1] + Len(packets[1]) /\ end[1] <= end[Len(packets)]
    BY <1>4, <2>1, PlaceLemma
  <2>3. end[1] = 0 + Len(packets[1])
    BY <1>2, <1>5, <2>2, Zenon
  <2>. QED
    BY <1>3, <1>5, <2>2, <2>3
<1>8. ASSUME NEW j \in 1 .. Len(packets[1]) PROVE stream[j] = packets[1][j]
  <2>1. 0 + j = j
    OBVIOUS
  <2>. QED
    BY <1>2, <1>6, <2>1, Zenon
<1>. QED
  BY <1>4, <1>7, <1>8

LEMMA FramedEmpty == Framed(<<>>, <<>>)
<1>1. <<>> \in Seq(Seq(Bytes)) /\ Len(<<>>) = 0
  OBVIOUS
<1>2. Lengths(<<>>) \in Seq(Nat)
  BY <1>1, LengthsLemma
<1>3. Offset(Lengths(<<>>))[0] = 0
  BY <1>2, OffsetLemma
<1>4. 1 .. 0 = {}
  OBVIOUS
<1>. QED
  BY <1>1, <1>3, <1>4, Zenon DEF Framed

\* One more packet is written behind the others.
LEMMA FramedAppend ==
    ASSUME NEW stream \in Seq(Bytes), NEW packets \in Seq(Seq(Bytes)),
           \A i \in 1 .. Len(packets) : Len(packets[i]) > 0,
           Framed(stream, packets), NEW packet \in Seq(Bytes)
    PROVE  Framed(stream \o packet, Append(packets, packet))
<1>. DEFINE N == Len(packets)
            more == Append(packets, packet)
            longer == stream \o packet
            end == Offset(Lengths(packets))
            end2 == Offset(Lengths(more))
<1>1. /\ N \in Nat /\ Len(packet) \in Nat /\ Len(stream) \in Nat
      /\ more \in Seq(Seq(Bytes)) /\ Len(more) = N + 1 /\ more[N + 1] = packet
      /\ \A i \in 1 .. N : more[i] = packets[i]
  OBVIOUS
<1>2. /\ Len(longer) = Len(stream) + Len(packet)
      /\ \A i \in 1 .. Len(stream) + Len(packet) :
            longer[i] = IF i <= Len(stream) THEN stream[i] ELSE packet[i - Len(stream)]
  BY ConcatProperties
<1>3. Lengths(more) = Append(Lengths(packets), Len(packet))
  <2>1. /\ Lengths(packets) \in Seq(Nat) /\ Len(Lengths(packets)) = N
        /\ \A i \in 1 .. N : Lengths(packets)[i] = Len(packets[i])
    BY LengthsLemma
  <2>2. /\ Lengths(more) \in Seq(Nat) /\ Len(Lengths(more)) = N + 1
        /\ \A i \in 1 .. N + 1 : Lengths(more)[i] = Len(more[i])
    BY <1>1, LengthsLemma
  <2>. DEFINE other == Append(Lengths(packets), Len(packet))
  <2>3. /\ other \in Seq(Nat) /\ Len(other) = N + 1 /\ other[N + 1] = Len(packet)
        /\ \A i \in 1 .. N : other[i] = Lengths(packets)[i]
    BY <1>1, <2>1
  <2>. HIDE DEF more, other
  <2>4. ASSUME NEW i \in 1 .. N + 1 PROVE Lengths(more)[i] = other[i]
    <3>1. i \in 1 .. N \/ i = N + 1
      BY <1>1
    <3>. QED
      BY <1>1, <2>1, <2>2, <2>3, <3>1, Zenon
  <2>5. Lengths(more) = other
    BY <2>2, <2>3, <2>4, SeqEqual
  <2>. QED
    BY <2>5 DEF other
<1>4. /\ \A n \in 0 .. N : end2[n] = end[n]
      /\ end2[N + 1] = end[N] + Len(packet)
  <2>1. Lengths(packets) \in Seq(Nat) /\ Len(Lengths(packets)) = N
    BY LengthsLemma
  <2>. QED
    BY <1>1, <1>3, <2>1, OffsetAppend
<1>5. Len(stream) = end[N]
  BY DEF Framed
<1>. HIDE DEF end, end2, longer, more
<1>6. Len(longer) = end2[Len(more)]
  BY <1>1, <1>2, <1>4, <1>5, Zenon
<1>7. ASSUME NEW i \in 1 .. Len(more), NEW j \in 1 .. Len(more[i])
      PROVE  longer[end2[i - 1] + j] = more[i][j]
  <2>1. CASE i = N + 1
    <3>1. j \in 1 .. Len(packet) /\ i - 1 = N /\ N \in 0 .. N
      BY <1>1, <2>1
    <3>2. end2[i - 1] = Len(stream)
      BY <1>4, <1>5, <3>1, Zenon
    <3>3. /\ Len(stream) + j \in 1 .. Len(stream) + Len(packet)
          /\ ~ (Len(stream) + j <= Len(stream))
          /\ (Len(stream) + j) - Len(stream) = j
      BY <1>1, <3>1
    <3>4. longer[Len(stream) + j] = packet[j]
      BY <1>2, <3>3, Zenon
    <3>. QED
      BY <1>1, <2>1, <3>2, <3>4, Zenon
  <2>2. CASE i # N + 1
    <3>1. i \in 1 .. N /\ i - 1 \in 0 .. N
      BY <1>1, <2>2
    <3>2. more[i] = packets[i] /\ end2[i - 1] = end[i - 1]
      BY <1>1, <1>4, <3>1, Zenon
    <3>3. /\ end[i] \in Nat /\ end[N] \in Nat /\ end[i - 1] \in Nat
          /\ end[i - 1] + j \in 1 .. end[i] /\ end[i] <= end[N]
      BY <3>1, <3>2, PlaceLemma DEF end
    <3>4. end[i - 1] + j <= Len(stream)
            /\ end[i - 1] + j \in 1 .. Len(stream) + Len(packet)
      <4>1. end[N] = Len(stream) /\ end[i] <= Len(stream)
        BY <1>5, <3>3, Zenon
      <4>2. PICK a \in Nat : end[i - 1] + j \in 1 .. a /\ a <= Len(stream)
        BY <3>3, <4>1, Zenon
      <4>3. PICK p \in 1 .. a : p = end[i - 1] + j
        BY <4>2, Zenon
      <4>4. p <= Len(stream) /\ p \in 1 .. Len(stream) + Len(packet)
        BY <1>1, <4>2
      <4>. QED
        BY <4>3, <4>4, Zenon
    <3>5. longer[end[i - 1] + j] = stream[end[i - 1] + j]
      BY <1>2, <3>4, Zenon
    <3>6. stream[end[i - 1] + j] = packets[i][j]
      BY <3>1, <3>2, Zenon DEF Framed, end
    <3>. QED
      BY <3>2, <3>5, <3>6, Zenon
  <2>. QED
    BY <2>1, <2>2
<1>. QED
  BY <1>6, <1>7, Zenon DEF Framed, end2, longer, more

LEMMA ShiftLemma ==
    \A a, b, d, l \in Nat, j \in Nat \ {0} :
       (a + b) + j \in 1 .. d /\ d <= l =>
         b + j \in 1 .. l - a /\ (a + b) + j = a + (b + j)
  OBVIOUS

\* A read that ends with the m-th packet leaves the packets behind it.
LEMMA FramedDrop ==
    ASSUME NEW stream \in Seq(Bytes), NEW packets \in Seq(Seq(Bytes)),
           \A i \in 1 .. Len(packets) : Len(packets[i]) > 0,
           Framed(stream, packets), NEW m \in 1 .. Len(packets),
           NEW k, k = Offset(Lengths(packets))[m]
    PROVE  Framed(SubSeq(stream, k + 1, Len(stream)), SubSeq(packets, m + 1, Len(packets)))
<1>. DEFINE N == Len(packets)
            rest == SubSeq(packets, m + 1, N)
            left == SubSeq(stream, k + 1, Len(stream))
            end == Offset(Lengths(packets))
            end2 == Offset(Lengths(rest))
<1>1. /\ N \in Nat /\ m \in Nat /\ m \in 0 .. N /\ N - m \in Nat
      /\ Len(stream) \in Nat /\ m + (N - m) = N
  OBVIOUS
<1>2. /\ Lengths(packets) \in Seq(Nat) /\ Len(Lengths(packets)) = N
      /\ \A i \in 1 .. N : Lengths(packets)[i] = Len(packets[i])
  BY LengthsLemma
<1>3. /\ rest \in Seq(Seq(Bytes)) /\ Len(rest) = N - m
      /\ \A i \in 1 .. N - m : rest[i] = packets[m + i]
  BY <1>1, RestLemma, Zenon
<1>4. Len(stream) = end[N]
  BY DEF Framed
<1>5. k \in Nat /\ k <= Len(stream)
  <2>1. 1 \in 1 .. Len(packets[m])
    <3>1. packets[m] \in Seq(Bytes) /\ Len(packets[m]) > 0
      OBVIOUS
    <3>. QED
      BY <3>1
  <2>. QED
    BY <1>4, <2>1, PlaceLemma
<1>6. /\ Len(left) = Len(stream) - k
      /\ \A i \in 1 .. Len(stream) - k : left[i] = stream[k + i]
  <2>1. k \in 0 .. Len(stream)
    BY <1>1, <1>5
  <2>. QED
    BY <2>1, RestLemma
<1>7. Lengths(rest) = SubSeq(Lengths(packets), m + 1, Len(Lengths(packets)))
  <2>. DEFINE other == SubSeq(Lengths(packets), m + 1, Len(Lengths(packets)))
  <2>1. /\ other \in Seq(Nat) /\ Len(other) = N - m
        /\ \A i \in 1 .. N - m : other[i] = Lengths(packets)[m + i]
    <3>1. m \in 0 .. Len(Lengths(packets))
      BY <1>1, <1>2, Zenon
    <3>2. /\ other \in Seq(Nat) /\ Len(other) = Len(Lengths(packets)) - m
          /\ \A i \in 1 .. Len(Lengths(packets)) - m : other[i] = Lengths(packets)[m + i]
      BY <1>2, <3>1, RestLemma
    <3>. QED
      BY <1>2, <3>2, Zenon
  <2>2. /\ Lengths(rest) \in Seq(Nat) /\ Len(Lengths(rest)) = N - m
        /\ \A i \in 1 .. N - m : Lengths(rest)[i] = Len(rest[i])
    BY <1>3, LengthsLemma
  <2>. HIDE DEF rest, other
  <2>3. ASSUME NEW i \in 1 .. N - m PROVE Lengths(rest)[i] = other[i]
    <3>1. m + i \in 1 .. N
      BY <1>1
    <3>. QED
      BY <1>2, <1>3, <2>1, <2>2, <3>1, Zenon
  <2>4. Lengths(rest) = other
    BY <2>1, <2>2, <2>3, SeqEqual
  <2>. QED
    BY <2>4 DEF other
<1>8. \A n \in 0 .. N - m : end[m + n] = end[m] + end2[n]
  <2>1. m \in 0 .. Len(Lengths(packets))
    BY <1>1, <1>2, Zenon
  <2>2. \A n \in 0 .. Len(Lengths(packets)) - m :
           end[m + n] = end[m] +
               Offset(SubSeq(Lengths(packets), m + 1, Len(Lengths(packets))))[n]
    BY <1>2, <2>1, OffsetDrop, Zenon
  <2>. QED
    BY <1>2, <1>7, <2>2, Zenon
<1>9. end2 \in [0 .. N - m -> Nat]
  <2>1. Lengths(rest) \in Seq(Nat) /\ Len(Lengths(rest)) = N - m
    BY <1>3, LengthsLemma
  <2>. QED
    BY <2>1, OffsetLemma
<1>. HIDE DEF end, end2, rest, left
<1>10. k = end[m]
  BY DEF end
<1>11. Len(left) = end2[Len(rest)]
  <2>1. N - m \in 0 .. N - m
    BY <1>1
  <2>2. Len(stream) = k + end2[N - m] /\ end2[N - m] \in Nat
    BY <1>1, <1>4, <1>8, <1>9, <1>10, <2>1, Zenon
  <2>3. PICK e \in Nat : e = end2[N - m] /\ Len(stream) = k + e
    BY <2>2, Zenon
  <2>4. PICK l \in Nat : l = Len(stream)
    BY <1>1
  <2>5. PICK b \in Nat : b = k
    BY <1>5
  <2>6. l = b + e
    BY <2>3, <2>4, <2>5, Zenon
  <2>7. l - b = e
    BY <2>6
  <2>. QED
    BY <1>3, <1>6, <2>3, <2>4, <2>5, <2>7, Zenon
<1>12. ASSUME NEW i \in 1 .. Len(rest), NEW j \in 1 .. Len(rest[i])
       PROVE  left[end2[i - 1] + j] = rest[i][j]
  <2>1. /\ i \in 1 .. N - m /\ i - 1 \in 0 .. N - m /\ m + i \in 1 .. N
        /\ (m + i) - 1 = m + (i - 1) /\ j \in Nat
    BY <1>1, <1>3
  <2>2. rest[i] = packets[m + i] /\ j \in 1 .. Len(packets[m + i])
    BY <1>3, <2>1, Zenon
  <2>3. end[(m + i) - 1] = k + end2[i - 1] /\ end2[i - 1] \in Nat
    BY <1>8, <1>9, <1>10, <2>1, Zenon
  <2>4. /\ end[m + i] \in Nat /\ end[N] \in Nat /\ end[(m + i) - 1] \in Nat
        /\ end[(m + i) - 1] + j \in 1 .. end[m + i] /\ end[m + i] <= end[N]
    BY <2>1, <2>2, PlaceLemma DEF end
  <2>5. PICK b \in Nat, d \in Nat :
            end2[i - 1] = b /\ (k + b) + j \in 1 .. d /\ d <= Len(stream)
    BY <1>4, <2>3, <2>4, Zenon
  <2>6. j \in Nat \ {0}
    BY <2>2
  <2>7. b + j \in 1 .. Len(stream) - k /\ (k + b) + j = k + (b + j)
    <3>1. PICK a \in Nat, l \in Nat : a = k /\ l = Len(stream)
      BY <1>1, <1>5, Zenon
    <3>2. (a + b) + j \in 1 .. d /\ d <= l
      BY <2>5, <3>1, Zenon
    <3>3. b + j \in 1 .. l - a /\ (a + b) + j = a + (b + j)
      BY <2>6, <3>2, ShiftLemma
    <3>. QED
      BY <3>1, <3>3, Zenon
  <2>8. left[end2[i - 1] + j] = stream[k + (b + j)]
    BY <1>6, <2>5, <2>7, Zenon
  <2>9. k + (b + j) = end[(m + i) - 1] + j
    BY <2>3, <2>5, <2>7, Zenon
  <2>10. stream[end[(m + i) - 1] + j] = packets[m + i][j]
    BY <2>1, <2>2, Zenon DEF Framed, end
  <2>. QED
    BY <2>2, <2>8, <2>9, <2>10, Zenon
<1>. QED
  BY <1>11, <1>12, Zenon DEF Framed, end2, rest, left

-------------------------------------------------------------------------------
(* pack() *)

FlattenBody(seqs, f) ==
    [i \in 1 .. Len(seqs) |-> IF i = 1 THEN seqs[i] ELSE f[i - 1] \o seqs[i]]

\* The sequences are put one behind the other, from the first on.
LEMMA FlattenLemma ==
    ASSUME NEW T, NEW seqs \in Seq(Seq(T)), seqs # <<>>
    PROVE  \E f \in [1 .. Len(seqs) -> Seq(T)] :
              /\ FlattenSeq(seqs) = f[Len(seqs)]
              /\ f[1] = seqs[1]
              /\ \A i \in 2 .. Len(seqs) : f[i] = f[i - 1] \o seqs[i]
<1>. DEFINE N == Len(seqs)
            S == Seq(T)
<1>1. N \in Nat /\ N # 0 /\ N - 1 \in Nat /\ 1 \in 1 .. N /\ N \in 1 .. N
  OBVIOUS
<1>2. \A i \in 1 .. N : seqs[i] \in S
  OBVIOUS
<1>3. \E f : f = FlattenBody(seqs, f)
  <2>. DEFINE step == [p \in (1 .. N - 1) \X S |-> p[2] \o seqs[p[1] + 1]]
  <2>1. step \in [(1 .. N - 1) \X S -> S]
    <3>1. ASSUME NEW p \in (1 .. N - 1) \X S PROVE p[2] \o seqs[p[1] + 1] \in S
      <4>1. PICK i \in 1 .. N - 1, t \in S : p = <<i, t>>
        OBVIOUS
      <4>2. i + 1 \in 1 .. N
        BY <1>1
      <4>3. seqs[i + 1] \in S
        BY <1>2, <4>2, Zenon
      <4>. QED
        BY <4>1, <4>3
    <3>. QED
      BY <3>1, Zenon
  <2>. HIDE DEF step, S
  <2>2. Recursive(S, N - 1, seqs[1], step)
    BY <1>1, <1>2, <2>1, RecursionLemma
  <2>3. PICK g \in [0 .. N - 1 -> S] :
            g[0] = seqs[1] /\ \A n \in 1 .. N - 1 : g[n] = step[<<n, g[n - 1]>>]
    BY <2>2, Zenon DEF Recursive
  <2>. DEFINE f == [i \in 1 .. N |-> g[i - 1]]
  <2>4. ASSUME NEW i \in 1 .. N
        PROVE  f[i] = IF i = 1 THEN seqs[i] ELSE f[i - 1] \o seqs[i]
    <3>1. CASE i = 1
      BY <2>3, <3>1
    <3>2. CASE i # 1
      <4>1. /\ i - 1 \in 1 .. N - 1 /\ i - 1 \in 1 .. N /\ (i - 1) - 1 \in 0 .. N - 1
            /\ (i - 1) + 1 = i
        BY <1>1, <3>2
      <4>2. <<i - 1, g[(i - 1) - 1]>> \in (1 .. N - 1) \X S
        BY <4>1
      <4>3. step[<<i - 1, g[(i - 1) - 1]>>] = g[(i - 1) - 1] \o seqs[(i - 1) + 1]
        BY <4>2 DEF step
      <4>4. f[i] = g[i - 1] /\ f[i - 1] = g[(i - 1) - 1]
        BY <4>1
      <4>. HIDE DEF f
      <4>. QED
        BY <2>3, <3>2, <4>1, <4>3, <4>4, Zenon
    <3>. QED
      BY <3>1, <3>2
  <2>5. f = FlattenBody(seqs, f)
    BY <2>4, Zenon DEF FlattenBody
  <2>. QED
    BY <2>5, Zenon
<1>. DEFINE F == CHOOSE f : f = FlattenBody(seqs, f)
<1>4. F = FlattenBody(seqs, F)
  BY <1>3, Zenon
<1>5. FlattenSeq(seqs) = F[N]
  BY <1>1, Zenon DEF FlattenSeq, FlattenBody
<1>. HIDE DEF F
<1>6. \A i \in 1 .. N : F[i] = IF i = 1 THEN seqs[i] ELSE F[i - 1] \o seqs[i]
  BY <1>4, Zenon DEF FlattenBody
<1>7. F[1] = seqs[1]
  BY <1>1, <1>6, Zenon
<1>8. ASSUME NEW i \in 2 .. N PROVE F[i] = F[i - 1] \o seqs[i]
  <2>1. i \in 1 .. N /\ i # 1
    BY <1>1
  <2>. QED
    BY <1>6, <2>1, Zenon
<1>9. \A i \in 1 .. N : F[i] \in S
  <2>. DEFINE P == {n \in Nat : n + 1 <= N => F[n + 1] \in S}
  <2>1. 0 \in P
    BY <1>1, <1>2, <1>7
  <2>2. ASSUME NEW n \in P PROVE n + 1 \in P
    <3>. SUFFICES ASSUME (n + 1) + 1 <= N PROVE F[(n + 1) + 1] \in S
      OBVIOUS
    <3>1. n \in Nat /\ F[n + 1] \in S
      BY <1>1
    <3>2. (n + 1) + 1 \in 2 .. N /\ ((n + 1) + 1) - 1 = n + 1 /\ (n + 1) + 1 \in 1 .. N
      BY <1>1, <3>1
    <3>3. F[(n + 1) + 1] = F[n + 1] \o seqs[(n + 1) + 1]
      BY <1>8, <3>2, Zenon
    <3>4. seqs[(n + 1) + 1] \in S
      BY <1>2, <3>2, Zenon
    <3>5. F[n + 1] \o seqs[(n + 1) + 1] \in S
      BY <3>1, <3>4, ConcatProperties
    <3>. QED
      BY <3>3, <3>5, Zenon
  <2>. HIDE DEF P, S
  <2>3. Nat \subseteq P
    BY <2>1, <2>2, SetInduction DEF P
  <2>4. ASSUME NEW i \in 1 .. N PROVE F[i] \in S
    <3>1. i - 1 \in Nat /\ (i - 1) + 1 = i /\ i <= N
      BY <1>1
    <3>. QED
      BY <2>3, <3>1 DEF P
  <2>. QED
    BY <2>4, Zenon
<1>10. F = [i \in 1 .. N |-> F[i]]
  BY <1>4, <1>6, Zenon DEF FlattenBody
<1>11. F \in [1 .. N -> S]
  BY <1>9, <1>10, Zenon
<1>. QED
  BY <1>5, <1>7, <1>8, <1>11, Zenon

\* Two sequences, one behind the other.
LEMMA ConcatLemma ==
    ASSUME NEW T, NEW s \in Seq(T), NEW t \in Seq(T)
    PROVE  /\ s \o t \in Seq(T) /\ Len(s \o t) = Len(s) + Len(t)
           /\ \A i \in 1 .. Len(s) : (s \o t)[i] = s[i]
           /\ \A i \in 1 .. Len(t) : (s \o t)[Len(s) + i] = t[i]
<1>1. /\ s \o t \in Seq(T) /\ Len(s \o t) = Len(s) + Len(t)
      /\ Len(s) \in Nat /\ Len(t) \in Nat
      /\ \A i \in 1 .. Len(s) + Len(t) :
            (s \o t)[i] = IF i <= Len(s) THEN s[i] ELSE t[i - Len(s)]
  BY ConcatProperties
<1>2. \A i \in 1 .. Len(s) : i \in 1 .. Len(s) + Len(t) /\ i <= Len(s)
  BY <1>1
<1>3. \A i \in 1 .. Len(t) : /\ Len(s) + i \in 1 .. Len(s) + Len(t)
                             /\ ~ (Len(s) + i <= Len(s)) /\ (Len(s) + i) - Len(s) = i
  BY <1>1
<1>. QED
  BY <1>1, <1>2, <1>3, Zenon

LEMMA JoinLemma ==
    ASSUME NEW s \in Seq(Bytes), NEW t \in Seq(Bytes)
    PROVE  /\ s \o t \in Seq(Bytes) /\ Len(s \o t) = Len(s) + Len(t)
           /\ \A i \in 1 .. Len(s) : (s \o t)[i] = s[i]
           /\ \A i \in 1 .. Len(t) : (s \o t)[Len(s) + i] = t[i]
BY ConcatLemma

\* What goes through pack() as an "s": no zero byte in it, and a length of 16 bits.
Strings == {s \in Seq(1 .. 255) : Len(s) < Width}

Requests == [command : Bytes, chan : Shorts, len : Bytes, text : Strings]
Replies == [code : Bytes, size : Bytes, data : Strings]

LEMMA StringFacts ==
    ASSUME NEW s \in Strings
    PROVE  /\ s \in Seq(1 .. 255) /\ s \in Seq(Bytes)
           /\ Len(s) \in Shorts /\ Len(s) \in Nat /\ \A i \in DOMAIN s : s[i] # 0
<1>1. s \in Seq(1 .. 255) /\ Len(s) \in Nat /\ Len(s) < Width
  BY DEF Strings
<1>2. 1 .. 255 \subseteq Bytes
  BY DEF Bytes
<1>3. s \in Seq(Bytes)
  BY <1>1, <1>2, SeqMonotonic, Zenon
<1>4. \A w, n \in Nat : n < w => n \in 0 .. w - 1
  OBVIOUS
<1>5. Width \in Nat
  BY WidthLemma
<1>6. Len(s) \in Shorts
  BY <1>1, <1>4, <1>5, Zenon DEF Shorts
<1>7. \A i \in DOMAIN s : s[i] # 0
  <2>1. \A i \in 1 .. Len(s) : s[i] \in 1 .. 255
    BY <1>1, ElementOfSeq, Zenon
  <2>2. \A b \in 1 .. 255 : b # 0
    OBVIOUS
  <2>3. DOMAIN s = 1 .. Len(s)
    BY <1>3
  <2>. QED
    BY <2>1, <2>2, <2>3, Zenon
<1>. QED
  BY <1>1, <1>3, <1>6, <1>7, Zenon

LEMMA CutLemma == \A n \in Shorts : n \in Nat /\ Cut(n) = n
<1>. SUFFICES ASSUME NEW n \in Shorts PROVE n \in Nat /\ Cut(n) = n
  OBVIOUS
<1>1. n \in Nat /\ n < Width
  BY WidthLemma DEF Shorts
<1>2. \A w \in Nat \ {0}, a \in Nat : a < w => a % w = a
  OBVIOUS
<1>. QED
  BY <1>1, <1>2, WidthLemma, Zenon DEF Cut

LEMMA ByteIsShort == Bytes \subseteq Shorts
<1>. SUFFICES ASSUME NEW n \in Bytes PROVE n \in Shorts
  OBVIOUS
<1>1. Width \in Nat /\ 256 <= Width
  BY SMT DEF Width
<1>2. n \in Nat /\ n < 256
  BY DEF Bytes
<1>. QED
  BY <1>1, <1>2 DEF Shorts

\* What each directive writes.
LEMMA PackedByte ==
    ASSUME NEW b \in Bytes
    PROVE  /\ Packed("C", b) \in Seq(Bytes) /\ Len(Packed("C", b)) = 1
           /\ Packed("C", b)[1] = b
<1>1. Packed("C", b) = <<b % 256>>
  BY DEF Packed
<1>2. b % 256 = b
  BY DEF Bytes
<1>3. Packed("C", b) = <<b>>
  BY <1>1, <1>2, Zenon
<1>. QED
  BY <1>3

LEMMA PackedShort ==
    ASSUME NEW n \in Shorts
    PROVE  /\ packi16(n) \in Seq(Bytes) /\ Len(packi16(n)) = 2
           /\ unpacku16(packi16(n)[1], packi16(n)[2]) = n
           /\ Packed("H", n) = packi16(n)
<1>1. n \in Nat /\ Cut(n) = n
  BY CutLemma
<1>2. /\ packi16(n)[1] \in Bytes /\ packi16(n)[2] \in Bytes
      /\ unpacku16(packi16(n)[1], packi16(n)[2]) = n
  BY <1>1, ShortLemma
<1>3. packi16(n) = <<packi16(n)[1], packi16(n)[2]>>
  BY DEF packi16
<1>4. \A h, l \in Bytes : <<h, l>> \in Seq(Bytes) /\ Len(<<h, l>>) = 2
  OBVIOUS
<1>5. packi16(n) \in Seq(Bytes) /\ Len(packi16(n)) = 2
  BY <1>2, <1>3, <1>4, Zenon
<1>6. Packed("H", n) = packi16(n)
  BY DEF Packed
<1>. QED
  BY <1>2, <1>5, <1>6

LEMMA PackedString ==
    ASSUME NEW s \in Strings
    PROVE  /\ Packed("s", s) \in Seq(Bytes) /\ Len(Packed("s", s)) = 2 + Len(s)
           /\ unpacku16(Packed("s", s)[1], Packed("s", s)[2]) = Len(s)
           /\ \A j \in 1 .. Len(s) : Packed("s", s)[2 + j] = s[j]
<1>. DEFINE front == packi16(Len(s))
<1>1. s \in Seq(Bytes) /\ Len(s) \in Shorts
  BY StringFacts
<1>2. front \in Seq(Bytes) /\ Len(front) = 2 /\ unpacku16(front[1], front[2]) = Len(s)
  BY <1>1, PackedShort
<1>3. Packed("s", s) = front \o s
  BY DEF Packed
<1>. HIDE DEF front
<1>4. /\ front \o s \in Seq(Bytes) /\ Len(front \o s) = Len(front) + Len(s)
      /\ \A i \in 1 .. Len(front) : (front \o s)[i] = front[i]
      /\ \A i \in 1 .. Len(s) : (front \o s)[Len(front) + i] = s[i]
  BY <1>1, <1>2, JoinLemma
<1>5. (front \o s)[1] = front[1] /\ (front \o s)[2] = front[2]
  <2>1. 1 \in 1 .. 2 /\ 2 \in 1 .. 2
    OBVIOUS
  <2>. QED
    BY <1>2, <1>4, <2>1, Zenon
<1>6. unpacku16((front \o s)[1], (front \o s)[2]) = Len(s)
  BY <1>2, <1>5, Zenon
<1>7. Len(front \o s) = 2 + Len(s) /\ \A j \in 1 .. Len(s) : (front \o s)[2 + j] = s[j]
  BY <1>2, <1>4, Zenon
<1>. QED
  BY <1>3, <1>4, <1>6, <1>7, Zenon

\* What is one behind the other, of five sequences and of three.
LEMMA FlattenFive ==
    ASSUME NEW seqs \in Seq(Seq(Bytes)), Len(seqs) = 5
    PROVE  FlattenSeq(seqs)
             = (((seqs[1] \o seqs[2]) \o seqs[3]) \o seqs[4]) \o seqs[5]
<1>1. PICK f : /\ FlattenSeq(seqs) = f[5] /\ f[1] = seqs[1]
               /\ \A i \in 2 .. 5 : f[i] = f[i - 1] \o seqs[i]
  <2>1. seqs # <<>>
    <3>1. Len(<<>>) = 0 /\ 0 # 5
      OBVIOUS
    <3>. QED
      BY <3>1, Zenon
  <2>2. \E f \in [1 .. Len(seqs) -> Seq(Bytes)] :
           /\ FlattenSeq(seqs) = f[Len(seqs)] /\ f[1] = seqs[1]
           /\ \A i \in 2 .. Len(seqs) : f[i] = f[i - 1] \o seqs[i]
    BY <2>1, FlattenLemma, Zenon
  <2>. QED
    BY <2>2, Zenon
<1>2. f[2] = f[1] \o seqs[2] /\ f[3] = f[2] \o seqs[3]
        /\ f[4] = f[3] \o seqs[4] /\ f[5] = f[4] \o seqs[5]
  <2>1. /\ 2 \in 2 .. 5 /\ 3 \in 2 .. 5 /\ 4 \in 2 .. 5 /\ 5 \in 2 .. 5
        /\ 2 - 1 = 1 /\ 3 - 1 = 2 /\ 4 - 1 = 3 /\ 5 - 1 = 4
    OBVIOUS
  <2>. QED
    BY <1>1, <2>1, Zenon
<1>. QED
  BY <1>1, <1>2, Zenon

LEMMA FlattenThree ==
    ASSUME NEW seqs \in Seq(Seq(Bytes)), Len(seqs) = 3
    PROVE  FlattenSeq(seqs) = (seqs[1] \o seqs[2]) \o seqs[3]
<1>1. PICK f : /\ FlattenSeq(seqs) = f[3] /\ f[1] = seqs[1]
               /\ \A i \in 2 .. 3 : f[i] = f[i - 1] \o seqs[i]
  <2>1. seqs # <<>>
    <3>1. Len(<<>>) = 0 /\ 0 # 3
      OBVIOUS
    <3>. QED
      BY <3>1, Zenon
  <2>2. \E f \in [1 .. Len(seqs) -> Seq(Bytes)] :
           /\ FlattenSeq(seqs) = f[Len(seqs)] /\ f[1] = seqs[1]
           /\ \A i \in 2 .. Len(seqs) : f[i] = f[i - 1] \o seqs[i]
    BY <2>1, FlattenLemma, Zenon
  <2>. QED
    BY <2>2, Zenon
<1>2. f[2] = f[1] \o seqs[2] /\ f[3] = f[2] \o seqs[3]
  <2>1. 2 \in 2 .. 3 /\ 3 \in 2 .. 3 /\ 2 - 1 = 1 /\ 3 - 1 = 2
    OBVIOUS
  <2>. QED
    BY <1>1, <2>1, Zenon
<1>. QED
  BY <1>1, <1>2, Zenon

\* The bytes of a request: each field has its place.
LEMMA PackRequestLemma ==
    ASSUME NEW r \in Requests, NEW p, p = PackRequest(r)
    PROVE  /\ p \in Seq(Bytes) /\ Len(p) = 7 + Len(r.text)
           /\ p[2] = r.command /\ unpacku16(p[3], p[4]) = r.chan /\ p[5] = r.len
           /\ unpacku16(p[6], p[7]) = Len(r.text)
           /\ \A j \in 1 .. Len(r.text) : p[7 + j] = r.text[j]
<1>. DEFINE s1 == Packed("C", 1)
            s2 == Packed("C", r.command)
            s3 == Packed("H", r.chan)
            s4 == Packed("C", r.len)
            s5 == Packed("s", r.text)
            seqs == [i \in 1 .. 5 |-> Packed(RequestFormat[i],
                                        <<1, r.command, r.chan, r.len, r.text>>[i])]
            q2 == s1 \o s2
            q3 == q2 \o s3
            q4 == q3 \o s4
            q5 == q4 \o s5
<1>1. /\ r.command \in Bytes /\ r.chan \in Shorts /\ r.len \in Bytes
      /\ r.text \in Strings /\ 1 \in Bytes
  BY DEF Requests, Bytes
<1>2. /\ s1 \in Seq(Bytes) /\ Len(s1) = 1
      /\ s2 \in Seq(Bytes) /\ Len(s2) = 1 /\ s2[1] = r.command
      /\ s4 \in Seq(Bytes) /\ Len(s4) = 1 /\ s4[1] = r.len
  BY <1>1, PackedByte
<1>3. s3 \in Seq(Bytes) /\ Len(s3) = 2 /\ unpacku16(s3[1], s3[2]) = r.chan
  BY <1>1, PackedShort
<1>4. /\ s5 \in Seq(Bytes) /\ Len(s5) = 2 + Len(r.text)
      /\ unpacku16(s5[1], s5[2]) = Len(r.text)
      /\ \A j \in 1 .. Len(r.text) : s5[2 + j] = r.text[j]
  BY <1>1, PackedString
<1>5. PackRequest(r) = FlattenSeq(seqs)
  <2>1. DOMAIN RequestFormat = 1 .. 5
    BY DEF RequestFormat
  <2>. QED
    BY <2>1, Zenon DEF PackRequest, pack
<1>6. seqs[1] = s1 /\ seqs[2] = s2 /\ seqs[3] = s3 /\ seqs[4] = s4 /\ seqs[5] = s5
  BY DEF RequestFormat
<1>. HIDE DEF s1, s2, s3, s4, s5
<1>7. seqs \in Seq(Seq(Bytes)) /\ Len(seqs) = 5
  <2>1. seqs = [i \in 1 .. 5 |-> seqs[i]]
    OBVIOUS
  <2>. HIDE DEF seqs
  <2>2. \A i \in 1 .. 5 : i = 1 \/ i = 2 \/ i = 3 \/ i = 4 \/ i = 5
    OBVIOUS
  <2>3. \A i \in 1 .. 5 : seqs[i] \in Seq(Bytes)
    BY <1>2, <1>3, <1>4, <1>6, <2>2, Zenon
  <2>4. seqs \in [1 .. 5 -> Seq(Bytes)] /\ 5 \in Nat
    BY <2>1, <2>3, Zenon
  <2>. QED
    BY <2>4, FunctionIsSeq, ZenonT(60)
<1>. HIDE DEF seqs
<1>8. PackRequest(r) = q5
  BY <1>5, <1>6, <1>7, FlattenFive, Zenon
<1>9. Len(r.text) \in Nat /\ 2 + Len(r.text) \in Nat
  BY <1>1, StringFacts
<1>10. /\ q2 \in Seq(Bytes) /\ Len(q2) = 2 /\ q2[2] = r.command
  <2>1. /\ q2 \in Seq(Bytes) /\ Len(q2) = 1 + 1
        /\ \A i \in 1 .. 1 : q2[1 + i] = s2[i]
    BY <1>2, JoinLemma
  <2>2. 1 \in 1 .. 1 /\ 1 + 1 = 2
    OBVIOUS
  <2>. QED
    BY <1>2, <2>1, <2>2, Zenon
<1>. HIDE DEF q2
<1>11. /\ q3 \in Seq(Bytes) /\ Len(q3) = 4
       /\ q3[2] = r.command /\ q3[3] = s3[1] /\ q3[4] = s3[2]
  <2>1. /\ q3 \in Seq(Bytes) /\ Len(q3) = 2 + 2
        /\ \A i \in 1 .. 2 : q3[i] = q2[i]
        /\ \A i \in 1 .. 2 : q3[2 + i] = s3[i]
    <3>1. /\ q3 \in Seq(Bytes) /\ Len(q3) = Len(q2) + Len(s3)
          /\ \A i \in 1 .. Len(q2) : q3[i] = q2[i]
          /\ \A i \in 1 .. Len(s3) : q3[Len(q2) + i] = s3[i]
      BY <1>3, <1>10, JoinLemma
    <3>. QED
      BY <1>3, <1>10, <3>1, Zenon
  <2>2. 1 \in 1 .. 2 /\ 2 \in 1 .. 2 /\ 2 + 1 = 3 /\ 2 + 2 = 4
    OBVIOUS
  <2>. QED
    BY <1>10, <2>1, <2>2, Zenon
<1>. HIDE DEF q3
<1>12. /\ q4 \in Seq(Bytes) /\ Len(q4) = 5
       /\ q4[2] = r.command /\ q4[3] = s3[1] /\ q4[4] = s3[2] /\ q4[5] = r.len
  <2>1. /\ q4 \in Seq(Bytes) /\ Len(q4) = 4 + 1
        /\ \A i \in 1 .. 4 : q4[i] = q3[i]
        /\ \A i \in 1 .. 1 : q4[4 + i] = s4[i]
    <3>1. /\ q4 \in Seq(Bytes) /\ Len(q4) = Len(q3) + Len(s4)
          /\ \A i \in 1 .. Len(q3) : q4[i] = q3[i]
          /\ \A i \in 1 .. Len(s4) : q4[Len(q3) + i] = s4[i]
      BY <1>2, <1>11, JoinLemma
    <3>. QED
      BY <1>2, <1>11, <3>1, Zenon
  <2>2. 2 \in 1 .. 4 /\ 3 \in 1 .. 4 /\ 4 \in 1 .. 4 /\ 1 \in 1 .. 1 /\ 4 + 1 = 5
    OBVIOUS
  <2>. QED
    BY <1>2, <1>11, <2>1, <2>2, Zenon
<1>. HIDE DEF q4
<1>13. /\ q5 \in Seq(Bytes) /\ Len(q5) = 5 + (2 + Len(r.text))
       /\ \A i \in 1 .. 5 : q5[i] = q4[i]
       /\ \A i \in 1 .. 2 + Len(r.text) : q5[5 + i] = s5[i]
  <2>1. /\ q5 \in Seq(Bytes) /\ Len(q5) = Len(q4) + Len(s5)
        /\ \A i \in 1 .. Len(q4) : q5[i] = q4[i]
        /\ \A i \in 1 .. Len(s5) : q5[Len(q4) + i] = s5[i]
    BY <1>4, <1>12, JoinLemma
  <2>. QED
    BY <1>4, <1>12, <2>1, Zenon
<1>. HIDE DEF q5
<1>14. /\ q5[2] = r.command /\ q5[3] = s3[1] /\ q5[4] = s3[2] /\ q5[5] = r.len
  <2>1. 2 \in 1 .. 5 /\ 3 \in 1 .. 5 /\ 4 \in 1 .. 5 /\ 5 \in 1 .. 5
    OBVIOUS
  <2>. QED
    BY <1>12, <1>13, <2>1, Zenon
<1>15. q5[6] = s5[1] /\ q5[7] = s5[2]
  <2>1. /\ 1 \in 1 .. 2 + Len(r.text) /\ 2 \in 1 .. 2 + Len(r.text)
        /\ 5 + 1 = 6 /\ 5 + 2 = 7
    BY <1>9
  <2>. QED
    BY <1>13, <2>1, Zenon
<1>16. ASSUME NEW j \in 1 .. Len(r.text) PROVE q5[7 + j] = r.text[j]
  <2>1. 2 + j \in 1 .. 2 + Len(r.text) /\ 5 + (2 + j) = 7 + j
    BY <1>9
  <2>2. q5[5 + (2 + j)] = r.text[j]
    BY <1>4, <1>13, <2>1, Zenon
  <2>. QED
    BY <2>1, <2>2, Zenon
<1>17. Len(q5) = 7 + Len(r.text)
  <2>1. 5 + (2 + Len(r.text)) = 7 + Len(r.text)
    BY <1>9
  <2>. QED
    BY <1>13, <2>1, Zenon
<1>18. unpacku16(q5[3], q5[4]) = r.chan /\ unpacku16(q5[6], q5[7]) = Len(r.text)
  BY <1>3, <1>4, <1>14, <1>15, Zenon
<1>19. p = q5
  BY <1>8, Zenon
<1>. QED
  BY <1>13, <1>14, <1>16, <1>17, <1>18, <1>19, Zenon

\* The bytes of a reply.
LEMMA PackReplyLemma ==
    ASSUME NEW r \in Replies, NEW p, p = PackReply(r)
    PROVE  /\ p \in Seq(Bytes) /\ Len(p) = 5 + Len(r.data)
           /\ p[1] = r.code /\ unpacku16(p[2], p[3]) = r.size
           /\ unpacku16(p[4], p[5]) = Len(r.data)
           /\ \A j \in 1 .. Len(r.data) : p[5 + j] = r.data[j]
<1>. DEFINE s1 == Packed("C", r.code)
            s2 == Packed("H", r.size)
            s3 == Packed("s", r.data)
            seqs == [i \in 1 .. 3 |-> Packed(ReplyFormat[i], <<r.code, r.size, r.data>>[i])]
            q2 == s1 \o s2
            q3 == q2 \o s3
<1>1. r.code \in Bytes /\ r.size \in Shorts /\ r.data \in Strings
  BY ByteIsShort DEF Replies
<1>2. s1 \in Seq(Bytes) /\ Len(s1) = 1 /\ s1[1] = r.code
  BY <1>1, PackedByte
<1>3. s2 \in Seq(Bytes) /\ Len(s2) = 2 /\ unpacku16(s2[1], s2[2]) = r.size
  BY <1>1, PackedShort
<1>4. /\ s3 \in Seq(Bytes) /\ Len(s3) = 2 + Len(r.data)
      /\ unpacku16(s3[1], s3[2]) = Len(r.data)
      /\ \A j \in 1 .. Len(r.data) : s3[2 + j] = r.data[j]
  BY <1>1, PackedString
<1>5. PackReply(r) = FlattenSeq(seqs)
  <2>1. DOMAIN ReplyFormat = 1 .. 3
    BY DEF ReplyFormat
  <2>. QED
    BY <2>1, Zenon DEF PackReply, pack
<1>6. seqs[1] = s1 /\ seqs[2] = s2 /\ seqs[3] = s3
  BY DEF ReplyFormat
<1>. HIDE DEF s1, s2, s3
<1>7. seqs \in Seq(Seq(Bytes)) /\ Len(seqs) = 3
  <2>1. seqs = [i \in 1 .. 3 |-> seqs[i]]
    OBVIOUS
  <2>. HIDE DEF seqs
  <2>2. \A i \in 1 .. 3 : i = 1 \/ i = 2 \/ i = 3
    OBVIOUS
  <2>3. \A i \in 1 .. 3 : seqs[i] \in Seq(Bytes)
    BY <1>2, <1>3, <1>4, <1>6, <2>2, Zenon
  <2>4. seqs \in [1 .. 3 -> Seq(Bytes)] /\ 3 \in Nat
    BY <2>1, <2>3, Zenon
  <2>. QED
    BY <2>4, FunctionIsSeq, ZenonT(60)
<1>. HIDE DEF seqs
<1>8. PackReply(r) = q3
  BY <1>5, <1>6, <1>7, FlattenThree, Zenon
<1>9. Len(r.data) \in Nat /\ 2 + Len(r.data) \in Nat
  BY <1>1, StringFacts
<1>10. /\ q2 \in Seq(Bytes) /\ Len(q2) = 3
       /\ q2[1] = r.code /\ q2[2] = s2[1] /\ q2[3] = s2[2]
  <2>1. /\ q2 \in Seq(Bytes) /\ Len(q2) = 1 + 2
        /\ \A i \in 1 .. 1 : q2[i] = s1[i]
        /\ \A i \in 1 .. 2 : q2[1 + i] = s2[i]
    <3>1. /\ q2 \in Seq(Bytes) /\ Len(q2) = Len(s1) + Len(s2)
          /\ \A i \in 1 .. Len(s1) : q2[i] = s1[i]
          /\ \A i \in 1 .. Len(s2) : q2[Len(s1) + i] = s2[i]
      BY <1>2, <1>3, JoinLemma
    <3>. QED
      BY <1>2, <1>3, <3>1, Zenon
  <2>2. 1 \in 1 .. 1 /\ 1 \in 1 .. 2 /\ 2 \in 1 .. 2 /\ 1 + 1 = 2 /\ 1 + 2 = 3
    OBVIOUS
  <2>. QED
    BY <1>2, <2>1, <2>2, Zenon
<1>. HIDE DEF q2
<1>11. /\ q3 \in Seq(Bytes) /\ Len(q3) = 3 + (2 + Len(r.data))
       /\ \A i \in 1 .. 3 : q3[i] = q2[i]
       /\ \A i \in 1 .. 2 + Len(r.data) : q3[3 + i] = s3[i]
  <2>1. /\ q3 \in Seq(Bytes) /\ Len(q3) = Len(q2) + Len(s3)
        /\ \A i \in 1 .. Len(q2) : q3[i] = q2[i]
        /\ \A i \in 1 .. Len(s3) : q3[Len(q2) + i] = s3[i]
    BY <1>4, <1>10, JoinLemma
  <2>. QED
    BY <1>4, <1>10, <2>1, Zenon
<1>. HIDE DEF q3
<1>12. q3[1] = r.code /\ q3[2] = s2[1] /\ q3[3] = s2[2]
  <2>1. 1 \in 1 .. 3 /\ 2 \in 1 .. 3 /\ 3 \in 1 .. 3
    OBVIOUS
  <2>. QED
    BY <1>10, <1>11, <2>1, Zenon
<1>13. q3[4] = s3[1] /\ q3[5] = s3[2]
  <2>1. /\ 1 \in 1 .. 2 + Len(r.data) /\ 2 \in 1 .. 2 + Len(r.data)
        /\ 3 + 1 = 4 /\ 3 + 2 = 5
    BY <1>9
  <2>. QED
    BY <1>11, <2>1, Zenon
<1>14. ASSUME NEW j \in 1 .. Len(r.data) PROVE q3[5 + j] = r.data[j]
  <2>1. 2 + j \in 1 .. 2 + Len(r.data) /\ 3 + (2 + j) = 5 + j
    BY <1>9
  <2>2. q3[3 + (2 + j)] = r.data[j]
    BY <1>4, <1>11, <2>1, Zenon
  <2>. QED
    BY <2>1, <2>2, Zenon
<1>15. Len(q3) = 5 + Len(r.data)
  <2>1. 3 + (2 + Len(r.data)) = 5 + Len(r.data)
    BY <1>9
  <2>. QED
    BY <1>11, <2>1, Zenon
<1>16. unpacku16(q3[2], q3[3]) = r.size /\ unpacku16(q3[4], q3[5]) = Len(r.data)
  BY <1>3, <1>4, <1>12, <1>13, Zenon
<1>17. p = q3
  BY <1>8, Zenon
<1>. QED
  BY <1>11, <1>12, <1>14, <1>15, <1>16, <1>17, Zenon

-------------------------------------------------------------------------------
(* unpack() *)

\* The memory unpack() writes to, and how far it has come.
States(M) == [at : Nat, mem : [M -> Bytes], str : Seq(Bytes)]

LEMMA ByteAtLemma == \A buf \in Seq(Bytes), i \in Nat : ByteAt(buf, i) \in Bytes
<1>. SUFFICES ASSUME NEW buf \in Seq(Bytes), NEW i \in Nat
              PROVE  ByteAt(buf, i) \in Bytes
  OBVIOUS
<1>1. 0 \in Bytes
  BY DEF Bytes
<1>2. i \in DOMAIN buf => buf[i] \in Bytes
  OBVIOUS
<1>. QED
  BY <1>1, <1>2, Zenon DEF ByteAt

\* Two bytes are a number of 16 bits.
LEMMA ValueLemma == \A h, l \in Bytes : unpacku16(h, l) \in Shorts
<1>. SUFFICES ASSUME NEW h \in Bytes, NEW l \in Bytes PROVE unpacku16(h, l) \in Shorts
  OBVIOUS
<1>1. h \in 0 .. 255 /\ l \in 0 .. 255
  BY DEF Bytes
<1>2. PICK v \in Int : v = 256 * h + l
  BY <1>1
<1>3. v \in Nat /\ v < 65536
  BY <1>1, <1>2
<1>4. v \in Nat /\ v < Width
  BY <1>3 DEF Width
<1>5. v \in Shorts
  BY <1>4, WidthLemma DEF Shorts
<1>. QED
  BY <1>2, <1>5 DEF unpacku16

\* What a store of 16 bits through a pointer to unsigned int does, in bounds of M or not.
LEMMA StoreType ==
    ASSUME NEW M, NEW mem \in [M -> Bytes], NEW to \in Nat, NEW v \in Shorts
    PROVE  StoreInt(mem, to, v) \in [M -> Bytes]
<1>1. v % 256 \in Bytes /\ v \div 256 \in Bytes /\ 0 \in Bytes
  BY ByteSplit DEF Bytes
<1>2. DOMAIN mem = M /\ \A o \in M : mem[o] \in Bytes
  OBVIOUS
<1>. QED
  BY <1>1, <1>2, Zenon DEF StoreInt

\* The step s -> next takes a byte, or a number of 16 bits, and stores it at to.
TakesByte(M, buf, s, to, next) ==
    /\ next \in States(M) /\ next.at = s.at + 1 /\ next.str = s.str
    /\ next.mem = [s.mem EXCEPT ![to] = ByteAt(buf, s.at)]

TakesShort(M, buf, s, to, next) ==
    LET v == unpacku16(ByteAt(buf, s.at), ByteAt(buf, s.at + 1))
    IN  /\ next \in States(M) /\ next.at = s.at + 2 /\ next.str = s.str
        /\ v \in Shorts /\ next.mem = StoreInt(s.mem, to, v)

\* One directive: "C" takes a byte, "H" two, "s" two and as many as these say.
LEMMA UnpackedByte ==
    ASSUME NEW M, NEW buf \in Seq(Bytes), NEW s \in States(M), NEW to \in M
    PROVE  TakesByte(M, buf, s, to, Unpacked(buf, s, "C", to))
<1>. DEFINE next == Unpacked(buf, s, "C", to)
<1>1. s.at \in Nat /\ s.mem \in [M -> Bytes] /\ s.str \in Seq(Bytes)
  BY DEF States
<1>. DEFINE mem == [s.mem EXCEPT ![to] = ByteAt(buf, s.at)]
<1>2. next = [at |-> s.at + 1, str |-> s.str, mem |-> mem]
  BY DEF Unpacked
<1>3. ByteAt(buf, s.at) \in Bytes
  BY <1>1, ByteAtLemma
<1>4. mem \in [M -> Bytes] /\ s.at + 1 \in Nat
  BY <1>1, <1>3
<1>. HIDE DEF mem, next
<1>5. /\ next \in States(M) /\ next.at = s.at + 1 /\ next.str = s.str
      /\ next.mem = mem
  BY <1>1, <1>2, <1>4 DEF States
<1>. QED
  BY <1>5, Zenon DEF mem, next, TakesByte

LEMMA UnpackedShort ==
    ASSUME NEW M, NEW buf \in Seq(Bytes), NEW s \in States(M), NEW to \in Nat
    PROVE  TakesShort(M, buf, s, to, Unpacked(buf, s, "H", to))
<1>. DEFINE next == Unpacked(buf, s, "H", to)
            v == unpacku16(ByteAt(buf, s.at), ByteAt(buf, s.at + 1))
<1>1. s.at \in Nat /\ s.at + 1 \in Nat /\ s.mem \in [M -> Bytes] /\ s.str \in Seq(Bytes)
  BY DEF States
<1>2. next = [at |-> s.at + 2, str |-> s.str, mem |-> StoreInt(s.mem, to, v)]
  BY DEF Unpacked
<1>3. v \in Shorts
  BY <1>1, ByteAtLemma, ValueLemma
<1>4. StoreInt(s.mem, to, v) \in [M -> Bytes]
  BY <1>1, <1>3, StoreType
<1>5. s.at + 2 \in Nat
  BY <1>1
<1>. HIDE DEF next, v
<1>6. /\ next \in States(M) /\ next.at = s.at + 2 /\ next.str = s.str
      /\ next.mem = StoreInt(s.mem, to, v)
  BY <1>1, <1>2, <1>4, <1>5 DEF States
<1>. QED
  BY <1>3, <1>6, Zenon DEF next, v, TakesShort

LEMMA UnpackedString ==
    ASSUME NEW M, NEW buf \in Seq(Bytes), NEW s \in States(M), NEW to
    PROVE  LET next == Unpacked(buf, s, "s", to)
               v == unpacku16(ByteAt(buf, s.at), ByteAt(buf, s.at + 1))
           IN  /\ next \in States(M) /\ next.mem = s.mem /\ v \in Shorts
               /\ next.str = [j \in 1 .. v |-> ByteAt(buf, s.at + 1 + j)]
<1>. DEFINE next == Unpacked(buf, s, "s", to)
            v == unpacku16(ByteAt(buf, s.at), ByteAt(buf, s.at + 1))
<1>1. s.at \in Nat /\ s.at + 1 \in Nat /\ s.mem \in [M -> Bytes] /\ s.str \in Seq(Bytes)
  BY DEF States
<1>. DEFINE str == [j \in 1 .. v |-> ByteAt(buf, s.at + 1 + j)]
<1>2. next = [at |-> s.at + 2 + v, mem |-> s.mem, str |-> str]
  BY DEF Unpacked
<1>3. v \in Shorts /\ v \in Nat
  BY <1>1, ByteAtLemma, ValueLemma, CutLemma
<1>4. str \in Seq(Bytes)
  <2>1. \A j \in 1 .. v : s.at + 1 + j \in Nat
    <3>1. \A a, n \in Nat : \A j \in 1 .. n : a + 1 + j \in Nat
      OBVIOUS
    <3>. QED
      BY <1>1, <1>3, <3>1, Zenon
  <2>2. \A j \in 1 .. v : ByteAt(buf, s.at + 1 + j) \in Bytes
    BY <2>1, ByteAtLemma, Zenon
  <2>3. str \in [1 .. v -> Bytes]
    BY <2>2, Zenon
  <2>. QED
    BY <1>3, <2>3, FunctionIsSeq
<1>. HIDE DEF str
<1>5. s.at + 2 + v \in Nat
  <2>1. \A a, n \in Nat : a + 2 + n \in Nat
    OBVIOUS
  <2>. QED
    BY <1>1, <1>3, <2>1, Zenon
<1>. HIDE DEF next, v
<1>6. next \in States(M) /\ next.mem = s.mem /\ next.str = str
  BY <1>1, <1>2, <1>4, <1>5 DEF States
<1>. QED
  BY <1>3, <1>6, Zenon DEF str, next, v

\* The directives in turn, each where the one before it ended.
UnpackBody(buf, format, targets, mem, after) ==
    [n \in 0 .. Len(format) |->
        IF n = 0 THEN [at |-> 1, mem |-> mem, str |-> <<>>]
        ELSE Unpacked(buf, after[n - 1], format[n], targets[n])]

InSteps(M, buf, format, targets, mem, N) ==
    \E after : /\ unpack(buf, format, targets, mem) = after[N]
               /\ after[0] = [at |-> 1, mem |-> mem, str |-> <<>>]
               /\ after[0] \in States(M)
               /\ \A n \in 1 .. N : after[n] =
                     Unpacked(buf, after[n - 1], format[n], targets[n])

LEMMA UnpackLemma ==
    ASSUME NEW M, M \subseteq Nat, NEW buf \in Seq(Bytes), NEW mem \in [M -> Bytes],
           NEW N \in Nat, NEW format, NEW targets, Len(format) = N,
           \A n \in 1 .. N : format[n] \in {"C", "H", "s"} /\ targets[n] \in M
    PROVE  InSteps(M, buf, format, targets, mem, N)
<1>. DEFINE base == [at |-> 1, mem |-> mem, str |-> <<>>]
            S == States(M)
            step == [p \in (1 .. N) \X S |->
                        Unpacked(buf, p[2], format[p[1]], targets[p[1]])]
<1>1. base \in S
  <2>1. <<>> \in Seq(Bytes) /\ 1 \in Nat
    OBVIOUS
  <2>. QED
    BY <2>1 DEF States
<1>2. ASSUME NEW n \in 1 .. N, NEW s \in S
      PROVE  Unpacked(buf, s, format[n], targets[n]) \in S
  <2>1. targets[n] \in M /\ targets[n] \in Nat
    OBVIOUS
  <2>. HIDE DEF S
  <2>2. CASE format[n] = "C"
    BY <2>1, <2>2, UnpackedByte, Zenon DEF S, TakesByte
  <2>3. CASE format[n] = "H"
    BY <2>1, <2>3, UnpackedShort, Zenon DEF S, TakesShort
  <2>4. CASE format[n] = "s"
    BY <2>1, <2>4, UnpackedString, Zenon DEF S
  <2>. QED
    BY <2>2, <2>3, <2>4
<1>. HIDE DEF base, S
<1>3. step \in [(1 .. N) \X S -> S]
  <2>1. ASSUME NEW p \in (1 .. N) \X S
        PROVE  Unpacked(buf, p[2], format[p[1]], targets[p[1]]) \in S
    <3>1. p[1] \in 1 .. N /\ p[2] \in S
      OBVIOUS
    <3>. QED
      BY <1>2, <3>1, Zenon
  <2>. QED
    BY <2>1, Zenon
<1>4. \A n \in 1 .. N, s \in S :
         step[<<n, s>>] = Unpacked(buf, s, format[n], targets[n])
  OBVIOUS
<1>. HIDE DEF step
<1>5. Recursive(S, N, base, step)
  BY <1>1, <1>3, RecursionLemma
<1>6. PICK f \in [0 .. N -> S] :
         f[0] = base /\ \A n \in 1 .. N : f[n] = step[<<n, f[n - 1]>>]
  BY <1>5, Zenon DEF Recursive
<1>7. ASSUME NEW n \in 0 .. N
      PROVE  f[n] = IF n = 0 THEN base ELSE Unpacked(buf, f[n - 1], format[n], targets[n])
  <2>1. n # 0 => n \in 1 .. N /\ n - 1 \in 0 .. N
    OBVIOUS
  <2>2. n # 0 => f[n - 1] \in S
    BY <1>6, <2>1, Zenon
  <2>. QED
    BY <1>4, <1>6, <2>1, <2>2, Zenon
<1>8. f = UnpackBody(buf, format, targets, mem, f)
  BY <1>6, <1>7, Zenon DEF UnpackBody, base
<1>. DEFINE after == CHOOSE g : g = UnpackBody(buf, format, targets, mem, g)
<1>9. after = UnpackBody(buf, format, targets, mem, after)
  BY <1>8, Zenon
<1>10. unpack(buf, format, targets, mem) = after[N]
  BY Zenon DEF unpack, UnpackBody
<1>. HIDE DEF after
<1>11. \A n \in 0 .. N :
          after[n] = IF n = 0 THEN base
                     ELSE Unpacked(buf, after[n - 1], format[n], targets[n])
  BY <1>9, Zenon DEF UnpackBody, base
<1>12. 0 \in 0 .. N /\ \A n \in 1 .. N : n \in 0 .. N /\ n # 0
  OBVIOUS
<1>13. /\ after[0] = base
       /\ \A n \in 1 .. N : after[n] = Unpacked(buf, after[n - 1], format[n], targets[n])
  BY <1>11, <1>12, Zenon
<1>. QED
  BY <1>1, <1>10, <1>13, Zenon DEF base, S, InSteps

Stored(M, mem, to, v, after) ==
    LoadShort(after, to) = v /\ \A o \in M : o < to => after[o] = mem[o]

\* A 16-bit number is read back from where it was stored, and what is not one
\* of the four bytes stored stays.
LEMMA StoreLemma ==
    ASSUME NEW M, NEW mem \in [M -> Bytes], M \subseteq Nat, NEW to \in M, to + 1 \in M,
           NEW v \in Shorts
    PROVE  Stored(M, mem, to, v, StoreInt(mem, to, v))
<1>. DEFINE after == StoreInt(mem, to, v)
<1>1. /\ v \in Nat /\ v % 256 \in Bytes /\ v \div 256 \in Bytes
      /\ v = (v % 256) + 256 * (v \div 256)
  BY ByteSplit
<1>. DEFINE low == v % 256
            high == v \div 256
<1>2. /\ after[to] = low
      /\ to + 1 # to => after[to + 1] = high
      /\ \A o \in M : o # to /\ o # to + 1 /\ o # to + 2 /\ o # to + 3 => after[o] = mem[o]
  BY DEF StoreInt
<1>. HIDE DEF after
<1>3. to \in Nat /\ to + 1 # to
  OBVIOUS
<1>4. \A o \in M : o < to => o # to /\ o # to + 1 /\ o # to + 2 /\ o # to + 3
  BY <1>3
<1>5. LoadShort(after, to) = v
  BY <1>1, <1>2, <1>3, Zenon DEF LoadShort
<1>. QED
  BY <1>2, <1>4, <1>5, ZenonT(60) DEF after, Stored

\* What the server makes of a buffer: the fields are at fixed places.  The store
\* of channel_id reaches over msg_len, which is stored after it.
LEMMA UnpackRequestLemma ==
    ASSUME NEW buf \in Seq(Bytes), NEW r, r = UnpackRequest(buf),
           NEW v, v = unpacku16(ByteAt(buf, 6), ByteAt(buf, 7))
    PROVE  /\ r.mem[1] = ByteAt(buf, 2)
           /\ LoadShort(r.mem, 2) = unpacku16(ByteAt(buf, 3), ByteAt(buf, 4))
           /\ r.mem[4] = ByteAt(buf, 5)
           /\ r.mem \in [0 .. 5 -> Bytes] /\ v \in Shorts
           /\ r.str = [j \in 1 .. v |-> ByteAt(buf, 7 + j)]
<1>. DEFINE M == 0 .. 5
            mem == [o \in 0 .. 5 |-> 0]
            targets == <<0, 1, 2, 4, 0>>
            format == RequestFormat
<1>1. /\ M \subseteq Nat /\ mem \in [M -> Bytes]
      /\ 0 \in M /\ 1 \in M /\ 2 \in M /\ 2 + 1 \in M /\ 3 \in M /\ 4 \in M
  BY DEF Bytes
<1>2. /\ format[1] = "C" /\ format[2] = "C" /\ format[3] = "H" /\ format[4] = "C"
      /\ format[5] = "s" /\ Len(format) = 5
  BY DEF RequestFormat
<1>3. /\ targets[1] = 0 /\ targets[2] = 1 /\ targets[3] = 2 /\ targets[4] = 4
      /\ targets[5] = 0
  OBVIOUS
<1>4. \A n \in 1 .. 5 : format[n] \in {"C", "H", "s"} /\ targets[n] \in M
  <2>1. \A n \in 1 .. 5 : n = 1 \/ n = 2 \/ n = 3 \/ n = 4 \/ n = 5
    OBVIOUS
  <2>. HIDE DEF M, format, targets
  <2>. QED
    BY <1>1, <1>2, <1>3, <2>1, Zenon
<1>. HIDE DEF M, mem, format, targets
<1>5. PICK after : /\ unpack(buf, format, targets, mem) = after[5]
                   /\ after[0] = [at |-> 1, mem |-> mem, str |-> <<>>]
                   /\ after[0] \in States(M)
                   /\ \A n \in 1 .. 5 : after[n] =
                         Unpacked(buf, after[n - 1], format[n], targets[n])
  <2>1. 5 \in Nat
    OBVIOUS
  <2>2. InSteps(M, buf, format, targets, mem, 5)
    BY <1>1, <1>2, <1>4, <2>1, UnpackLemma
  <2>. QED
    BY <2>2, Zenon DEF InSteps
<1>6. /\ after[1] = Unpacked(buf, after[0], "C", 0)
      /\ after[2] = Unpacked(buf, after[1], "C", 1)
      /\ after[3] = Unpacked(buf, after[2], "H", 2)
      /\ after[4] = Unpacked(buf, after[3], "C", 4)
      /\ after[5] = Unpacked(buf, after[4], "s", 0)
  <2>1. /\ 1 \in 1 .. 5 /\ 2 \in 1 .. 5 /\ 3 \in 1 .. 5 /\ 4 \in 1 .. 5 /\ 5 \in 1 .. 5
        /\ 1 - 1 = 0 /\ 2 - 1 = 1 /\ 3 - 1 = 2 /\ 4 - 1 = 3 /\ 5 - 1 = 4
    OBVIOUS
  <2>. QED
    BY <1>2, <1>3, <1>5, <2>1, Zenon
<1>7. r = after[5]
  BY <1>5, Zenon DEF UnpackRequest, format, targets, mem
<1>8. after[1] \in States(M) /\ after[1].at = 2
  <2>1. after[0].at = 1 /\ 1 + 1 = 2
    BY <1>5
  <2>2. after[1] \in States(M) /\ after[1].at = after[0].at + 1
    <3>1. TakesByte(M, buf, after[0], 0, after[1])
      BY <1>1, <1>5, <1>6, UnpackedByte
    <3>. QED
      BY <3>1, Zenon DEF TakesByte
  <2>. QED
    BY <2>1, <2>2, Zenon
<1>9. /\ after[2] \in States(M) /\ after[2].at = 3
      /\ after[2].mem[1] = ByteAt(buf, 2)
  <2>1. /\ after[2] \in States(M) /\ after[2].at = after[1].at + 1
        /\ after[2].mem = [after[1].mem EXCEPT ![1] = ByteAt(buf, after[1].at)]
    <3>1. TakesByte(M, buf, after[1], 1, after[2])
      BY <1>1, <1>6, <1>8, UnpackedByte
    <3>. QED
      BY <3>1, Zenon DEF TakesByte
  <2>2. after[1].mem \in [M -> Bytes] /\ 2 + 1 = 3
    BY <1>8 DEF States
  <2>3. [after[1].mem EXCEPT ![1] = ByteAt(buf, after[1].at)][1] = ByteAt(buf, after[1].at)
    BY <1>1, <2>2
  <2>. QED
    BY <1>8, <2>1, <2>2, <2>3, Zenon
<1>. DEFINE chan == unpacku16(ByteAt(buf, 3), ByteAt(buf, 4))
<1>10. /\ after[3] \in States(M) /\ after[3].at = 5
       /\ after[3].mem[1] = ByteAt(buf, 2)
       /\ after[3].mem[2] + 256 * after[3].mem[3] = chan
  <2>1. 3 + 1 = 4 /\ 3 + 2 = 5 /\ 1 < 2 /\ 2 + 1 = 3 /\ 2 \in Nat
    OBVIOUS
  <2>2. chan = unpacku16(ByteAt(buf, after[2].at), ByteAt(buf, after[2].at + 1))
    BY <1>9, <2>1, Zenon
  <2>. HIDE DEF chan
  <2>3. /\ after[3] \in States(M) /\ after[3].at = after[2].at + 2
        /\ chan \in Shorts /\ after[3].mem = StoreInt(after[2].mem, 2, chan)
    <3>1. TakesShort(M, buf, after[2], 2, after[3])
      BY <1>6, <1>9, <2>1, <2>2, UnpackedShort
    <3>. QED
      BY <2>2, <3>1, Zenon DEF TakesShort
  <2>4. after[2].mem \in [M -> Bytes]
    BY <1>9 DEF States
  <2>5. /\ LoadShort(after[3].mem, 2) = chan
        /\ \A o \in M : o < 2 => after[3].mem[o] = after[2].mem[o]
    <3>1. Stored(M, after[2].mem, 2, chan, after[3].mem)
      BY <1>1, <2>3, <2>4, StoreLemma
    <3>. QED
      BY <3>1, Zenon DEF Stored
  <2>6. after[3].mem[1] = after[2].mem[1]
    BY <1>1, <2>1, <2>5, Zenon
  <2>7. after[3].mem[2] + 256 * after[3].mem[3] = chan
    BY <2>1, <2>5, Zenon DEF LoadShort
  <2>. QED
    BY <1>9, <2>1, <2>3, <2>6, <2>7, Zenon
<1>11. /\ after[4] \in States(M) /\ after[4].at = 6
       /\ after[4].mem[1] = ByteAt(buf, 2) /\ after[4].mem[4] = ByteAt(buf, 5)
       /\ after[4].mem[2] = after[3].mem[2] /\ after[4].mem[3] = after[3].mem[3]
  <2>1. /\ after[4] \in States(M) /\ after[4].at = after[3].at + 1
        /\ after[4].mem = [after[3].mem EXCEPT ![4] = ByteAt(buf, after[3].at)]
    <3>1. TakesByte(M, buf, after[3], 4, after[4])
      BY <1>1, <1>6, <1>10, UnpackedByte
    <3>. QED
      BY <3>1, Zenon DEF TakesByte
  <2>2. after[3].mem \in [M -> Bytes] /\ 5 + 1 = 6
    BY <1>10 DEF States
  <2>. DEFINE new == [after[3].mem EXCEPT ![4] = ByteAt(buf, after[3].at)]
  <2>3. /\ new[4] = ByteAt(buf, after[3].at) /\ new[1] = after[3].mem[1]
        /\ new[2] = after[3].mem[2] /\ new[3] = after[3].mem[3]
    BY <1>1, <2>2
  <2>. QED
    BY <1>10, <2>1, <2>2, <2>3, Zenon
<1>12. /\ after[5] \in States(M) /\ after[5].mem = after[4].mem
       /\ v \in Shorts /\ after[5].str = [j \in 1 .. v |-> ByteAt(buf, 7 + j)]
  <2>1. 6 + 1 = 7
    OBVIOUS
  <2>2. v = unpacku16(ByteAt(buf, after[4].at), ByteAt(buf, after[4].at + 1))
    BY <1>11, <2>1, Zenon
  <2>3. /\ after[5] \in States(M) /\ after[5].mem = after[4].mem /\ v \in Shorts
        /\ after[5].str = [j \in 1 .. v |-> ByteAt(buf, after[4].at + 1 + j)]
    BY <1>6, <1>11, <2>2, UnpackedString
  <2>. QED
    BY <1>11, <2>1, <2>3, Zenon
<1>13. LoadShort(after[5].mem, 2) = chan
  <2>1. 2 + 1 = 3
    OBVIOUS
  <2>. QED
    BY <1>10, <1>11, <1>12, <2>1, Zenon DEF LoadShort
<1>14. after[5].mem \in [0 .. 5 -> Bytes]
  BY <1>12 DEF States, M
<1>. QED
  BY <1>7, <1>11, <1>12, <1>13, <1>14, Zenon

\* What the client makes of its buffer.
LEMMA UnpackReplyLemma ==
    ASSUME NEW buf \in Seq(Bytes), NEW r, r = UnpackReply(buf),
           NEW v, v = unpacku16(ByteAt(buf, 4), ByteAt(buf, 5))
    PROVE  /\ r.mem[0] = ByteAt(buf, 1)
           /\ LoadShort(r.mem, 1) = unpacku16(ByteAt(buf, 2), ByteAt(buf, 3))
           /\ v \in Shorts
           /\ r.str = [j \in 1 .. v |-> ByteAt(buf, 5 + j)]
<1>. DEFINE M == 0 .. 4
            mem == [o \in 0 .. 4 |-> 0]
            targets == <<0, 1, 0>>
            format == ReplyFormat
<1>1. /\ M \subseteq Nat /\ mem \in [M -> Bytes]
      /\ 0 \in M /\ 1 \in M /\ 1 + 1 \in M
  BY DEF Bytes
<1>2. format[1] = "C" /\ format[2] = "H" /\ format[3] = "s" /\ Len(format) = 3
  BY DEF ReplyFormat
<1>3. targets[1] = 0 /\ targets[2] = 1 /\ targets[3] = 0
  OBVIOUS
<1>4. \A n \in 1 .. 3 : format[n] \in {"C", "H", "s"} /\ targets[n] \in M
  <2>1. \A n \in 1 .. 3 : n = 1 \/ n = 2 \/ n = 3
    OBVIOUS
  <2>. HIDE DEF M, format, targets
  <2>. QED
    BY <1>1, <1>2, <1>3, <2>1, Zenon
<1>. HIDE DEF M, mem, format, targets
<1>5. PICK after : /\ unpack(buf, format, targets, mem) = after[3]
                   /\ after[0] = [at |-> 1, mem |-> mem, str |-> <<>>]
                   /\ after[0] \in States(M)
                   /\ \A n \in 1 .. 3 : after[n] =
                         Unpacked(buf, after[n - 1], format[n], targets[n])
  <2>1. 3 \in Nat
    OBVIOUS
  <2>2. InSteps(M, buf, format, targets, mem, 3)
    BY <1>1, <1>2, <1>4, <2>1, UnpackLemma
  <2>. QED
    BY <2>2, Zenon DEF InSteps
<1>6. /\ after[1] = Unpacked(buf, after[0], "C", 0)
      /\ after[2] = Unpacked(buf, after[1], "H", 1)
      /\ after[3] = Unpacked(buf, after[2], "s", 0)
  <2>1. /\ 1 \in 1 .. 3 /\ 2 \in 1 .. 3 /\ 3 \in 1 .. 3
        /\ 1 - 1 = 0 /\ 2 - 1 = 1 /\ 3 - 1 = 2
    OBVIOUS
  <2>. QED
    BY <1>2, <1>3, <1>5, <2>1, Zenon
<1>7. r = after[3]
  BY <1>5, Zenon DEF UnpackReply, format, targets, mem
<1>8. /\ after[1] \in States(M) /\ after[1].at = 2
      /\ after[1].mem[0] = ByteAt(buf, 1)
  <2>1. after[0].at = 1 /\ 1 + 1 = 2
    BY <1>5
  <2>2. /\ after[1] \in States(M) /\ after[1].at = after[0].at + 1
        /\ after[1].mem = [after[0].mem EXCEPT ![0] = ByteAt(buf, after[0].at)]
    <3>1. TakesByte(M, buf, after[0], 0, after[1])
      BY <1>1, <1>5, <1>6, UnpackedByte
    <3>. QED
      BY <3>1, Zenon DEF TakesByte
  <2>3. after[0].mem \in [M -> Bytes]
    BY <1>5 DEF States
  <2>4. [after[0].mem EXCEPT ![0] = ByteAt(buf, after[0].at)][0] = ByteAt(buf, after[0].at)
    BY <1>1, <2>3
  <2>. QED
    BY <2>1, <2>2, <2>4, Zenon
<1>. DEFINE size == unpacku16(ByteAt(buf, 2), ByteAt(buf, 3))
<1>9. /\ after[2] \in States(M) /\ after[2].at = 4
      /\ after[2].mem[0] = ByteAt(buf, 1) /\ LoadShort(after[2].mem, 1) = size
  <2>1. 2 + 1 = 3 /\ 2 + 2 = 4 /\ 0 < 1 /\ 1 \in Nat
    OBVIOUS
  <2>2. size = unpacku16(ByteAt(buf, after[1].at), ByteAt(buf, after[1].at + 1))
    BY <1>8, <2>1, Zenon
  <2>. HIDE DEF size
  <2>3. /\ after[2] \in States(M) /\ after[2].at = after[1].at + 2
        /\ size \in Shorts /\ after[2].mem = StoreInt(after[1].mem, 1, size)
    <3>1. TakesShort(M, buf, after[1], 1, after[2])
      BY <1>6, <1>8, <2>1, <2>2, UnpackedShort
    <3>. QED
      BY <2>2, <3>1, Zenon DEF TakesShort
  <2>4. after[1].mem \in [M -> Bytes]
    BY <1>8 DEF States
  <2>5. /\ LoadShort(after[2].mem, 1) = size
        /\ \A o \in M : o < 1 => after[2].mem[o] = after[1].mem[o]
    <3>1. Stored(M, after[1].mem, 1, size, after[2].mem)
      BY <1>1, <2>3, <2>4, StoreLemma
    <3>. QED
      BY <3>1, Zenon DEF Stored
  <2>6. after[2].mem[0] = after[1].mem[0]
    BY <1>1, <2>1, <2>5, Zenon
  <2>. QED
    BY <1>8, <2>1, <2>3, <2>5, <2>6, Zenon
<1>10. /\ after[3].mem = after[2].mem
       /\ v \in Shorts /\ after[3].str = [j \in 1 .. v |-> ByteAt(buf, 5 + j)]
  <2>1. 4 + 1 = 5
    OBVIOUS
  <2>2. v = unpacku16(ByteAt(buf, after[2].at), ByteAt(buf, after[2].at + 1))
    BY <1>9, <2>1, Zenon
  <2>3. /\ after[3].mem = after[2].mem /\ v \in Shorts
        /\ after[3].str = [j \in 1 .. v |-> ByteAt(buf, after[2].at + 1 + j)]
    BY <1>6, <1>9, <2>2, UnpackedString
  <2>. QED
    BY <1>9, <2>1, <2>3, Zenon
<1>. QED
  BY <1>7, <1>9, <1>10, Zenon

-------------------------------------------------------------------------------
(* Strings, and what is read of a packet *)

\* The first zero byte of a sequence that has one.
Zero(s) == CHOOSE i \in DOMAIN s : s[i] = 0 /\ \A j \in 1 .. i - 1 : s[j] # 0

LEMMA ZeroLemma ==
    ASSUME NEW s \in Seq(Bytes), \E i \in DOMAIN s : s[i] = 0
    PROVE  Zero(s) \in 1 .. Len(s) /\ s[Zero(s)] = 0 /\ \A j \in 1 .. Zero(s) - 1 : s[j] # 0
<1>. DEFINE T == {i \in Nat : i \in DOMAIN s /\ s[i] = 0}
<1>1. DOMAIN s = 1 .. Len(s) /\ Len(s) \in Nat
  OBVIOUS
<1>2. T # {} /\ T \in SUBSET Nat
  BY <1>1
<1>3. PICK x \in T : \A y \in T : ~ (y < x)
  BY <1>2, LeastElement, Zenon
<1>4. \A j \in 1 .. x - 1 : j \in DOMAIN s /\ j \in Nat /\ j < x
  BY <1>1, <1>3
<1>5. x \in DOMAIN s /\ s[x] = 0 /\ \A j \in 1 .. x - 1 : s[j] # 0
  BY <1>3, <1>4, Zenon
<1>6. Zero(s) \in DOMAIN s /\ s[Zero(s)] = 0 /\ \A j \in 1 .. Zero(s) - 1 : s[j] # 0
  BY <1>5, Zenon DEF Zero
<1>. QED
  BY <1>1, <1>6, Zenon

\* A string stays what it is; any bytes are cut to a string, before each zero.
LEMMA CStringLemma ==
    ASSUME NEW s \in Seq(Bytes)
    PROVE  /\ (\A i \in DOMAIN s : s[i] # 0) => CString(s) = s
           /\ CString(s) \in Seq(1 .. 255) /\ Len(CString(s)) <= Len(s)
           /\ \A i \in 1 .. Len(s) : s[i] = 0 => Len(CString(s)) < i
<1>1. DOMAIN s = 1 .. Len(s) /\ Len(s) \in Nat
  OBVIOUS
<1>2. ASSUME NEW n \in 0 .. Len(s), \A j \in 1 .. n : s[j] # 0
      PROVE  SubSeq(s, 1, n) \in Seq(1 .. 255) /\ Len(SubSeq(s, 1, n)) = n
  <2>1. \A j \in 1 .. n : s[j] \in 1 .. 255
    <3>1. \A j \in 1 .. n : s[j] \in Bytes
      BY <1>1
    <3>2. \A b \in Bytes : b # 0 => b \in 1 .. 255
      BY DEF Bytes
    <3>. QED
      BY <1>2, <3>1, <3>2, Zenon
  <2>2. /\ Len(SubSeq(s, 1, n)) = n /\ \A j \in 1 .. n : SubSeq(s, 1, n)[j] = s[j]
        /\ SubSeq(s, 1, n) \in Seq(Bytes) /\ n \in Nat
    BY PrefixLemma
  <2>. DEFINE S == 1 .. 255
  <2>3. SubSeq(s, 1, n) \in [1 .. n -> S]
    <3>1. DOMAIN SubSeq(s, 1, n) = 1 .. n
      BY <2>2
    <3>2. SubSeq(s, 1, n) = [j \in 1 .. n |-> SubSeq(s, 1, n)[j]]
      BY <2>2, <3>1
    <3>. QED
      BY <2>1, <2>2, <3>2, Zenon
  <2>. HIDE DEF S
  <2>4. SubSeq(s, 1, n) \in Seq(S)
    BY <2>2, <2>3, FunctionIsSeq
  <2>. QED
    BY <2>2, <2>4, Zenon DEF S
<1>3. CASE \A i \in DOMAIN s : s[i] # 0
  <2>1. CString(s) = s
    BY <1>3, Zenon DEF CString
  <2>2. \A b \in Bytes : b # 0 => b \in 1 .. 255
    BY DEF Bytes
  <2>3. \A i \in 1 .. Len(s) : s[i] \in 1 .. 255
    <3>1. \A i \in 1 .. Len(s) : s[i] \in Bytes
      BY <1>1
    <3>. QED
      BY <1>1, <1>3, <2>2, <3>1, Zenon
  <2>4. s \in [1 .. Len(s) -> 1 .. 255]
    <3>1. s = [i \in 1 .. Len(s) |-> s[i]]
      BY <1>1
    <3>. QED
      BY <2>3, <3>1, Zenon
  <2>5. s \in Seq(1 .. 255)
    BY <1>1, <2>4, FunctionIsSeq
  <2>6. Len(s) <= Len(s)
    BY <1>1
  <2>. QED
    BY <1>1, <1>3, <2>1, <2>5, <2>6, Zenon
<1>4. CASE \E i \in DOMAIN s : s[i] = 0
  <2>. DEFINE z == Zero(s)
  <2>1. CString(s) = SubSeq(s, 1, z - 1)
    BY <1>4, Zenon DEF CString, Zero
  <2>2. z \in 1 .. Len(s) /\ s[z] = 0 /\ \A j \in 1 .. z - 1 : s[j] # 0
    BY <1>4, ZeroLemma
  <2>. HIDE DEF z
  <2>3. z - 1 \in 0 .. Len(s)
    BY <1>1, <2>2
  <2>4. CString(s) \in Seq(1 .. 255) /\ Len(CString(s)) = z - 1
    BY <1>2, <2>1, <2>2, <2>3, ZenonT(60)
  <2>5. ASSUME NEW i \in 1 .. Len(s), s[i] = 0 PROVE z - 1 < i
    <3>1. ~ (i \in 1 .. z - 1)
      BY <2>2, <2>5
    <3>. QED
      BY <1>1, <2>2, <3>1
  <2>6. z - 1 <= Len(s)
    BY <1>1, <2>2
  <2>. QED
    BY <1>4, <2>4, <2>5, <2>6, Zenon
<1>. QED
  BY <1>3, <1>4, Zenon

\* Fields that lie behind one another, the last of them a string: read from a
\* buffer that begins with a packet they are what the packet holds.
LEMMA SameString ==
    ASSUME NEW buf \in Seq(Bytes), NEW p \in Seq(Bytes), Len(p) <= Len(buf),
           \A j \in 1 .. Len(p) : buf[j] = p[j],
           NEW at \in Nat, NEW text \in Strings, Len(p) = at + Len(text),
           \A j \in 1 .. Len(text) : p[at + j] = text[j]
    PROVE  CString([j \in 1 .. Len(text) |-> ByteAt(buf, at + j)]) = text
<1>. DEFINE str == [j \in 1 .. Len(text) |-> ByteAt(buf, at + j)]
<1>1. text \in Seq(Bytes) /\ Len(text) \in Nat
  BY StringFacts
<1>2. ASSUME NEW j \in 1 .. Len(text) PROVE ByteAt(buf, at + j) = text[j]
  <2>1. at + j \in 1 .. Len(p) /\ at + j \in DOMAIN buf
    BY <1>1
  <2>2. p[at + j] = text[j] /\ buf[at + j] = p[at + j]
    BY <2>1, Zenon
  <2>. QED
    BY <2>1, <2>2, Zenon DEF ByteAt
<1>3. text = [j \in 1 .. Len(text) |-> text[j]]
  BY <1>1
<1>4. str = text
  BY <1>2, <1>3, Zenon
<1>5. \A i \in DOMAIN text : text[i] # 0
  BY StringFacts
<1>. QED
  BY <1>1, <1>4, <1>5, CStringLemma, Zenon

\* What the server has of a buffer, and of one that begins with a whole request.
Got(buf) ==
    LET r == UnpackRequest(buf)
    IN  [command |-> r.mem[1], chan |-> LoadShort(r.mem, 2), len |-> r.mem[4],
         text |-> CString(r.str)]

LEMMA SameByte ==
    ASSUME NEW buf \in Seq(Bytes), NEW p \in Seq(Bytes), Len(p) <= Len(buf),
           \A j \in 1 .. Len(p) : buf[j] = p[j]
    PROVE  \A j \in 1 .. Len(p) : ByteAt(buf, j) = p[j]
<1>1. \A j \in 1 .. Len(p) : j \in DOMAIN buf
  OBVIOUS
<1>. QED
  BY <1>1, Zenon DEF ByteAt

LEMMA GotLemma ==
    ASSUME NEW buf \in Seq(Bytes), NEW r \in Requests, Len(PackRequest(r)) <= Len(buf),
           \A j \in 1 .. Len(PackRequest(r)) : buf[j] = PackRequest(r)[j]
    PROVE  Got(buf) = r
<1>. DEFINE p == PackRequest(r)
            u == UnpackRequest(buf)
            v == unpacku16(ByteAt(buf, 6), ByteAt(buf, 7))
<1>1. /\ p \in Seq(Bytes) /\ Len(p) = 7 + Len(r.text)
      /\ p[2] = r.command /\ unpacku16(p[3], p[4]) = r.chan /\ p[5] = r.len
      /\ unpacku16(p[6], p[7]) = Len(r.text)
      /\ \A j \in 1 .. Len(r.text) : p[7 + j] = r.text[j]
  BY PackRequestLemma
<1>2. /\ u.mem[1] = ByteAt(buf, 2)
      /\ LoadShort(u.mem, 2) = unpacku16(ByteAt(buf, 3), ByteAt(buf, 4))
      /\ u.mem[4] = ByteAt(buf, 5)
      /\ u.str = [j \in 1 .. v |-> ByteAt(buf, 7 + j)]
  BY UnpackRequestLemma
<1>3. r.text \in Strings /\ Len(r.text) \in Nat
  BY StringFacts DEF Requests
<1>4. Len(p) <= Len(buf) /\ \A j \in 1 .. Len(p) : buf[j] = p[j]
  OBVIOUS
<1>. HIDE DEF p, u
<1>5. \A j \in {2, 3, 4, 5, 6, 7} : ByteAt(buf, j) = p[j]
  <2>1. \A j \in {2, 3, 4, 5, 6, 7} : j \in 1 .. Len(p)
    <3>1. \A n \in Nat : \A j \in {2, 3, 4, 5, 6, 7} : j \in 1 .. 7 + n
      OBVIOUS
    <3>. QED
      BY <1>1, <1>3, <3>1, Zenon
  <2>2. \A j \in 1 .. Len(p) : ByteAt(buf, j) = p[j]
    BY <1>1, <1>4, SameByte
  <2>. QED
    BY <2>1, <2>2, Zenon
<1>6. v = Len(r.text)
  BY <1>1, <1>5, Zenon
<1>. HIDE DEF v
<1>7. u.str = [j \in 1 .. Len(r.text) |-> ByteAt(buf, 7 + j)]
  BY <1>2, <1>6, Zenon
<1>8. CString(u.str) = r.text
  <2>1. 7 \in Nat
    OBVIOUS
  <2>. QED
    <3>1. CString([j \in 1 .. Len(r.text) |-> ByteAt(buf, 7 + j)]) = r.text
      BY <1>1, <1>3, <1>4, <2>1, SameString, Zenon
    <3>. QED
      BY <1>7, <3>1, Zenon
<1>9. u.mem[1] = r.command /\ LoadShort(u.mem, 2) = r.chan /\ u.mem[4] = r.len
  BY <1>1, <1>2, <1>5, Zenon
<1>10. r = [command |-> r.command, chan |-> r.chan, len |-> r.len, text |-> r.text]
  BY DEF Requests
<1>. QED
  BY <1>8, <1>9, <1>10, Zenon DEF Got, u

\* Of any other buffer the server has at most what lies behind the fields.
LEMMA GotPart ==
    ASSUME NEW buf \in Seq(Bytes)
    PROVE  /\ Got(buf).chan \in Shorts /\ Got(buf).len \in Bytes
           /\ Got(buf).text \in Seq(1 .. 255)
           /\ \A n \in Nat : Len(buf) <= 7 + n => Len(Got(buf).text) <= n
<1>. DEFINE u == UnpackRequest(buf)
            v == unpacku16(ByteAt(buf, 6), ByteAt(buf, 7))
            text == CString(u.str)
<1>1. /\ LoadShort(u.mem, 2) = unpacku16(ByteAt(buf, 3), ByteAt(buf, 4))
      /\ u.mem[4] = ByteAt(buf, 5) /\ v \in Shorts
      /\ u.str = [j \in 1 .. v |-> ByteAt(buf, 7 + j)]
  BY UnpackRequestLemma
<1>. HIDE DEF u, v
<1>2. /\ Got(buf).chan = LoadShort(u.mem, 2) /\ Got(buf).len = u.mem[4]
      /\ Got(buf).text = text
  BY DEF Got, u
<1>3. 3 \in Nat /\ 4 \in Nat /\ 5 \in Nat
  OBVIOUS
<1>4. LoadShort(u.mem, 2) \in Shorts /\ u.mem[4] \in Bytes
  BY <1>1, <1>3, ByteAtLemma, ValueLemma
<1>5. v \in Nat /\ u.str \in Seq(Bytes) /\ Len(u.str) = v
  <2>1. v \in Nat
    BY <1>1, CutLemma
  <2>2. \A j \in 1 .. v : 7 + j \in Nat
    BY <2>1
  <2>3. u.str \in [1 .. v -> Bytes]
    BY <1>1, <2>2, ByteAtLemma, Zenon
  <2>. QED
    BY <2>1, <2>3, FunctionIsSeq
<1>6. /\ text \in Seq(1 .. 255) /\ Len(text) <= v
      /\ \A i \in 1 .. v : u.str[i] = 0 => Len(text) < i
  BY <1>5, CStringLemma
<1>. HIDE DEF text
<1>7. ASSUME NEW n \in Nat, Len(buf) <= 7 + n PROVE Len(text) <= n
  <2>1. CASE v <= n
    BY <1>5, <1>6, <2>1
  <2>2. CASE ~ (v <= n)
    <3>1. n + 1 \in 1 .. v /\ ~ (7 + (n + 1) \in DOMAIN buf)
      BY <1>5, <1>7, <2>2
    <3>2. u.str[n + 1] = 0
      BY <1>1, <3>1, Zenon DEF ByteAt
    <3>3. Len(text) < n + 1
      BY <1>6, <3>1, <3>2, Zenon
    <3>4. Len(text) \in Nat
      BY <1>6
    <3>. QED
      BY <3>3, <3>4
  <2>. QED
    BY <2>1, <2>2
<1>. QED
  BY <1>2, <1>4, <1>6, <1>7, Zenon

\* What the client has of a buffer, and of one that begins with a whole reply.
GotReply(buf) ==
    LET r == UnpackReply(buf)
    IN  [code |-> r.mem[0], size |-> LoadShort(r.mem, 1), data |-> CString(r.str)]

LEMMA GotReplyLemma ==
    ASSUME NEW buf \in Seq(Bytes), NEW r \in Replies, Len(PackReply(r)) <= Len(buf),
           \A j \in 1 .. Len(PackReply(r)) : buf[j] = PackReply(r)[j]
    PROVE  GotReply(buf) = r
<1>. DEFINE p == PackReply(r)
            u == UnpackReply(buf)
            v == unpacku16(ByteAt(buf, 4), ByteAt(buf, 5))
<1>1. /\ p \in Seq(Bytes) /\ Len(p) = 5 + Len(r.data)
      /\ p[1] = r.code /\ unpacku16(p[2], p[3]) = r.size
      /\ unpacku16(p[4], p[5]) = Len(r.data)
      /\ \A j \in 1 .. Len(r.data) : p[5 + j] = r.data[j]
  BY PackReplyLemma
<1>2. /\ u.mem[0] = ByteAt(buf, 1)
      /\ LoadShort(u.mem, 1) = unpacku16(ByteAt(buf, 2), ByteAt(buf, 3))
      /\ u.str = [j \in 1 .. v |-> ByteAt(buf, 5 + j)]
  BY UnpackReplyLemma
<1>3. r.data \in Strings /\ Len(r.data) \in Nat
  BY StringFacts DEF Replies
<1>4. Len(p) <= Len(buf) /\ \A j \in 1 .. Len(p) : buf[j] = p[j]
  OBVIOUS
<1>. HIDE DEF p, u
<1>5. \A j \in {1, 2, 3, 4, 5} : ByteAt(buf, j) = p[j]
  <2>1. \A j \in {1, 2, 3, 4, 5} : j \in 1 .. Len(p)
    <3>1. \A n \in Nat : \A j \in {1, 2, 3, 4, 5} : j \in 1 .. 5 + n
      OBVIOUS
    <3>. QED
      BY <1>1, <1>3, <3>1, Zenon
  <2>2. \A j \in 1 .. Len(p) : ByteAt(buf, j) = p[j]
    BY <1>1, <1>4, SameByte
  <2>. QED
    BY <2>1, <2>2, Zenon
<1>6. v = Len(r.data)
  BY <1>1, <1>5, Zenon
<1>. HIDE DEF v
<1>7. u.str = [j \in 1 .. Len(r.data) |-> ByteAt(buf, 5 + j)]
  BY <1>2, <1>6, Zenon
<1>8. CString(u.str) = r.data
  <2>1. 5 \in Nat
    OBVIOUS
  <2>. QED
    <3>1. CString([j \in 1 .. Len(r.data) |-> ByteAt(buf, 5 + j)]) = r.data
      BY <1>1, <1>3, <1>4, <2>1, SameString, Zenon
    <3>. QED
      BY <1>7, <3>1, Zenon
<1>9. u.mem[0] = r.code /\ LoadShort(u.mem, 1) = r.size
  BY <1>1, <1>2, <1>5, Zenon
<1>10. r = [code |-> r.code, size |-> r.size, data |-> r.data]
  BY DEF Replies
<1>. QED
  BY <1>8, <1>9, <1>10, Zenon DEF GotReply, u

-------------------------------------------------------------------------------
(* The text of a create *)

Chars == 1 .. 255

\* Each entry of a list is its digits and what separates it from the next.
LEMMA EntryLemma ==
    ASSUME NEW n \in 0 .. 99, NEW sep \in {10, 32}, NEW s, s = Digits(n) \o <<sep>>
    PROVE  /\ s \in Seq(Chars)
           /\ n < 10 => Len(s) = 2 /\ s[1] = 48 + n
           /\ ~ (n < 10) => Len(s) = 3
<1>1. sep \in Chars
  BY DEF Chars
<1>2. CASE n < 10
  <2>1. Digits(n) = <<48 + n>> /\ 48 + n \in Chars
    BY <1>2 DEF Digits, Chars
  <2>2. \A c, d \in Chars : /\ <<c>> \o <<d>> \in Seq(Chars) /\ Len(<<c>> \o <<d>>) = 2
                            /\ (<<c>> \o <<d>>)[1] = c
    OBVIOUS
  <2>3. s = <<48 + n>> \o <<sep>>
    BY <2>1, Zenon
  <2>4. s \in Seq(Chars) /\ Len(s) = 2 /\ s[1] = 48 + n
    BY <1>1, <2>1, <2>2, <2>3
  <2>. QED
    BY <1>2, <2>4, Zenon
<1>3. CASE ~ (n < 10)
  <2>1. /\ Digits(n) = <<48 + (n \div 10), 48 + (n % 10)>>
        /\ 48 + (n \div 10) \in Chars /\ 48 + (n % 10) \in Chars
    BY <1>3 DEF Digits, Chars
  <2>2. \A c, d, e \in Chars : /\ <<c, d>> \o <<e>> \in Seq(Chars)
                               /\ Len(<<c, d>> \o <<e>>) = 3
    OBVIOUS
  <2>3. s = <<48 + (n \div 10), 48 + (n % 10)>> \o <<sep>>
    BY <2>1, Zenon
  <2>4. s \in Seq(Chars) /\ Len(s) = 3
    BY <1>1, <2>1, <2>2, <2>3
  <2>. QED
    BY <1>3, <2>4, Zenon
<1>. QED
  BY <1>2, <1>3, Zenon

\* The text g of the first i entries of a list: two characters for each that is
\* a single digit, the digit first, and three for any other.
Listing(list, i, g) ==
    /\ g \in Seq(Chars) /\ 2 * i <= Len(g) /\ Len(g) <= 3 * i
    /\ Len(g) = 2 * i => \A j \in 1 .. i : list[j] < 10
    /\ (\A j \in 1 .. i : list[j] < 10) =>
          Len(g) = 2 * i /\ \A j \in 1 .. i : g[2 * j - 1] = 48 + list[j]

LEMMA ListingEmpty == \A list : Listing(list, 0, <<>>)
<1>1. /\ <<>> \in Seq(Chars) /\ Len(<<>>) = 0 /\ 2 * 0 = 0 /\ 3 * 0 = 0 /\ 0 <= 0
      /\ 1 .. 0 = {}
  OBVIOUS
<1>. QED
  BY <1>1, Zenon DEF Listing

LEMMA ListingStep ==
    ASSUME NEW list \in Seq(0 .. 99), NEW i \in Nat, i + 1 \in 1 .. Len(list),
           NEW g, Listing(list, i, g), NEW s \in Seq(Chars),
           list[i + 1] < 10 => Len(s) = 2 /\ s[1] = 48 + list[i + 1],
           ~ (list[i + 1] < 10) => Len(s) = 3
    PROVE  Listing(list, i + 1, g \o s)
<1>. DEFINE h == g \o s
<1>1. /\ g \in Seq(Chars) /\ Len(g) \in Nat /\ 2 * i <= Len(g) /\ Len(g) <= 3 * i
      /\ Len(g) = 2 * i => \A j \in 1 .. i : list[j] < 10
      /\ (\A j \in 1 .. i : list[j] < 10) =>
            Len(g) = 2 * i /\ \A j \in 1 .. i : g[2 * j - 1] = 48 + list[j]
  BY DEF Listing
<1>2. /\ h \in Seq(Chars) /\ Len(h) = Len(g) + Len(s)
      /\ \A j \in 1 .. Len(g) : h[j] = g[j]
      /\ \A j \in 1 .. Len(s) : h[Len(g) + j] = s[j]
  BY <1>1, ConcatLemma
<1>3. Len(s) = 2 \/ Len(s) = 3
  OBVIOUS
<1>. HIDE DEF h
<1>4. /\ 2 * (i + 1) <= Len(h) /\ Len(h) <= 3 * (i + 1)
      /\ Len(h) = 2 * (i + 1) => Len(g) = 2 * i /\ Len(s) # 3
  <2>1. \A n, l \in Nat : 2 * i <= n /\ n <= 3 * i /\ (l = 2 \/ l = 3) =>
           /\ 2 * (i + 1) <= n + l /\ n + l <= 3 * (i + 1)
           /\ n + l = 2 * (i + 1) => n = 2 * i /\ l # 3
    OBVIOUS
  <2>2. PICK n \in Nat, l \in Nat : n = Len(g) /\ l = Len(s) /\ (l = 2 \/ l = 3)
    BY <1>1, <1>3
  <2>3. 2 * i <= n /\ n <= 3 * i /\ Len(h) = n + l
    BY <1>1, <1>2, <2>2, Zenon
  <2>4. /\ 2 * (i + 1) <= n + l /\ n + l <= 3 * (i + 1)
        /\ n + l = 2 * (i + 1) => n = 2 * i /\ l # 3
    BY <2>1, <2>2, <2>3
  <2>. QED
    BY <2>2, <2>3, <2>4, Zenon
<1>5. \A j \in 1 .. i + 1 : j \in 1 .. i \/ j = i + 1
  OBVIOUS
<1>6. ASSUME Len(h) = 2 * (i + 1) PROVE \A j \in 1 .. i + 1 : list[j] < 10
  <2>1. Len(g) = 2 * i /\ Len(s) # 3
    BY <1>4, <1>6, Zenon
  <2>. QED
    BY <1>1, <1>3, <1>5, <2>1, Zenon
<1>7. ASSUME \A j \in 1 .. i + 1 : list[j] < 10
      PROVE  Len(h) = 2 * (i + 1) /\ \A j \in 1 .. i + 1 : h[2 * j - 1] = 48 + list[j]
  <2>1. i + 1 \in 1 .. i + 1 /\ \A j \in 1 .. i : j \in 1 .. i + 1
    OBVIOUS
  <2>2. \A j \in 1 .. i : list[j] < 10
    BY <1>7, <2>1, Zenon
  <2>3. Len(g) = 2 * i /\ \A j \in 1 .. i : g[2 * j - 1] = 48 + list[j]
    BY <1>1, <2>2, Zenon
  <2>4. Len(s) = 2 /\ s[1] = 48 + list[i + 1]
    BY <1>7, <2>1, Zenon
  <2>5. Len(h) = 2 * (i + 1)
    BY <1>2, <2>3, <2>4
  <2>6. ASSUME NEW j \in 1 .. i PROVE h[2 * j - 1] = 48 + list[j]
    <3>1. 2 * j - 1 \in 1 .. 2 * i
      OBVIOUS
    <3>. QED
      BY <1>2, <2>3, <2>6, <3>1, Zenon
  <2>7. h[2 * (i + 1) - 1] = 48 + list[i + 1]
    <3>1. 2 * i + 1 = 2 * (i + 1) - 1 /\ 1 \in 1 .. 2
      OBVIOUS
    <3>. QED
      BY <1>2, <2>3, <2>4, <3>1, ZenonT(60)
  <2>. QED
    BY <1>5, <2>5, <2>6, <2>7, Zenon
<1>. QED
  BY <1>2, <1>4, <1>6, <1>7, Zenon DEF Listing, h

LEMMA ListTextLemma ==
    ASSUME NEW list \in Seq(0 .. 99)
    PROVE  Listing(list, Len(list), ListText(list))
<1>. DEFINE N == Len(list)
            Sep(i) == IF i = Len(list) THEN 10 ELSE 32
            seqs == [i \in DOMAIN list |-> Digits(list[i]) \o <<Sep(i)>>]
            S == Seq(Chars)
<1>1. N \in Nat /\ DOMAIN list = 1 .. N /\ \A i \in 1 .. N : list[i] \in 0 .. 99
  <2>1. \A i \in 1 .. N : list[i] \in 0 .. 99
    BY ElementOfSeq, Zenon
  <2>. QED
    BY <2>1, LenProperties
<1>2. ASSUME NEW i \in 1 .. N
      PROVE  /\ seqs[i] \in S
             /\ list[i] < 10 => Len(seqs[i]) = 2 /\ seqs[i][1] = 48 + list[i]
             /\ ~ (list[i] < 10) => Len(seqs[i]) = 3
  <2>1. seqs[i] = Digits(list[i]) \o <<Sep(i)>>
    BY <1>1
  <2>2. list[i] \in 0 .. 99
    BY <1>1, Zenon
  <2>3. Sep(i) \in {10, 32}
    OBVIOUS
  <2>. HIDE DEF Sep, seqs
  <2>. QED
    BY <2>1, <2>2, <2>3, EntryLemma, Zenon
<1>3. ListText(list) = FlattenSeq(seqs)
  BY Zenon DEF ListText
<1>4. seqs = [i \in 1 .. N |-> seqs[i]]
  BY <1>1, Zenon
<1>. HIDE DEF N, seqs, S
<1>5. seqs \in [1 .. N -> S]
  BY <1>2, <1>4, Zenon
<1>6. seqs \in Seq(S) /\ Len(seqs) = N
  BY <1>1, <1>5, FunctionIsSeq
<1>7. CASE N = 0
  <2>1. seqs = <<>>
    BY <1>6, <1>7, EmptySeq
  <2>2. FlattenSeq(seqs) = seqs
    BY <1>6, <1>7, Zenon DEF FlattenSeq
  <2>3. Listing(list, 0, <<>>)
    BY ListingEmpty
  <2>. QED
    BY <1>3, <1>7, <2>1, <2>2, <2>3, Zenon DEF N
<1>8. CASE N # 0
  <2>1. 1 \in 1 .. N /\ N - 1 \in Nat /\ (N - 1) + 1 = N
    BY <1>1, <1>8
  <2>2. seqs # <<>> /\ seqs \in Seq(Seq(Chars))
    <3>1. Len(<<>>) = 0
      OBVIOUS
    <3>. QED
      BY <1>6, <1>8, <3>1, Zenon DEF S
  <2>3. PICK f \in [1 .. N -> S] :
           /\ FlattenSeq(seqs) = f[N] /\ f[1] = seqs[1]
           /\ \A i \in 2 .. N : f[i] = f[i - 1] \o seqs[i]
    BY <1>6, <2>2, FlattenLemma DEF S
  <2>. DEFINE P == {i \in Nat : i + 1 <= N => Listing(list, i + 1, f[i + 1])}
  <2>4. 0 \in P
    <3>1. 0 + 1 = 1 /\ 0 \in Nat /\ <<>> \o seqs[1] = seqs[1]
      BY <1>2, <2>1, ConcatEmptySeq DEF S
    <3>2. /\ seqs[1] \in Seq(Chars)
          /\ list[1] < 10 => Len(seqs[1]) = 2 /\ seqs[1][1] = 48 + list[1]
          /\ ~ (list[1] < 10) => Len(seqs[1]) = 3
      BY <1>2, <2>1, Zenon DEF S
    <3>3. Listing(list, 0, <<>>)
      BY ListingEmpty
    <3>4. Listing(list, 0 + 1, <<>> \o seqs[1])
      BY <2>1, <3>1, <3>2, <3>3, ListingStep, Zenon DEF N
    <3>. QED
      BY <2>3, <3>1, <3>4, Zenon
  <2>5. ASSUME NEW i \in P PROVE i + 1 \in P
    <3>1. i \in Nat /\ i + 1 \in Nat /\ (i + 1) - 1 = i
      OBVIOUS
    <3>. SUFFICES ASSUME (i + 1) + 1 <= N
                  PROVE  Listing(list, (i + 1) + 1, f[(i + 1) + 1])
      BY <3>1, Zenon
    <3>. DEFINE n == (i + 1) + 1
    <3>2. n \in 2 .. N /\ n \in 1 .. N /\ n - 1 = i + 1 /\ i + 1 <= N
      BY <1>1, <3>1
    <3>3. Listing(list, i + 1, f[i + 1])
      BY <3>2, Zenon
    <3>4. f[n] = f[i + 1] \o seqs[n]
      BY <2>3, <3>2, Zenon
    <3>5. /\ seqs[n] \in Seq(Chars)
          /\ list[n] < 10 => Len(seqs[n]) = 2 /\ seqs[n][1] = 48 + list[n]
          /\ ~ (list[n] < 10) => Len(seqs[n]) = 3
      BY <1>2, <3>2, Zenon DEF S
    <3>6. Listing(list, n, f[i + 1] \o seqs[n])
      BY <3>1, <3>2, <3>3, <3>5, ListingStep, Zenon DEF N
    <3>. QED
      BY <3>4, <3>6, Zenon
  <2>. HIDE DEF P
  <2>6. Nat \subseteq P
    <3>1. P \in SUBSET Nat
      BY Zenon DEF P
    <3>. QED
      BY <2>4, <2>5, <3>1, SetInduction
  <2>7. N <= N
    BY <1>1
  <2>8. Listing(list, (N - 1) + 1, f[(N - 1) + 1])
    BY <2>1, <2>6, <2>7, Zenon DEF P
  <2>. QED
    BY <1>3, <2>1, <2>3, <2>8, Zenon DEF N
<1>. QED
  BY <1>7, <1>8

\* What the server takes from the text of a list is the list exactly if each
\* entry is a single digit.
LEMMA ListedLemma ==
    ASSUME NEW list \in Seq(0 .. 99)
    PROVE  /\ ListText(list) \in Seq(Chars) /\ Len(ListText(list)) <= 3 * Len(list)
           /\ Listed(ListText(list)) = list <=> \A i \in DOMAIN list : list[i] < 10
<1>. DEFINE N == Len(list)
            t == ListText(list)
            M == (Len(t) + 1) \div 2
<1>1. N \in Nat /\ DOMAIN list = 1 .. N /\ \A i \in 1 .. N : list[i] \in 0 .. 99
  <2>1. \A i \in 1 .. N : list[i] \in 0 .. 99
    BY ElementOfSeq, Zenon
  <2>. QED
    BY <2>1, LenProperties
<1>2. /\ t \in Seq(Chars) /\ 2 * N <= Len(t) /\ Len(t) <= 3 * N
      /\ Len(t) = 2 * N => \A j \in 1 .. N : list[j] < 10
      /\ (\A j \in 1 .. N : list[j] < 10) =>
            Len(t) = 2 * N /\ \A j \in 1 .. N : t[2 * j - 1] = 48 + list[j]
  BY ListTextLemma, Zenon DEF Listing
<1>3. Listed(t) = [i \in 1 .. M |-> t[2 * i - 1] - 48]
  BY Zenon DEF Listed
<1>4. Len(t) \in Nat
  BY <1>2
<1>. HIDE DEF t
<1>5. ASSUME Listed(t) = list PROVE \A j \in 1 .. N : list[j] < 10
  <2>1. 1 .. M = 1 .. N
    BY <1>1, <1>3, <1>5, Zenon
  <2>2. M \in Nat
    BY <1>4
  <2>3. M = N
    <3>. HIDE DEF M, N
    <3>. QED
      BY <1>1, <2>1, <2>2
  <2>4. Len(t) = 2 * N
    <3>1. \A l, n \in Nat : 2 * n <= l /\ (l + 1) \div 2 = n => l = 2 * n
      OBVIOUS
    <3>. QED
      BY <1>1, <1>2, <1>4, <2>3, <3>1, Zenon
  <2>. QED
    BY <1>2, <2>4, Zenon
<1>6. ASSUME \A j \in 1 .. N : list[j] < 10 PROVE Listed(t) = list
  <2>1. Len(t) = 2 * N /\ \A j \in 1 .. N : t[2 * j - 1] = 48 + list[j]
    BY <1>2, <1>6, Zenon
  <2>2. M = N
    <3>1. \A n \in Nat : (2 * n + 1) \div 2 = n
      OBVIOUS
    <3>. QED
      BY <1>1, <2>1, <3>1, Zenon
  <2>. HIDE DEF M
  <2>3. \A j \in 1 .. N : t[2 * j - 1] - 48 = list[j]
    <3>1. \A n \in 0 .. 99 : (48 + n) - 48 = n
      OBVIOUS
    <3>. QED
      BY <1>1, <2>1, <3>1, Zenon
  <2>4. list = [j \in 1 .. N |-> list[j]]
    BY <1>1
  <2>. QED
    BY <1>3, <2>2, <2>3, <2>4, Zenon
<1>. QED
  BY <1>1, <1>2, <1>5, <1>6, Zenon DEF t

-------------------------------------------------------------------------------
(* A stream, and the requests or replies whose packets it carries *)

\* The packets of these, each packed by g.
Map(s, g) == [i \in DOMAIN s |-> g[s[i]]]

Carries(stream, s, g) == Framed(stream, Map(s, g))

Mapped(R, s, g) ==
    /\ Map(s, g) \in Seq(Seq(Bytes)) /\ Len(Map(s, g)) = Len(s)
    /\ \A i \in 1 .. Len(s) : Map(s, g)[i] = g[s[i]] /\ s[i] \in R
    /\ \A i \in 1 .. Len(s) : Lengths(Map(s, g))[i] = Len(g[s[i]])
    /\ Lengths(Map(s, g)) = [i \in DOMAIN s |-> Len(g[s[i]])]

LEMMA MapLemma ==
    ASSUME NEW R, NEW g \in [R -> Seq(Bytes)], NEW s \in Seq(R)
    PROVE  Mapped(R, s, g)
<1>1. Len(s) \in Nat /\ DOMAIN s = 1 .. Len(s) /\ \A i \in 1 .. Len(s) : s[i] \in R
  OBVIOUS
<1>2. Map(s, g) = [i \in 1 .. Len(s) |-> g[s[i]]]
  BY <1>1, Zenon DEF Map
<1>3. \A i \in 1 .. Len(s) : g[s[i]] \in Seq(Bytes)
  BY <1>1
<1>4. Map(s, g) \in [1 .. Len(s) -> Seq(Bytes)]
  BY <1>2, <1>3, Zenon
<1>5. Map(s, g) \in Seq(Seq(Bytes)) /\ Len(Map(s, g)) = Len(s)
  BY <1>1, <1>4, FunctionIsSeq
<1>6. \A i \in 1 .. Len(s) : Map(s, g)[i] = g[s[i]]
  BY <1>2, Zenon
<1>7. DOMAIN Map(s, g) = 1 .. Len(s)
  BY <1>2, Zenon
<1>8. Lengths(Map(s, g)) = [i \in 1 .. Len(s) |-> Len(g[s[i]])]
  BY <1>6, <1>7, Zenon DEF Lengths
<1>. QED
  BY <1>1, <1>5, <1>6, <1>8, Zenon DEF Mapped

LEMMA CarriesAppend ==
    ASSUME NEW R, NEW g \in [R -> Seq(Bytes)], \A r \in R : Len(g[r]) > 0,
           NEW s \in Seq(R), NEW stream \in Seq(Bytes), Carries(stream, s, g), NEW r \in R
    PROVE  Carries(stream \o g[r], Append(s, r), g)
<1>. DEFINE N == Len(s)
            more == Append(s, r)
            packets == Map(s, g)
<1>1. /\ N \in Nat /\ more \in Seq(R) /\ Len(more) = N + 1 /\ more[N + 1] = r
      /\ \A i \in 1 .. N : more[i] = s[i]
  OBVIOUS
<1>2. /\ packets \in Seq(Seq(Bytes)) /\ Len(packets) = N
      /\ \A i \in 1 .. N : packets[i] = g[s[i]] /\ s[i] \in R
  <2>1. Mapped(R, s, g)
    BY MapLemma
  <2>. QED
    BY <2>1, Zenon DEF Mapped
<1>3. \A i \in 1 .. Len(packets) : Len(packets[i]) > 0
  BY <1>2, Zenon
<1>4. g[r] \in Seq(Bytes)
  OBVIOUS
<1>. HIDE DEF packets, more, N
<1>5. Framed(stream \o g[r], Append(packets, g[r]))
  <2>1. Framed(stream, packets)
    BY Zenon DEF Carries, packets
  <2>. QED
    BY <1>2, <1>3, <1>4, <2>1, FramedAppend
<1>6. /\ Map(more, g) \in Seq(Seq(Bytes)) /\ Len(Map(more, g)) = N + 1
      /\ \A i \in 1 .. N + 1 : Map(more, g)[i] = g[more[i]]
  <2>1. /\ Map(more, g) \in Seq(Seq(Bytes)) /\ Len(Map(more, g)) = Len(more)
        /\ \A i \in 1 .. Len(more) : Map(more, g)[i] = g[more[i]] /\ more[i] \in R
    <3>1. Mapped(R, more, g)
      BY <1>1, MapLemma
    <3>. QED
      BY <3>1, Zenon DEF Mapped
  <2>. QED
    BY <1>1, <2>1, Zenon
<1>7. /\ Append(packets, g[r]) \in Seq(Seq(Bytes))
      /\ Len(Append(packets, g[r])) = N + 1
      /\ Append(packets, g[r])[N + 1] = g[r]
      /\ \A i \in 1 .. N : Append(packets, g[r])[i] = packets[i]
  BY <1>2, <1>4, AppendProperties
<1>8. \A i \in 1 .. N + 1 : i \in 1 .. N \/ i = N + 1
  BY <1>1
<1>9. \A i \in 1 .. N + 1 : Map(more, g)[i] = Append(packets, g[r])[i]
  <2>1. ASSUME NEW i \in 1 .. N PROVE Map(more, g)[i] = Append(packets, g[r])[i]
    <3>1. i \in 1 .. N + 1
      BY <1>1
    <3>2. Map(more, g)[i] = g[more[i]]
      BY <1>6, <3>1, Zenon
    <3>3. more[i] = s[i] /\ packets[i] = g[s[i]]
      BY <1>1, <1>2, Zenon
    <3>4. Append(packets, g[r])[i] = packets[i]
      BY <1>7, Zenon
    <3>. QED
      BY <3>2, <3>3, <3>4, Zenon
  <2>2. Map(more, g)[N + 1] = Append(packets, g[r])[N + 1]
    <3>1. N + 1 \in 1 .. N + 1
      BY <1>1
    <3>2. Map(more, g)[N + 1] = g[more[N + 1]]
      BY <1>6, <3>1, Zenon
    <3>3. more[N + 1] = r /\ Append(packets, g[r])[N + 1] = g[r]
      BY <1>1, <1>7, Zenon
    <3>. QED
      BY <3>2, <3>3, Zenon
  <2>. QED
    BY <1>8, <2>1, <2>2, Zenon
<1>10. Map(more, g) = Append(packets, g[r])
  BY <1>6, <1>7, <1>9, SeqEqual
<1>. QED
  BY <1>5, <1>10, Zenon DEF Carries, more

\* A read that ends with a packet leaves a stream of those behind it.
CarriesAfter(stream, R, s, g, lengths, k) ==
    /\ After(s, lengths, k) \in Seq(R)
    /\ Carries(SubSeq(stream, k + 1, Len(stream)), After(s, lengths, k), g)

LEMMA CarriesRest ==
    ASSUME NEW R, NEW g \in [R -> Seq(Bytes)], \A r \in R : Len(g[r]) > 0,
           NEW s \in Seq(R), NEW stream \in Seq(Bytes), Carries(stream, s, g),
           NEW lengths, lengths = [i \in DOMAIN s |-> Len(g[s[i]])],
           NEW k \in Ends(lengths)
    PROVE  CarriesAfter(stream, R, s, g, lengths, k)
<1>. DEFINE N == Len(s)
            packets == Map(s, g)
<1>1. /\ N \in Nat /\ packets \in Seq(Seq(Bytes)) /\ Len(packets) = N
      /\ \A i \in 1 .. N : packets[i] = g[s[i]] /\ s[i] \in R
      /\ lengths = Lengths(packets)
  <2>1. Mapped(R, s, g)
    BY MapLemma
  <2>2. Len(s) \in Nat
    OBVIOUS
  <2>. QED
    BY <2>1, <2>2, Zenon DEF Mapped
<1>2. \A i \in 1 .. Len(packets) : Len(packets[i]) > 0
  BY <1>1, Zenon
<1>3. DOMAIN lengths = 1 .. N
  OBVIOUS
<1>. HIDE DEF packets, N
<1>4. PICK m \in 1 .. N : /\ k = Offset(lengths)[m]
                          /\ After(s, lengths, k) = SubSeq(s, m + 1, Len(s))
  <2>1. LastOf(lengths, k)
    BY AfterLemma
  <2>. QED
    BY <1>3, <2>1, Zenon DEF LastOf
<1>5. Framed(SubSeq(stream, k + 1, Len(stream)), SubSeq(packets, m + 1, Len(packets)))
  <2>1. Framed(stream, packets)
    BY Zenon DEF Carries, packets
  <2>. QED
    BY <1>1, <1>2, <1>4, <2>1, FramedDrop
<1>. DEFINE rest == SubSeq(s, m + 1, N)
            left == SubSeq(packets, m + 1, N)
<1>6. m \in 0 .. N /\ N - m \in Nat
  BY <1>1
<1>7. rest \in Seq(R) /\ Len(rest) = N - m /\ \A i \in 1 .. N - m : rest[i] = s[m + i]
  BY <1>6, RestLemma DEF N
<1>8. /\ left \in Seq(Seq(Bytes)) /\ Len(left) = N - m
      /\ \A i \in 1 .. N - m : left[i] = packets[m + i]
  <2>1. m \in 0 .. Len(packets)
    BY <1>1, <1>6
  <2>2. /\ SubSeq(packets, m + 1, Len(packets)) \in Seq(Seq(Bytes))
        /\ Len(SubSeq(packets, m + 1, Len(packets))) = Len(packets) - m
        /\ \A i \in 1 .. Len(packets) - m :
              SubSeq(packets, m + 1, Len(packets))[i] = packets[m + i]
    BY <1>1, <2>1, RestLemma
  <2>. QED
    BY <1>1, <2>2, Zenon
<1>. HIDE DEF rest, left
<1>9. /\ Map(rest, g) \in Seq(Seq(Bytes)) /\ Len(Map(rest, g)) = N - m
      /\ \A i \in 1 .. N - m : Map(rest, g)[i] = g[rest[i]]
  <2>1. /\ Map(rest, g) \in Seq(Seq(Bytes)) /\ Len(Map(rest, g)) = Len(rest)
        /\ \A i \in 1 .. Len(rest) : Map(rest, g)[i] = g[rest[i]] /\ rest[i] \in R
    <3>1. Mapped(R, rest, g)
      BY <1>7, MapLemma
    <3>. QED
      BY <3>1, Zenon DEF Mapped
  <2>. QED
    BY <1>7, <2>1, Zenon
<1>10. \A i \in 1 .. N - m : m + i \in 1 .. N
  <2>1. \A n \in Nat : \A a \in 1 .. n : \A i \in 1 .. n - a : a + i \in 1 .. n
    OBVIOUS
  <2>. QED
    BY <1>1, <2>1, Zenon
<1>11. ASSUME NEW i \in 1 .. N - m PROVE Map(rest, g)[i] = left[i]
  <2>1. Map(rest, g)[i] = g[s[m + i]]
    BY <1>7, <1>9, Zenon
  <2>2. left[i] = g[s[m + i]]
    BY <1>1, <1>8, <1>10, Zenon
  <2>. QED
    BY <2>1, <2>2, Zenon
<1>12. Map(rest, g) = left
  BY <1>8, <1>9, <1>11, SeqEqual
<1>. QED
  BY <1>1, <1>4, <1>5, <1>7, <1>12, Zenon DEF CarriesAfter, Carries, rest, left, N

\* A stream that is not empty begins with its first packet.
BeginsWith(stream, R, s, g) ==
    /\ 1 \in DOMAIN s /\ s[1] \in R /\ Len(g[s[1]]) <= Len(stream)
    /\ \A j \in 1 .. Len(g[s[1]]) : stream[j] = g[s[1]][j]

LEMMA CarriesFirst ==
    ASSUME NEW R, NEW g \in [R -> Seq(Bytes)], \A r \in R : Len(g[r]) > 0,
           NEW s \in Seq(R), NEW stream \in Seq(Bytes), Carries(stream, s, g),
           stream # <<>>
    PROVE  BeginsWith(stream, R, s, g)
<1>. DEFINE packets == Map(s, g)
<1>1. /\ packets \in Seq(Seq(Bytes)) /\ Len(packets) = Len(s)
      /\ \A i \in 1 .. Len(s) : packets[i] = g[s[i]] /\ s[i] \in R
      /\ DOMAIN s = 1 .. Len(s)
  <2>1. Mapped(R, s, g)
    BY MapLemma
  <2>2. DOMAIN s = 1 .. Len(s)
    OBVIOUS
  <2>. QED
    BY <2>1, <2>2, Zenon DEF Mapped
<1>2. \A i \in 1 .. Len(packets) : Len(packets[i]) > 0
  BY <1>1, Zenon
<1>3. Framed(stream, packets)
  BY Zenon DEF Carries
<1>. HIDE DEF packets
<1>4. /\ 1 \in 1 .. Len(packets) /\ Len(packets[1]) <= Len(stream)
      /\ \A j \in 1 .. Len(packets[1]) : stream[j] = packets[1][j]
  BY <1>1, <1>2, <1>3, FramedFirst
<1>. QED
  BY <1>1, <1>4, Zenon DEF BeginsWith

-------------------------------------------------------------------------------
(* What is typed, and what is relayed *)

\* The requests the client sends: texts that fit its buffer, and msg_len of a
\* message one more than the text, in 8 bits.
Asks == {r \in Requests : /\ r.text \in Texts
                          /\ r.command = SEND => r.len = (Len(r.text) + 1) % 256}

LEMMA TextFacts ==
    ASSUME NEW t \in Texts
    PROVE  t \in Seq(Chars) /\ Len(t) \in Nat /\ Len(t) < BUFSIZE /\ t \in Strings
<1>0. t \in Seq(Chars) /\ Len(t) + 7 <= BUFSIZE
  BY Zenon DEF Texts, Chars
<1>2. Len(t) \in Nat
  BY <1>0
<1>1. t \in Seq(Chars) /\ Len(t) < BUFSIZE
  BY <1>0, <1>2 DEF BUFSIZE
<1>3. \A n \in Nat : n < BUFSIZE => n < Width
  BY DEF Width, BUFSIZE
<1>. QED
  BY <1>1, <1>2, <1>3, Zenon DEF Strings, Chars

LEMMA RequestType ==
    ASSUME NEW command \in Bytes, NEW chan \in Nat, NEW len \in Nat, NEW text \in Texts,
           command = SEND => len = Len(text) + 1
    PROVE  Request(command, chan, len, text) \in Asks
<1>1. chan % 65536 \in Shorts
  <2>1. chan % 65536 = Cut(chan)
    BY DEF Cut, Width
  <2>. QED
    BY <2>1, ShortRange
<1>2. len % 256 \in Bytes /\ text \in Strings
  BY ByteRange, TextFacts
<1>. DEFINE r == Request(command, chan, len, text)
<1>3. r \in Requests /\ r.text = text /\ r.command = command /\ r.len = len % 256
  BY <1>1, <1>2 DEF Request, Requests
<1>. HIDE DEF r
<1>4. r.command = SEND => r.len = (Len(r.text) + 1) % 256
  BY <1>3, Zenon
<1>. QED
  BY <1>3, <1>4, Zenon DEF Asks, r

LEMMA NumbersAreNat == Numbers \subseteq Nat
  BY Zenon DEF Numbers

LEMMA TypedLemma == Typed \subseteq Asks
<1>1. ASSUME NEW m \in Sends
      PROVE  Request(SEND, m.chan, SendLen(m.text), m.text) \in Asks
  <2>1. m.chan \in Nat /\ m.text \in Texts
    <3>1. Sends \subseteq [chan : Numbers, text : Texts]
      BY PacketsAssumption, SMT DEF PacketsAssumption
    <3>2. m \in [chan : Numbers, text : Texts]
      BY <3>1, Zenon
    <3>. QED
      BY <3>2, NumbersAreNat
  <2>2. SEND \in Bytes /\ SendLen(m.text) \in Nat /\ SendLen(m.text) = Len(m.text) + 1
    BY <2>1, TextFacts DEF SEND, Bytes, SendLen
  <2>. QED
    BY <2>1, <2>2, RequestType, Zenon
<1>2. ASSUME NEW n \in Joins, NEW text \in Junk
      PROVE  Request(JOIN_CHANNEL, n, 0, text) \in Asks
  <2>1. /\ n \in Nat /\ text \in Texts /\ 0 \in Nat
        /\ JOIN_CHANNEL \in Bytes /\ JOIN_CHANNEL # SEND
    BY PacketsAssumption, NumbersAreNat DEF PacketsAssumption, JOIN_CHANNEL, SEND, Bytes
  <2>. QED
    BY <2>1, RequestType, Zenon
<1>3. ASSUME NEW list \in Lists, FitsLine(list)
      PROVE  Request(CREATE_CHANNEL, 0, 0, ListText(list)) \in Asks
  <2>1. list \in Seq(0 .. 99)
    BY PacketsAssumption DEF PacketsAssumption
  <2>2. ListText(list) \in Seq(1 .. 255)
    BY <2>1, ListedLemma, Zenon DEF Chars
  <2>3. Len(ListText(list)) + 7 <= BUFSIZE
    <3>1. Len(ListText(list)) \in Nat
      BY <2>2, LenProperties, Zenon
    <3>2. \A a \in Nat : 8 + a <= COMMAND_INPUT_SIZE => a + 7 <= BUFSIZE
      BY DEF COMMAND_INPUT_SIZE, BUFSIZE
    <3>. QED
      BY <1>3, <3>1, <3>2, Zenon DEF FitsLine
  <2>4. ListText(list) \in Texts
    BY <2>2, <2>3, Zenon DEF Texts
  <2>5. 0 \in Nat /\ CREATE_CHANNEL \in Bytes /\ CREATE_CHANNEL # SEND
    BY DEF CREATE_CHANNEL, SEND, Bytes
  <2>. QED
    BY <2>4, <2>5, RequestType, Zenon
<1>. SUFFICES ASSUME NEW r \in Typed PROVE r \in Asks
  OBVIOUS
<1>4. \/ \E m \in Sends : r = Request(SEND, m.chan, SendLen(m.text), m.text)
      \/ \E n \in Joins, text \in Junk : r = Request(JOIN_CHANNEL, n, 0, text)
      \/ \E list \in {l \in Lists : FitsLine(l)} :
            r = Request(CREATE_CHANNEL, 0, 0, ListText(list))
  BY DEF Typed
<1>. QED
  BY <1>1, <1>2, <1>3, <1>4, Zenon

\* The prefix of a relayed text is far from the longest string there can be.
Slack == 10016

LEMMA PrefixFacts ==
    ASSUME NEW chan \in Nat
    PROVE  /\ Prefix(chan) \in Seq(Chars) /\ Len(Prefix(chan)) \in Nat
           /\ Len(Prefix(chan)) <= Slack
<1>. DEFINE T == {power \in {10, 100, 1000, 10000} : chan >= power}
<1>0. PICK top \in Nat : top = 10000
  OBVIOUS
<1>1. IsFiniteSet(1 .. top) /\ Cardinality(1 .. top) <= top
  <2>1. 1 \in Int /\ top \in Int
    OBVIOUS
  <2>2. IsFiniteSet(1 .. top) /\ Cardinality(1 .. top) = IF 1 > top THEN 0 ELSE top - 1 + 1
    BY <2>1, FS_Interval, Zenon
  <2>. QED
    BY <2>2
<1>2. T \in SUBSET (1 .. top)
  BY <1>0
<1>. HIDE DEF T
<1>3. Cardinality(T) \in Nat /\ Cardinality(T) <= top
  <2>1. IsFiniteSet(T) /\ Cardinality(T) <= Cardinality(1 .. top)
    BY <1>1, <1>2, FS_Subset, Zenon
  <2>2. Cardinality(T) \in Nat /\ Cardinality(1 .. top) \in Nat
    BY <1>1, <2>1, FS_CardinalityType, Zenon
  <2>. QED
    BY <1>1, <2>1, <2>2
<1>4. Decimals(chan) = 1 + Cardinality(T)
  BY DEF Decimals, T
<1>5. PICK n \in Nat : n = 15 + Decimals(chan) /\ n <= Slack
  BY <1>0, <1>3, <1>4 DEF Slack
<1>6. Prefix(chan) = [i \in 1 .. n |-> 70]
  BY <1>5, Zenon DEF Prefix
<1>7. Prefix(chan) \in [1 .. n -> Chars]
  <2>1. 70 \in Chars
    BY DEF Chars
  <2>. QED
    BY <1>6, <2>1, Zenon
<1>8. Prefix(chan) \in Seq(Chars) /\ Len(Prefix(chan)) = n
  BY <1>7, FunctionIsSeq
<1>. QED
  BY <1>5, <1>8

\* Prefix, what the memory held and the text.
LEMMA DataLemma ==
    ASSUME NEW chan \in Nat, NEW junk \in Texts, NEW text \in Texts
    PROVE  /\ Prefix(chan) \o junk \o text \in Strings
           /\ Len(Prefix(chan) \o junk \o text)
                = Len(Prefix(chan)) + Len(junk) + Len(text)
<1>1. /\ Prefix(chan) \in Seq(Chars) /\ Len(Prefix(chan)) \in Nat
      /\ Len(Prefix(chan)) <= Slack
  BY PrefixFacts
<1>2. /\ junk \in Seq(Chars) /\ Len(junk) \in Nat /\ Len(junk) < BUFSIZE
      /\ text \in Seq(Chars) /\ Len(text) \in Nat /\ Len(text) < BUFSIZE
  BY TextFacts
<1>. DEFINE front == Prefix(chan) \o junk
            data == front \o text
<1>3. front \in Seq(Chars) /\ Len(front) = Len(Prefix(chan)) + Len(junk)
  BY <1>1, <1>2, ConcatLemma
<1>. HIDE DEF front
<1>5. data \in Seq(Chars) /\ Len(data) = Len(front) + Len(text)
  BY <1>2, <1>3, ConcatLemma
<1>. HIDE DEF data
<1>6. Len(data) < Width
  <2>1. \A a, b, c \in Nat :
           a <= Slack /\ b < BUFSIZE /\ c < BUFSIZE => a + b + c < Width
    BY DEF Width, BUFSIZE, Slack
  <2>. QED
    BY <1>1, <1>2, <1>3, <1>5, <2>1, Zenon
<1>. QED
  BY <1>3, <1>5, <1>6, Zenon DEF Strings, Chars, front, data

-------------------------------------------------------------------------------
(* The inductive invariant: while a stream is in step it carries the packets  *)
(* of the requests or replies that the history names, and nothing else.       *)

RequestPack == [r \in Asks |-> PackRequest(r)]
ReplyPack == [r \in Replies |-> PackReply(r)]

TypeInv ==
    /\ up \in Seq(Bytes) /\ down \in Seq(Bytes) /\ buffer \in Seq(Bytes)
    /\ asked \in Seq(Asks) /\ relayed \in Seq(Replies)
    /\ inStep \in [up : BOOLEAN, down : BOOLEAN]

StreamInv ==
    /\ inStep.up => Carries(up, asked, RequestPack)
    /\ inStep.down => Carries(down, relayed, ReplyPack)

IInv == TypeInv /\ StreamInv /\ RequestDecoded /\ ReplyDecoded /\ RelayFits

LEMMA RequestPackFacts ==
    /\ RequestPack \in [Asks -> Seq(Bytes)]
    /\ \A r \in Asks : /\ RequestPack[r] = PackRequest(r)
                       /\ Len(RequestPack[r]) = 7 + Len(r.text)
                       /\ Len(RequestPack[r]) > 0
<1>1. ASSUME NEW r \in Asks
      PROVE  /\ PackRequest(r) \in Seq(Bytes) /\ Len(PackRequest(r)) = 7 + Len(r.text)
             /\ Len(r.text) \in Nat
  <2>1. r \in Requests /\ r.text \in Texts
    BY Zenon DEF Asks
  <2>2. Len(r.text) \in Nat
    BY <2>1, TextFacts
  <2>. QED
    BY <2>1, <2>2, PackRequestLemma, Zenon
<1>2. ASSUME NEW r \in Asks PROVE RequestPack[r] = PackRequest(r)
  BY Zenon DEF RequestPack
<1>3. \A n \in Nat : 7 + n > 0
  OBVIOUS
<1>4. RequestPack \in [Asks -> Seq(Bytes)]
  BY <1>1, Zenon DEF RequestPack
<1>. QED
  BY <1>1, <1>2, <1>3, <1>4, Zenon

LEMMA ReplyPackFacts ==
    /\ ReplyPack \in [Replies -> Seq(Bytes)]
    /\ \A r \in Replies : ReplyPack[r] = PackReply(r) /\ Len(ReplyPack[r]) > 0
<1>1. ASSUME NEW r \in Replies
      PROVE  /\ PackReply(r) \in Seq(Bytes) /\ Len(PackReply(r)) = 5 + Len(r.data)
             /\ Len(r.data) \in Nat
  <2>1. r.data \in Strings
    BY DEF Replies
  <2>2. Len(r.data) \in Nat
    BY <2>1, StringFacts
  <2>. QED
    BY <2>2, PackReplyLemma, Zenon
<1>2. ASSUME NEW r \in Replies PROVE ReplyPack[r] = PackReply(r)
  BY Zenon DEF ReplyPack
<1>3. \A n \in Nat : 5 + n > 0
  OBVIOUS
<1>4. ReplyPack \in [Replies -> Seq(Bytes)]
  BY <1>1, Zenon DEF ReplyPack
<1>. QED
  BY <1>1, <1>2, <1>3, <1>4, Zenon

\* The lengths of the packets under way, in terms of the invariant.
LEMMA RequestLengthsLemma ==
    ASSUME asked \in Seq(Asks)
    PROVE  RequestLengths = [i \in DOMAIN asked |-> Len(RequestPack[asked[i]])]
<1>1. \A i \in DOMAIN asked : asked[i] \in Asks
  OBVIOUS
<1>2. \A i \in DOMAIN asked : RequestPack[asked[i]] = PackRequest(asked[i])
  BY <1>1, RequestPackFacts, Zenon
<1>. QED
  BY <1>2, Zenon DEF RequestLengths

LEMMA ReplyLengthsLemma ==
    ASSUME relayed \in Seq(Replies)
    PROVE  ReplyLengths = [i \in DOMAIN relayed |-> Len(ReplyPack[relayed[i]])]
<1>1. \A i \in DOMAIN relayed : relayed[i] \in Replies
  OBVIOUS
<1>2. \A i \in DOMAIN relayed : ReplyPack[relayed[i]] = PackReply(relayed[i])
  BY <1>1, ReplyPackFacts, Zenon
<1>. QED
  BY <1>2, Zenon DEF ReplyLengths

\* What the server makes of a read of k bytes: the first request, if that is all
\* there, and otherwise something that still fits a text.
LEMMA ServerDecodes ==
    ASSUME asked \in Seq(Asks), up \in Seq(Bytes), Carries(up, asked, RequestPack),
           up # <<>>, NEW k \in 1 .. Len(up), NEW got, got = Got(SubSeq(up, 1, k))
    PROVE  /\ asked[1] \in Asks /\ RequestLengths[1] \in Nat
           /\ k >= RequestLengths[1] => got = asked[1]
           /\ got.text \in Texts /\ got.chan \in Nat /\ got.len \in Bytes
<1>. DEFINE r == asked[1]
            buf == SubSeq(up, 1, k)
<1>1. /\ r \in Asks /\ RequestLengths[1] = Len(RequestPack[r])
      /\ RequestLengths[1] <= Len(up)
      /\ \A j \in 1 .. Len(RequestPack[r]) : up[j] = RequestPack[r][j]
  <2>1. BeginsWith(up, Asks, asked, RequestPack)
    BY RequestPackFacts, CarriesFirst
  <2>2. RequestLengths = [i \in DOMAIN asked |-> Len(RequestPack[asked[i]])]
    BY RequestLengthsLemma
  <2>. QED
    BY <2>1, <2>2, Zenon DEF BeginsWith
<1>2. buf \in Seq(Bytes) /\ Len(buf) = k /\ \A j \in 1 .. k : buf[j] = up[j]
  <2>1. k \in 0 .. Len(up)
    OBVIOUS
  <2>. QED
    BY <2>1, PrefixLemma
<1>3. r \in Requests /\ r.text \in Texts /\ Len(r.text) \in Nat /\ Len(r.text) < BUFSIZE
  BY <1>1, TextFacts, Zenon DEF Asks
<1>4. /\ RequestPack[r] = PackRequest(r)
      /\ RequestLengths[1] = 7 + Len(r.text) /\ RequestLengths[1] \in Nat
  <2>1. RequestPack[r] = PackRequest(r) /\ Len(RequestPack[r]) = 7 + Len(r.text)
    BY <1>1, RequestPackFacts, Zenon
  <2>2. \A n \in Nat : 7 + n \in Nat
    OBVIOUS
  <2>. QED
    BY <1>1, <1>3, <2>1, <2>2, Zenon
<1>. HIDE DEF r, buf
<1>5. ASSUME k >= RequestLengths[1] PROVE got = r
  <2>1. Len(PackRequest(r)) <= Len(buf)
    BY <1>1, <1>2, <1>4, <1>5
  <2>2. \A j \in 1 .. Len(PackRequest(r)) : j \in 1 .. k
    BY <1>1, <1>4, <1>5
  <2>3. \A j \in 1 .. Len(PackRequest(r)) : buf[j] = PackRequest(r)[j]
    BY <1>1, <1>2, <1>4, <2>2, Zenon
  <2>4. Got(buf) = r
    BY <1>2, <1>3, <2>1, <2>3, GotLemma
  <2>. QED
    BY <2>4, Zenon DEF buf
<1>6. /\ got.chan \in Shorts /\ got.len \in Bytes /\ got.text \in Seq(1 .. 255)
      /\ \A n \in Nat : Len(buf) <= 7 + n => Len(got.text) <= n
  <2>1. /\ Got(buf).chan \in Shorts /\ Got(buf).len \in Bytes
        /\ Got(buf).text \in Seq(1 .. 255)
        /\ \A n \in Nat : Len(buf) <= 7 + n => Len(Got(buf).text) <= n
    BY <1>2, GotPart
  <2>. QED
    BY <2>1, Zenon DEF buf
<1>7. got.text \in Texts
  <2>1. CASE k >= RequestLengths[1]
    BY <1>3, <1>5, <2>1, Zenon
  <2>2. CASE ~ (k >= RequestLengths[1])
    <3>1. Len(buf) <= 7 + Len(r.text)
      BY <1>2, <1>3, <1>4, <2>2
    <3>2. Len(got.text) <= Len(r.text)
      BY <1>3, <1>6, <3>1, Zenon
    <3>3. Len(got.text) \in Nat /\ BUFSIZE \in Nat
      BY <1>6, LenProperties DEF BUFSIZE
    <3>4. \A a, b, c \in Nat : a <= b /\ b + 7 <= c => a + 7 <= c
      OBVIOUS
    <3>5. Len(r.text) \in Nat /\ Len(r.text) + 7 <= BUFSIZE
      BY <1>3, TextFacts, Zenon DEF Texts
    <3>6. Len(got.text) + 7 <= BUFSIZE
      BY <3>2, <3>3, <3>4, <3>5, Zenon
    <3>. QED
      BY <1>6, <3>6, Zenon DEF Texts
  <2>. QED
    BY <2>1, <2>2
<1>8. got.chan \in Nat
  BY <1>6, CutLemma
<1>. QED
  BY <1>1, <1>4, <1>5, <1>6, <1>7, <1>8, Zenon DEF r

\* What the client makes of a read that holds all of the first reply, whatever
\* is left of earlier ones behind it.
LEMMA ClientDecodes ==
    ASSUME relayed \in Seq(Replies), down \in Seq(Bytes), buffer \in Seq(Bytes),
           Carries(down, relayed, ReplyPack), down # <<>>, NEW k \in 1 .. Len(down),
           NEW full, full = SubSeq(down, 1, k) \o SubSeq(buffer, k + 1, Len(buffer))
    PROVE  /\ relayed[1] \in Replies /\ full \in Seq(Bytes) /\ ReplyLengths[1] \in Nat
           /\ k >= ReplyLengths[1] => GotReply(full) = relayed[1]
<1>. DEFINE r == relayed[1]
            buf == SubSeq(down, 1, k)
            old == SubSeq(buffer, k + 1, Len(buffer))
<1>1. /\ r \in Replies /\ ReplyLengths[1] = Len(ReplyPack[r])
      /\ ReplyLengths[1] <= Len(down)
      /\ \A j \in 1 .. Len(ReplyPack[r]) : down[j] = ReplyPack[r][j]
  <2>1. BeginsWith(down, Replies, relayed, ReplyPack)
    BY ReplyPackFacts, CarriesFirst
  <2>2. ReplyLengths = [i \in DOMAIN relayed |-> Len(ReplyPack[relayed[i]])]
    BY ReplyLengthsLemma
  <2>. QED
    BY <2>1, <2>2, Zenon DEF BeginsWith
<1>2. buf \in Seq(Bytes) /\ Len(buf) = k /\ \A j \in 1 .. k : buf[j] = down[j]
  <2>1. k \in 0 .. Len(down)
    OBVIOUS
  <2>. QED
    BY <2>1, PrefixLemma
<1>3. old \in Seq(Bytes)
  <2>1. /\ k + 1 \in Int /\ Len(buffer) \in Int
        /\ \A i \in k + 1 .. Len(buffer) : buffer[i] \in Bytes
    OBVIOUS
  <2>. QED
    BY <2>1, SubSeqProperties
<1>4. full = buf \o old
  BY Zenon
<1>. HIDE DEF r, buf, old
<1>5. /\ full \in Seq(Bytes) /\ Len(full) = Len(buf) + Len(old)
      /\ \A j \in 1 .. Len(buf) : full[j] = buf[j]
  <2>1. /\ buf \o old \in Seq(Bytes) /\ Len(buf \o old) = Len(buf) + Len(old)
        /\ \A j \in 1 .. Len(buf) : (buf \o old)[j] = buf[j]
    BY <1>2, <1>3, JoinLemma
  <2>. QED
    BY <1>4, <2>1, Zenon
<1>6. ReplyPack[r] = PackReply(r)
  BY <1>1, ReplyPackFacts, Zenon
<1>7. ASSUME k >= ReplyLengths[1] PROVE GotReply(full) = r
  <2>1. Len(old) \in Nat /\ Len(PackReply(r)) \in Nat
    <3>1. PackReply(r) \in Seq(Bytes)
      BY <1>1, PackReplyLemma, Zenon
    <3>. QED
      BY <1>3, <3>1, LenProperties
  <2>2. Len(PackReply(r)) <= Len(full)
    BY <1>1, <1>2, <1>5, <1>6, <1>7, <2>1
  <2>3. \A j \in 1 .. Len(PackReply(r)) : j \in 1 .. k
    BY <1>1, <1>6, <1>7, <2>1
  <2>4. \A j \in 1 .. Len(PackReply(r)) : full[j] = PackReply(r)[j]
    BY <1>1, <1>2, <1>5, <1>6, <2>3, Zenon
  <2>. QED
    BY <1>1, <1>5, <2>2, <2>4, GotReplyLemma
<1>8. Len(ReplyPack[r]) \in Nat
  <2>1. ReplyPack[r] \in Seq(Bytes)
    BY <1>1, ReplyPackFacts
  <2>. QED
    BY <2>1, LenProperties
<1>. QED
  BY <1>1, <1>5, <1>7, <1>8, Zenon DEF r

-------------------------------------------------------------------------------
(* Every step keeps the invariant *)

LEMMA NothingCarried ==
    ASSUME NEW R, NEW g \in [R -> Seq(Bytes)]
    PROVE  Carries(<<>>, <<>>, g)
<1>1. <<>> \in Seq(R) /\ Len(<<>>) = 0
  OBVIOUS
<1>2. Mapped(R, <<>>, g)
  BY <1>1, MapLemma
<1>3. Map(<<>>, g) \in Seq(Seq(Bytes)) /\ Len(Map(<<>>, g)) = 0
  BY <1>1, <1>2, Zenon DEF Mapped
<1>4. Map(<<>>, g) = <<>>
  BY <1>3, EmptySeq
<1>. QED
  BY <1>4, FramedEmpty, Zenon DEF Carries

\* The sum of the two lengths, cut to 8 bits at each addition, and the sum.
LEMMA RoomLemma ==
    \A a, p \in Nat : LET room == (((a + 1) % 256) + p) % 256
                      IN  p + a + 1 <= room <=> p + a + 1 < 256
<1>. SUFFICES ASSUME NEW a \in Nat, NEW p \in Nat
              PROVE  p + a + 1 <= (((a + 1) % 256) + p) % 256 <=> p + a + 1 < 256
  OBVIOUS
<1>1. (((a + 1) % 256) + p) % 256 < 256 /\ (((a + 1) % 256) + p) % 256 \in Nat
  OBVIOUS
<1>2. ASSUME p + a + 1 < 256 PROVE (((a + 1) % 256) + p) % 256 = p + a + 1
  <2>1. (a + 1) % 256 = a + 1
    BY <1>2
  <2>2. (a + 1 + p) % 256 = p + a + 1
    BY <1>2
  <2>. QED
    BY <2>1, <2>2
<1>. QED
  BY <1>1, <1>2

LEMMA RelayStep ==
    ASSUME TypeInv, Carries(down, relayed, ReplyPack), NEW chan \in Nat,
           NEW len \in Bytes, NEW text \in Texts, NEW complete,
           complete => len = (Len(text) + 1) % 256, Relay(chan, len, text, complete)
    PROVE  /\ down' \in Seq(Bytes) /\ relayed' \in Seq(Replies)
           /\ Carries(down', relayed', ReplyPack) /\ RelayFits'
<1>. DEFINE P == Len(Prefix(chan))
            size == (len + P) % 256
<1>1. PICK junk \in Junk :
         LET data == Prefix(chan) \o junk \o text
             r    == [code |-> SEND, size |-> size, data |-> data]
         IN  /\ down' = down \o PackReply(r)
             /\ relayed' = Append(relayed, r)
             /\ copied' = [of |-> "server", room |-> size, written |-> Len(data) + 1,
                           exact |-> complete /\ junk = <<>>]
  BY Zenon DEF Relay
<1>. DEFINE data == Prefix(chan) \o junk \o text
            r    == [code |-> SEND, size |-> size, data |-> data]
<1>2. junk \in Texts
  BY PacketsAssumption DEF PacketsAssumption
<1>3. data \in Strings /\ Len(data) = P + Len(junk) + Len(text)
  BY <1>2, DataLemma
<1>4. P \in Nat /\ Len(text) \in Nat /\ Len(<<>>) = 0
  BY PrefixFacts, TextFacts
<1>5. size \in Bytes
  <2>1. \A l \in Bytes : l \in Nat
    BY DEF Bytes
  <2>2. len + P \in Nat
    BY <1>4, <2>1
  <2>. QED
    BY <2>2, ByteRange, Zenon
<1>6. r \in Replies
  <2>1. SEND \in Bytes
    BY DEF SEND, Bytes
  <2>. HIDE DEF size, data
  <2>. QED
    BY <1>3, <1>5, <2>1 DEF Replies
<1>. HIDE DEF r
<1>7. /\ down' = down \o ReplyPack[r] /\ relayed' = Append(relayed, r)
      /\ ReplyPack[r] \in Seq(Bytes)
  BY <1>1, <1>6, ReplyPackFacts, Zenon DEF r
<1>8. down \in Seq(Bytes) /\ relayed \in Seq(Replies)
  BY DEF TypeInv
<1>9. down' \in Seq(Bytes) /\ relayed' \in Seq(Replies)
  BY <1>6, <1>7, <1>8
<1>10. Carries(down \o ReplyPack[r], Append(relayed, r), ReplyPack)
  BY <1>6, <1>8, ReplyPackFacts, CarriesAppend
<1>11. RelayFits'
  <2>1. SUFFICES ASSUME copied'.exact
                 PROVE  copied'.written <= copied'.room <=> copied'.written < 256
    BY Zenon DEF RelayFits
  <2>2. /\ copied'.room = size /\ copied'.written = Len(data) + 1
        /\ copied'.exact = (complete /\ junk = <<>>)
    <3>. HIDE DEF size, data
    <3>. QED
      BY <1>1, Zenon DEF data
  <2>3. complete /\ junk = <<>>
    BY <2>1, <2>2, Zenon
  <2>4. size = (((Len(text) + 1) % 256) + P) % 256
    BY <2>3, Zenon
  <2>5. Len(data) + 1 = P + Len(text) + 1
    BY <1>3, <1>4, <2>3
  <2>. HIDE DEF size, data, P
  <2>6. P + Len(text) + 1 <= (((Len(text) + 1) % 256) + P) % 256 <=> P + Len(text) + 1 < 256
    BY <1>4, RoomLemma
  <2>. QED
    BY <2>2, <2>4, <2>5, <2>6
<1>. QED
  BY <1>7, <1>9, <1>10, <1>11, Zenon

LEMMA TypeStep ==
    ASSUME IInv, Type PROVE IInv'
<1>1. /\ up \in Seq(Bytes) /\ asked \in Seq(Asks) /\ inStep.up
      /\ Carries(up, asked, RequestPack)
  BY Zenon DEF IInv, TypeInv, StreamInv, Type
<1>2. PICK r \in Typed : up' = up \o PackRequest(r) /\ asked' = Append(asked, r)
  BY Zenon DEF Type
<1>3. r \in Asks
  BY TypedLemma
<1>4. RequestPack[r] = PackRequest(r) /\ RequestPack[r] \in Seq(Bytes)
  BY <1>3, RequestPackFacts, Zenon
<1>5. Carries(up \o RequestPack[r], Append(asked, r), RequestPack)
  BY <1>1, <1>3, RequestPackFacts, CarriesAppend
<1>6. up' \in Seq(Bytes) /\ asked' \in Seq(Asks)
  BY <1>1, <1>2, <1>3, <1>4
<1>7. UNCHANGED <<down, relayed, buffer, inStep, decoded, copied>>
  BY Zenon DEF Type
<1>8. TypeInv'
  BY <1>6, <1>7, Zenon DEF IInv, TypeInv
<1>9. StreamInv'
  BY <1>2, <1>4, <1>5, <1>7, Zenon DEF IInv, StreamInv
<1>10. RequestDecoded' /\ ReplyDecoded' /\ RelayFits'
  BY <1>7, Zenon DEF IInv, RequestDecoded, ReplyDecoded, RelayFits
<1>. QED
  BY <1>8, <1>9, <1>10, Zenon DEF IInv

LEMMA ServerStep ==
    ASSUME IInv, ServerRead PROVE IInv'
<1>1. TypeInv /\ StreamInv
  BY Zenon DEF IInv
<1>2. /\ up \in Seq(Bytes) /\ asked \in Seq(Asks) /\ inStep.up /\ up # <<>>
      /\ down \in Seq(Bytes) /\ relayed \in Seq(Replies) /\ buffer \in Seq(Bytes)
      /\ inStep \in [up : BOOLEAN, down : BOOLEAN]
      /\ Carries(up, asked, RequestPack)
  BY <1>1, Zenon DEF TypeInv, StreamInv, ServerRead
<1>3. PICK k \in ReadLengths(up, Ends(RequestLengths)) :
         LET got   == Got(SubSeq(up, 1, k))
             whole == k \in Ends(RequestLengths)
         IN  /\ up' = SubSeq(up, k + 1, Len(up))
             /\ inStep' = [inStep EXCEPT !.up = whole]
             /\ asked' = IF whole THEN After(asked, RequestLengths, k) ELSE <<>>
             /\ decoded' = IF k < RequestLengths[1] THEN None
                           ELSE [of |-> "request", want |-> asked[1], got |-> got]
             /\ IF got.command = SEND /\ inStep.down
                  THEN Relay(got.chan, got.len, got.text, k >= RequestLengths[1])
                  ELSE UNCHANGED <<down, relayed, copied>>
  BY Zenon DEF ServerRead, Got
<1>. DEFINE got == Got(SubSeq(up, 1, k))
            whole == k \in Ends(RequestLengths)
<1>4. UNCHANGED <<buffer, typed>>
  BY Zenon DEF ServerRead
<1>5. k \in 1 .. Len(up)
  BY Zenon DEF ReadLengths
<1>6. /\ asked[1] \in Asks /\ RequestLengths[1] \in Nat
      /\ k >= RequestLengths[1] => got = asked[1]
      /\ got.text \in Texts /\ got.chan \in Nat /\ got.len \in Bytes
  BY <1>2, <1>5, ServerDecodes
<1>. HIDE DEF got
<1>7. up' \in Seq(Bytes)
  <2>1. k \in 0 .. Len(up)
    BY <1>5
  <2>2. SubSeq(up, k + 1, Len(up)) \in Seq(Bytes)
    BY <1>2, <2>1, RestLemma
  <2>. QED
    BY <1>3, <2>2, Zenon
<1>8. asked' \in Seq(Asks) /\ (whole => Carries(up', asked', RequestPack))
  <2>1. CASE whole
    <3>1. RequestLengths = [i \in DOMAIN asked |-> Len(RequestPack[asked[i]])]
      BY <1>2, RequestLengthsLemma
    <3>2. CarriesAfter(up, Asks, asked, RequestPack, RequestLengths, k)
      BY <1>2, <2>1, <3>1, RequestPackFacts, CarriesRest
    <3>. QED
      BY <1>3, <2>1, <3>2, Zenon DEF CarriesAfter
  <2>2. CASE ~ whole
    <3>1. <<>> \in Seq(Asks)
      OBVIOUS
    <3>. QED
      BY <1>3, <2>2, <3>1, Zenon
  <2>. QED
    BY <2>1, <2>2
<1>9. /\ inStep' \in [up : BOOLEAN, down : BOOLEAN]
      /\ inStep'.up => whole
      /\ inStep'.down = inStep.down
  <2>. DEFINE b == whole
  <2>1. b \in BOOLEAN
    OBVIOUS
  <2>. HIDE DEF b
  <2>2. inStep' = [inStep EXCEPT !.up = b]
    BY <1>3, Zenon DEF b
  <2>3. /\ inStep' \in [up : BOOLEAN, down : BOOLEAN]
        /\ inStep'.up = b /\ inStep'.down = inStep.down
    BY <1>2, <2>1, <2>2
  <2>. QED
    BY <2>3, Zenon DEF b
<1>10. RequestDecoded' /\ ReplyDecoded'
  <2>1. CASE k < RequestLengths[1]
    <3>1. decoded' = None
      BY <1>3, <2>1, Zenon
    <3>2. None.of # "request" /\ None.of # "reply"
      BY DEF None
    <3>. QED
      BY <3>1, <3>2, Zenon DEF RequestDecoded, ReplyDecoded
  <2>2. CASE ~ (k < RequestLengths[1])
    <3>1. k >= RequestLengths[1]
      BY <1>5, <1>6, <2>2
    <3>2. decoded' = [of |-> "request", want |-> asked[1], got |-> got]
      BY <1>3, <2>2, Zenon DEF got
    <3>3. /\ decoded'.of = "request" /\ "request" # "reply"
          /\ decoded'.got = got /\ decoded'.want = asked[1]
      BY <3>2
    <3>. QED
      BY <1>6, <3>1, <3>3, Zenon DEF RequestDecoded, ReplyDecoded
  <2>. QED
    BY <2>1, <2>2
<1>11. /\ down' \in Seq(Bytes) /\ relayed' \in Seq(Replies) /\ RelayFits'
       /\ inStep.down => Carries(down', relayed', ReplyPack)
  <2>1. CASE got.command = SEND /\ inStep.down
    <3>1. Relay(got.chan, got.len, got.text, k >= RequestLengths[1])
      BY <1>3, <2>1, Zenon DEF got
    <3>2. k >= RequestLengths[1] => got.len = (Len(got.text) + 1) % 256
      BY <1>6, <2>1, Zenon DEF Asks
    <3>3. Carries(down, relayed, ReplyPack)
      BY <1>1, <2>1, Zenon DEF StreamInv
    <3>. QED
      BY <1>1, <1>6, <3>1, <3>2, <3>3, RelayStep, ZenonT(60)
  <2>2. CASE ~ (got.command = SEND /\ inStep.down)
    <3>1. UNCHANGED <<down, relayed, copied>>
      BY <1>3, <2>2, Zenon DEF got
    <3>. QED
      BY <1>1, <1>2, <3>1, Zenon DEF IInv, StreamInv, RelayFits
  <2>. QED
    BY <2>1, <2>2
<1>12. TypeInv'
  BY <1>2, <1>4, <1>7, <1>8, <1>9, <1>11, Zenon DEF TypeInv
<1>13. StreamInv'
  BY <1>8, <1>9, <1>11, Zenon DEF StreamInv
<1>. QED
  BY <1>10, <1>11, <1>12, <1>13, Zenon DEF IInv

LEMMA ClientStep ==
    ASSUME IInv, ClientRead PROVE IInv'
<1>1. TypeInv /\ StreamInv
  BY Zenon DEF IInv
<1>2. /\ down \in Seq(Bytes) /\ relayed \in Seq(Replies) /\ inStep.down /\ down # <<>>
      /\ up \in Seq(Bytes) /\ asked \in Seq(Asks) /\ buffer \in Seq(Bytes)
      /\ inStep \in [up : BOOLEAN, down : BOOLEAN]
      /\ Carries(down, relayed, ReplyPack)
  BY <1>1, Zenon DEF TypeInv, StreamInv, ClientRead
<1>3. PICK k \in ReadLengths(down, Ends(ReplyLengths)) :
         LET full  == SubSeq(down, 1, k) \o SubSeq(buffer, k + 1, Len(buffer))
             whole == k \in Ends(ReplyLengths)
         IN  /\ buffer' = full
             /\ down' = SubSeq(down, k + 1, Len(down))
             /\ inStep' = [inStep EXCEPT !.down = whole]
             /\ relayed' = IF whole THEN After(relayed, ReplyLengths, k) ELSE <<>>
             /\ decoded' = IF k < ReplyLengths[1] THEN None
                           ELSE [of |-> "reply", want |-> relayed[1], got |-> GotReply(full)]
  BY Zenon DEF ClientRead, GotReply
<1>. DEFINE full == SubSeq(down, 1, k) \o SubSeq(buffer, k + 1, Len(buffer))
            whole == k \in Ends(ReplyLengths)
<1>4. UNCHANGED <<up, asked, copied, typed>>
  BY Zenon DEF ClientRead
<1>5. k \in 1 .. Len(down)
  BY Zenon DEF ReadLengths
<1>6. /\ relayed[1] \in Replies /\ full \in Seq(Bytes) /\ ReplyLengths[1] \in Nat
      /\ k >= ReplyLengths[1] => GotReply(full) = relayed[1]
  BY <1>2, <1>5, ClientDecodes
<1>. HIDE DEF full
<1>7. down' \in Seq(Bytes) /\ buffer' \in Seq(Bytes)
  <2>1. k \in 0 .. Len(down)
    BY <1>5
  <2>2. SubSeq(down, k + 1, Len(down)) \in Seq(Bytes)
    BY <1>2, <2>1, RestLemma
  <2>. QED
    BY <1>3, <1>6, <2>2, Zenon DEF full
<1>8. relayed' \in Seq(Replies) /\ (whole => Carries(down', relayed', ReplyPack))
  <2>1. CASE whole
    <3>1. ReplyLengths = [i \in DOMAIN relayed |-> Len(ReplyPack[relayed[i]])]
      BY <1>2, ReplyLengthsLemma
    <3>2. CarriesAfter(down, Replies, relayed, ReplyPack, ReplyLengths, k)
      BY <1>2, <2>1, <3>1, ReplyPackFacts, CarriesRest
    <3>. QED
      BY <1>3, <2>1, <3>2, Zenon DEF CarriesAfter
  <2>2. CASE ~ whole
    <3>1. <<>> \in Seq(Replies)
      OBVIOUS
    <3>. QED
      BY <1>3, <2>2, <3>1, Zenon
  <2>. QED
    BY <2>1, <2>2
<1>9. /\ inStep' \in [up : BOOLEAN, down : BOOLEAN]
      /\ inStep'.down => whole
      /\ inStep'.up = inStep.up
  <2>. DEFINE b == whole
  <2>1. b \in BOOLEAN
    OBVIOUS
  <2>. HIDE DEF b
  <2>2. inStep' = [inStep EXCEPT !.down = b]
    BY <1>3, Zenon DEF b
  <2>3. /\ inStep' \in [up : BOOLEAN, down : BOOLEAN]
        /\ inStep'.down = b /\ inStep'.up = inStep.up
    BY <1>2, <2>1, <2>2
  <2>. QED
    BY <2>3, Zenon DEF b
<1>10. RequestDecoded' /\ ReplyDecoded'
  <2>1. CASE k < ReplyLengths[1]
    <3>1. decoded' = None
      BY <1>3, <2>1, Zenon
    <3>2. None.of # "request" /\ None.of # "reply"
      BY DEF None
    <3>. QED
      BY <3>1, <3>2, Zenon DEF RequestDecoded, ReplyDecoded
  <2>2. CASE ~ (k < ReplyLengths[1])
    <3>1. k >= ReplyLengths[1]
      BY <1>5, <1>6, <2>2
    <3>2. decoded' = [of |-> "reply", want |-> relayed[1], got |-> GotReply(full)]
      BY <1>3, <2>2, Zenon DEF full
    <3>3. /\ decoded'.of = "reply" /\ "request" # "reply"
          /\ decoded'.got = GotReply(full) /\ decoded'.want = relayed[1]
      BY <3>2
    <3>. QED
      BY <1>6, <3>1, <3>3, Zenon DEF RequestDecoded, ReplyDecoded
  <2>. QED
    BY <2>1, <2>2
<1>11. TypeInv'
  BY <1>2, <1>4, <1>7, <1>8, <1>9, Zenon DEF TypeInv
<1>12. StreamInv'
  BY <1>1, <1>4, <1>8, <1>9, Zenon DEF StreamInv
<1>13. RelayFits'
  BY <1>4, Zenon DEF IInv, RelayFits
<1>. QED
  BY <1>10, <1>11, <1>12, <1>13, Zenon DEF IInv

-------------------------------------------------------------------------------

LEMMA Invariance == Spec => []IInv
<1>1. Init => IInv
  <2>. SUFFICES ASSUME Init PROVE IInv
    OBVIOUS
  <2>1. /\ up = <<>> /\ down = <<>> /\ asked = <<>> /\ relayed = <<>> /\ buffer = <<>>
        /\ inStep = [up |-> TRUE, down |-> TRUE] /\ decoded = None /\ copied = None
    BY Zenon DEF Init
  <2>2. /\ <<>> \in Seq(Bytes) /\ <<>> \in Seq(Asks) /\ <<>> \in Seq(Replies)
        /\ [up |-> TRUE, down |-> TRUE] \in [up : BOOLEAN, down : BOOLEAN]
    OBVIOUS
  <2>3. TypeInv
    BY <2>1, <2>2, Zenon DEF TypeInv
  <2>4. StreamInv
    BY <2>1, RequestPackFacts, ReplyPackFacts, NothingCarried, Zenon DEF StreamInv
  <2>5. None.of # "request" /\ None.of # "reply"
    BY DEF None
  <2>6. RequestDecoded /\ ReplyDecoded /\ RelayFits
    BY <2>1, <2>5, Zenon DEF RequestDecoded, ReplyDecoded, RelayFits
  <2>. QED
    BY <2>3, <2>4, <2>6, Zenon DEF IInv
<1>2. IInv /\ [Next]_vars => IInv'
  <2>. SUFFICES ASSUME IInv, [Next]_vars PROVE IInv'
    OBVIOUS
  <2>1. CASE Type
    BY <2>1, TypeStep
  <2>2. CASE ServerRead
    BY <2>2, ServerStep
  <2>3. CASE ClientRead
    BY <2>3, ClientStep
  <2>4. CASE UNCHANGED vars
    BY <2>4, ZenonT(60) DEF vars, IInv, TypeInv, StreamInv, RequestDecoded, ReplyDecoded,
                       RelayFits
  <2>. QED
    BY <2>1, <2>2, <2>3, <2>4, Zenon DEF Next
<1>. QED
  BY <1>1, <1>2, PTL DEF Spec

\* Whatever the server has of a read that holds all of a request is that request:
\* for every text, channel and way the reads cut the stream.
THEOREM RequestsCorrect == Spec => []RequestDecoded
<1>1. IInv => RequestDecoded
  BY Zenon DEF IInv
<1>. QED
  BY <1>1, Invariance, PTL

\* So it is with a relayed message in the other client's buffer, which is not
\* cleared between two reads.
THEOREM RepliesCorrect == Spec => []ReplyDecoded
<1>1. IInv => ReplyDecoded
  BY Zenon DEF IInv
<1>. QED
  BY <1>1, Invariance, PTL

\* The room for a relayed text, added up in 8 bits, suffices exactly if the text
\* with its prefix and zero is shorter than 256 bytes.
THEOREM RelayCorrect == Spec => []RelayFits
<1>1. IInv => RelayFits
  BY Zenon DEF IInv
<1>. QED
  BY <1>1, Invariance, PTL

\* The server takes the descriptors typed after &create from their text as they
\* were typed, when each is a single digit: for every list of them that the
\* client's copy of the line has room for, and however the stream is cut.
THEOREM ListsCorrect == Spec => []CreateListDecoded
<1>1. IInv => CreateListDecoded
  <2>. SUFFICES ASSUME IInv, NEW list \in Lists, decoded.of = "request",
                       decoded.want.text = ListText(list),
                       \A i \in DOMAIN list : list[i] < 10
                PROVE  Listed(decoded.got.text) = list
    BY Zenon DEF CreateListDecoded
  <2>1. list \in Seq(0 .. 99)
    BY PacketsAssumption DEF PacketsAssumption
  <2>2. decoded.got = decoded.want
    BY Zenon DEF IInv, RequestDecoded
  <2>3. Listed(ListText(list)) = list <=> \A i \in DOMAIN list : list[i] < 10
    BY <2>1, ListedLemma, Zenon
  <2>. QED
    BY <2>2, <2>3, Zenon
<1>. QED
  BY <1>1, Invariance, PTL
================================================================================
