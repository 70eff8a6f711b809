--------------------------- MODULE MessagesProofs ---------------------------
(***************************************************************************)
(* The laws of the generated code, for every message type of at most 15    *)
(* fields, whose tags are one byte, and every well-formed message of it.   *)
(*                                                                         *)
(* A field that was written is read back as the token it was written from  *)
(* (varints, fixed64, bytes): so parsing bytes behind a written message    *)
(* goes on from that message merged into the object.  That is proved for   *)
(* messages without embedded ones, then for a field that holds one, then   *)
(* for all.  What is parsed from any bytes is well-formed again: the bytes *)
(* that are left bound what an embedded message may still grow by.         *)
(*                                                                         *)
(* Fields, MergeAll and the sums are functions defined by recursion on     *)
(* numbers or on shorter sequences.  What they are is shown by induction,  *)
(* for the set of the numbers for which it holds (SetInduction below).     *)
(*                                                                         *)
(* A parameter that is a sequence, a function or a record is kept opaque   *)
(* behind a predicate (IsRun, IsSum, HasShape, ...) where lemmas use it.   *)
(***************************************************************************)
EXTENDS Messages, WellFoundedInduction, TLAPS

(* Induction, and functions defined by recursion. *)

LEMMA LeastElement ==
  ASSUME NEW T, T \subseteq Nat, T # {}
  PROVE \E n \in T : \A m \in T : n <= m
<1>1. IsWellFoundedOn(OpToRel(<, Nat), Nat)
  BY NatLessThanWellFounded
<1>2. PICK x \in T : \A y \in T : ~ (<<y, x>> \in OpToRel(<, Nat))
  BY <1>1, WFMin
<1>3. \A u, y \in Nat : y < u => <<y, u>> \in OpToRel(<, Nat)
  BY DEF OpToRel
<1>4. \A y \in T : ~ (y < x)
  BY <1>2, <1>3
<1>5. \A y \in T : x <= y
  BY <1>4
<1>. QED
  BY <1>5

LEMMA SetInduction ==
  ASSUME NEW T, 0 \in T, \A n \in Nat : n \in T => n + 1 \in T
  PROVE Nat \subseteq T
<1>. DEFINE U == Nat \ T
<1>1. SUFFICES ASSUME U # {} PROVE FALSE
  OBVIOUS
<1>2. PICK n \in U : \A m \in U : n <= m
  BY <1>1, LeastElement
<1>3. n # 0 /\ n - 1 \in Nat
  BY <1>2
<1>4. n - 1 \notin U
  BY <1>2, <1>3
<1>. QED
  BY <1>2, <1>3, <1>4

LEMMA RangeInduction ==
  ASSUME NEW N \in Nat, NEW T, 0 \in T, \A n \in 1..N : n - 1 \in T => n \in T
  PROVE 0..N \subseteq T
<1>. DEFINE U == {n \in Nat : n <= N => n \in T}
<1>1. 0 \in U
  OBVIOUS
<1>2. \A n \in Nat : n \in U => n + 1 \in U
  OBVIOUS
<1>3. Nat \subseteq U
  <2>. HIDE DEF U
  <2>. QED BY <1>1, <1>2, SetInduction
<1>. QED
  BY <1>3

\* f[0] = a and f[n] = S[n][f[n-1]], up to N.
IsRecursion(f, N, X, a, S) ==
    f \in [0..N -> X] /\ f[0] = a /\ \A n \in 1..N : f[n] = S[n][f[n - 1]]

Steps(S, N, X) == S \in [1..N -> [X -> X]]

LEMMA Recursion ==
  ASSUME NEW N \in Nat, NEW X, NEW a \in X, NEW S, Steps(S, N, X)
  PROVE \E f : IsRecursion(f, N, X, a, S)
<1>. USE DEF Steps, IsRecursion
<1>. DEFINE IsPart(g, n) == g \in [0..n -> X] /\ g[0] = a /\ \A i \in 1..n : g[i] = S[i][g[i-1]]
            T == {n \in 0..N : \E g : IsPart(g, n)}
<1>1. 0 \in T
  <2>. DEFINE h == [i \in 0..0 |-> a]
  <2>1. IsPart(h, 0)
    OBVIOUS
  <2>. HIDE DEF h
  <2>2. \E g : IsPart(g, 0)
    BY <2>1
  <2>. QED BY <2>2
<1>2. ASSUME NEW n \in 1..N, n - 1 \in T PROVE n \in T
  <2>1. PICK g : IsPart(g, n - 1)
    BY <1>2
  <2>. DEFINE h == [i \in 0..n |-> IF i < n THEN g[i] ELSE S[n][g[n-1]]]
  <2>2. S[n] \in [X -> X] /\ g[n-1] \in X
    BY <2>1
  <2>3. h \in [0..n -> X]
    BY <2>1, <2>2
  <2>4. h[0] = a
    BY <2>1
  <2>5. ASSUME NEW i \in 1..n PROVE h[i] = S[i][h[i-1]]
    <3>1. CASE i < n
      <4>1. i \in 1..(n-1) /\ i - 1 < n /\ i - 1 \in 0..n
        BY <3>1
      <4>. QED BY <4>1, <2>1, <3>1
    <3>2. CASE i = n
      BY <3>2
    <3>. QED BY <3>1, <3>2
  <2>6. IsPart(h, n)
    BY <2>3, <2>4, <2>5
  <2>. HIDE DEF h
  <2>7. \E k : IsPart(k, n)
    BY <2>6
  <2>. QED BY <2>7
<1>3. 0..N \subseteq T
  <2>. HIDE DEF T
  <2>. QED BY <1>1, <1>2, RangeInduction
<1>4. PICK f : IsPart(f, N)
  BY <1>3
<1>. QED BY <1>4

LEMMA FlattenFacts ==
  ASSUME NEW X, NEW s \in Seq(Seq(X))
  PROVE \E g \in [0..Len(s) -> Seq(X)] :
           /\ g[0] = <<>> /\ g[Len(s)] = FlattenSeq(s)
           /\ \A n \in 1..Len(s) : g[n] = g[n-1] \o s[n]
<1>1. CASE Len(s) = 0
  <2>1. FlattenSeq(s) = <<>>
    BY <1>1 DEF FlattenSeq
  <2>. DEFINE h == [i \in 0..0 |-> <<>>]
  <2>2. h \in [0..0 -> Seq(X)] /\ h[0] = <<>>
    OBVIOUS
  <2>. HIDE DEF h
  <2>. QED BY <1>1, <2>1, <2>2
<1>2. CASE Len(s) # 0
  <2>. DEFINE N == Len(s)
              S == [n \in 1..N |-> [c \in Seq(X) |-> c \o s[n]]]
              E(f) == f = [i \in 1..N |-> IF i = 1 THEN s[i] ELSE f[i-1] \o s[i]]
              flatten[i \in 1..N] == IF i = 1 THEN s[i] ELSE flatten[i-1] \o s[i]
  <2>1. N \in Nat \ {0} /\ \A n \in 1..N : s[n] \in Seq(X)
    BY <1>2
  <2>2. S \in [1..N -> [Seq(X) -> Seq(X)]]
    BY <2>1
  <2>. DEFINE Q == Seq(X)
              e == <<>>
  <2>3. PICK g \in [0..N -> Q] : g[0] = e /\ \A n \in 1..N : g[n] = S[n][g[n-1]]
    <3>1. N \in Nat /\ e \in Q /\ S \in [1..N -> [Q -> Q]]
      BY <2>1, <2>2
    <3>. HIDE DEF S, N, E, flatten, Q, e
    <3>2. \E g : IsRecursion(g, N, Q, e, S)
      BY <3>1, Recursion DEF Steps
    <3>. QED BY <3>2 DEF IsRecursion
  <2>4. \A n \in 1..N : g[n] = g[n-1] \o s[n]
    <3>1. \A n \in 1..N : n - 1 \in 0..N
      BY <2>1
    <3>2. \A n \in 1..N : g[n] = S[n][g[n-1]] /\ g[n-1] \in Seq(X)
      BY <2>3, <3>1
    <3>. QED BY <3>2
  <2>5. g[0] = <<>>
    BY <2>3
  <2>. DEFINE h == [i \in 1..N |-> g[i]]
  <2>6. E(h)
    <3>1. ASSUME NEW i \in 1..N PROVE h[i] = IF i = 1 THEN s[i] ELSE h[i-1] \o s[i]
      <4>1. g[i] = g[i-1] \o s[i] /\ s[i] \in Seq(X) /\ h[i] = g[i]
        BY <2>1, <2>4
      <4>2. CASE i = 1
        <5>1. g[1-1] = <<>>
          BY <2>5
        <5>2. <<>> \o s[1] = s[1]
          BY <4>1, <4>2
        <5>. QED BY <4>1, <4>2, <5>1, <5>2
      <4>3. CASE i # 1
        <5>1. i - 1 \in 1..N
          BY <4>3, <2>1
        <5>2. h[i-1] = g[i-1]
          BY <5>1
        <5>. QED BY <4>1, <4>3, <5>2
      <4>. QED BY <4>2, <4>3
    <3>. QED BY <3>1
  <2>7. E(flatten)
    <3>1. flatten = CHOOSE f : E(f)
      OBVIOUS
    <3>. HIDE DEF flatten, E, h
    <3>. QED BY <3>1, <2>6
  <2>8. FlattenSeq(s) = flatten[N]
    BY <1>2 DEF FlattenSeq
  <2>. HIDE DEF flatten, N
  <2>9. \A i \in 0..N : i > 0 => flatten[i] = g[i]
    <3>. DEFINE T == {i \in 0..N : i > 0 => flatten[i] = g[i]}
    <3>1. 0 \in T
      BY <2>1
    <3>2. ASSUME NEW n \in 1..N, n - 1 \in T PROVE n \in T
      <4>1. flatten[n] = IF n = 1 THEN s[n] ELSE flatten[n-1] \o s[n]
        BY <2>7
      <4>2. g[n] = g[n-1] \o s[n] /\ g[n] = h[n]
        BY <2>4
      <4>3. h[n] = IF n = 1 THEN s[n] ELSE h[n-1] \o s[n]
        BY <2>6
      <4>4. ASSUME n = 1 PROVE flatten[n] = g[n]
        BY <4>1, <4>2, <4>3, <4>4, <2>1
      <4>5. ASSUME n # 1 PROVE flatten[n] = g[n]
        <5>1. n - 1 > 0 /\ n - 1 \in 1..N /\ n \in 1..N
          BY <2>1, <4>5
        <5>2. flatten[n-1] = g[n-1]
          BY <5>1, <3>2
        <5>. QED BY <4>1, <4>2, <4>5, <5>2
      <4>6. flatten[n] = g[n]
        BY <4>4, <4>5
      <4>. QED BY <4>6
    <3>3. 0..N \subseteq T
      <4>. HIDE DEF T, N
      <4>. QED BY <2>1, <3>1, <3>2, RangeInduction
    <3>. QED BY <3>3
  <2>10. g[N] = FlattenSeq(s)
    BY <2>1, <2>8, <2>9
  <2>. QED BY <2>3, <2>4, <2>5, <2>10 DEF N
<1>. QED BY <1>1, <1>2

-----------------------------------------------------------------------------
(* Varints. *)

LEMMA Digits ==
    ASSUME NEW v \in Nat, v < Limit
    PROVE  /\ v = (v % 128) + 128 * ((v \div 128) % 128) + 16384 * ((v \div 16384) % 128)
                  + 2097152 * (v \div 2097152)
           /\ v \div 2097152 \in 0..127
           /\ v < 2097152 => v \div 16384 \in 0..127
           /\ v < 16384 => v \div 128 \in 0..127
BY SMT DEF Limit

LEMMA LowByte ==
    ASSUME NEW v \in Nat
    PROVE  Low(v) \in Byte /\ Low(v) >= 128 /\ Low(v) % 128 = v % 128
BY SMT DEF Low, Byte

LEMMA ByteFacts ==
    ASSUME NEW b \in Seq(Byte), NEW k \in Nat, k >= 1, k <= Len(b)
    PROVE  b[k] \in Nat /\ b[k] <= 255 /\ b[k] % 128 \in 0..127
<1>1. b[k] \in Byte
  OBVIOUS
<1>2. \A x \in Byte : x \in Nat /\ x <= 255 /\ x % 128 \in 0..127
  BY DEF Byte
<1>. QED
  BY <1>1, <1>2

LEMMA VarintBytes ==
    ASSUME NEW v \in Nat, v < Limit
    PROVE  /\ Varint(v) \in Seq(Byte)
           /\ Len(Varint(v)) = VarintSize(v)
           /\ VarintSize(v) \in 1..4
           /\ EndsAfter(Varint(v), VarintSize(v))
<1>1. v \div 128 \in Nat /\ v \div 16384 \in Nat
  BY SMT
<1>2. ASSUME NEW n \in 0..127
      PROVE  n \in Byte /\ n < 128
  BY DEF Byte
<1>3. CASE v < 128
  <2>1. v \in Byte
    BY <1>3 DEF Byte
  <2>. QED
    BY <1>3, <2>1, SMT DEF Varint, VarintSize, EndsAfter
<1>4. CASE v >= 128 /\ v < 16384
  <2>1. Varint(v) = <<Low(v), v \div 128>> /\ VarintSize(v) = 2
    BY <1>4, SMT DEF Varint, VarintSize
  <2>2. v \div 128 \in 0..127 /\ Low(v) \in Byte /\ Low(v) >= 128
    BY <1>4, Digits, LowByte, SMT
  <2>. QED
    BY <1>2, <2>1, <2>2 DEF EndsAfter
<1>5. CASE v >= 16384 /\ v < 2097152
  <2>1. Varint(v) = <<Low(v), Low(v \div 128), v \div 16384>> /\ VarintSize(v) = 3
    BY <1>5, SMT DEF Varint, VarintSize
  <2>2. /\ v \div 16384 \in 0..127 /\ Low(v) \in Byte /\ Low(v) >= 128
        /\ Low(v \div 128) \in Byte /\ Low(v \div 128) >= 128
    BY <1>1, <1>5, Digits, LowByte, SMT
  <2>. QED
    BY <1>2, <2>1, <2>2 DEF EndsAfter
<1>6. CASE v >= 2097152
  <2>1. /\ Varint(v) = <<Low(v), Low(v \div 128), Low(v \div 16384), v \div 2097152>>
        /\ VarintSize(v) = 4
    BY <1>6, SMT DEF Varint, VarintSize
  <2>2. /\ v \div 2097152 \in 0..127 /\ Low(v) \in Byte /\ Low(v) >= 128
        /\ Low(v \div 128) \in Byte /\ Low(v \div 128) >= 128
        /\ Low(v \div 16384) \in Byte /\ Low(v \div 16384) >= 128
    BY <1>1, Digits, LowByte, SMT
  <2>. QED
    BY <1>2, <2>1, <2>2, SMT DEF EndsAfter
<1>. QED
  BY <1>3, <1>4, <1>5, <1>6, SMT

LEMMA EndsOnce ==
    ASSUME NEW b \in Seq(Byte), NEW n \in 1..10, EndsAfter(b, n)
    PROVE  ReadVarint(b) = VarintOf(b, n)
<1>1. ASSUME NEW k \in 1..10, EndsAfter(b, k)
      PROVE  k = n
  <2>1. /\ b[n] \in Nat /\ b[k] \in Nat /\ b[n] < 128 /\ b[k] < 128
        /\ \A i \in 1..(n - 1) : b[i] >= 128
        /\ \A i \in 1..(k - 1) : b[i] >= 128
    BY <1>1, ByteFacts DEF EndsAfter
  <2>2. ~(k < n) /\ ~(n < k)
    BY <2>1
  <2>. QED
    BY <2>2
<1>2. (CHOOSE k \in 1..10 : EndsAfter(b, k)) = n
  BY <1>1
<1>. QED
  BY <1>2 DEF ReadVarint

\* Bytes that begin alike.
Alike(b, c, n) ==
    /\ b \in Seq(Byte) /\ c \in Seq(Byte) /\ n \in Nat /\ n <= Len(b) /\ n <= Len(c)
    /\ \A i \in 1..n : b[i] = c[i]

LEMMA VarintTypes ==
    ASSUME NEW b \in Seq(Byte)
    PROVE  /\ ReadVarint(b) \in [ok : BOOLEAN, size : Nat, val : Nat]
           /\ ReadVarint(b).val < Limit
           /\ ReadVarint(b).ok => /\ ReadVarint(b).size \in 1..10
                                  /\ ReadVarint(b).size <= Len(b)
                                  /\ EndsAfter(b, ReadVarint(b).size)
                                  /\ VarintSize(ReadVarint(b).val) <= ReadVarint(b).size
<1>1. CASE \E n \in 1..10 : EndsAfter(b, n)
  <2>1. PICK n \in 1..10 : EndsAfter(b, n)
    BY <1>1
  <2>2. ReadVarint(b) = VarintOf(b, n)
    BY <2>1, EndsOnce
  <2>3. n <= Len(b)
    BY <2>1 DEF EndsAfter
  <2>4. ASSUME NEW k \in 1..4
        PROVE  Group(b, k, n) \in 0..127 /\ (k > n => Group(b, k, n) = 0)
    <3>1. CASE k <= n
      <4>1. k <= Len(b) /\ ~(k > n) /\ k \in Nat /\ k >= 1
        BY <2>3, <3>1
      <4>2. Group(b, k, n) = b[k] % 128
        BY <3>1 DEF Group
      <4>. QED
        BY <4>1, <4>2, ByteFacts
    <3>2. CASE ~(k <= n)
      BY <3>2, SMT DEF Group
    <3>. QED
      BY <3>1, <3>2
  <2>5. /\ VarintOf(b, n).val \in Nat /\ VarintOf(b, n).val < Limit
        /\ VarintSize(VarintOf(b, n).val) <= n
    <3>. DEFINE p == Group(b, 1, n)
                q == Group(b, 2, n)
                r == Group(b, 3, n)
                s == Group(b, 4, n)
    <3>1. /\ VarintOf(b, n).val = IF Overflows(b, n) THEN Limit - 1 ELSE Joined(p, q, r, s)
          /\ p \in 0..127 /\ q \in 0..127 /\ r \in 0..127 /\ s \in 0..127
          /\ n < 2 => q = 0
          /\ n < 3 => r = 0
          /\ n < 4 => s = 0
      BY <2>4 DEF VarintOf
    <3>. HIDE DEF p, q, r, s
    <3>2. /\ Joined(p, q, r, s) \in Nat /\ Joined(p, q, r, s) < Limit
          /\ VarintSize(Joined(p, q, r, s)) <= n
      BY <3>1, SMT DEF Joined, Limit, VarintSize
    <3>3. /\ Limit - 1 \in Nat /\ Limit - 1 < Limit
          /\ Overflows(b, n) => VarintSize(Limit - 1) <= n
      BY SMT DEF Limit, VarintSize, Overflows
    <3>. QED
      BY <3>1, <3>2, <3>3
  <2>6. VarintOf(b, n).ok = TRUE /\ VarintOf(b, n).size = n
        /\ VarintOf(b, n) = [ok |-> TRUE, size |-> n, val |-> VarintOf(b, n).val]
    BY DEF VarintOf
  <2>. DEFINE x == VarintOf(b, n).val
  <2>7. ReadVarint(b) = [ok |-> TRUE, size |-> n, val |-> x] /\ x \in Nat /\ x < Limit
        /\ VarintSize(x) <= n
    BY <2>2, <2>5, <2>6
  <2>. HIDE DEF x
  <2>. QED
    BY <2>1, <2>3, <2>7
<1>2. CASE ~ \E n \in 1..10 : EndsAfter(b, n)
  BY <1>2, SMT DEF ReadVarint, Limit
<1>. QED
  BY <1>1, <1>2

LEMMA VarintAlike ==
    ASSUME NEW b, NEW c, NEW n, Alike(b, c, n), ReadVarint(b).ok, ReadVarint(b).size <= n
    PROVE  ReadVarint(c) = ReadVarint(b)
<1>. DEFINE k == ReadVarint(b).size
<1>1. b \in Seq(Byte) /\ c \in Seq(Byte)
  BY DEF Alike
<1>2. k \in 1..10 /\ k <= Len(b) /\ EndsAfter(b, k)
  BY <1>1, VarintTypes
<1>. HIDE DEF k
<1>3. EndsAfter(c, k)
  BY <1>2, SMT DEF EndsAfter, Alike, k
<1>4. ReadVarint(b) = VarintOf(b, k) /\ ReadVarint(c) = VarintOf(c, k)
  BY <1>1, <1>2, <1>3, EndsOnce
<1>5. \A i \in 1..4 : Group(b, i, k) = Group(c, i, k)
  BY <1>2, SMT DEF Group, Alike, k
<1>6. Group(b, 1, k) = Group(c, 1, k) /\ Group(b, 2, k) = Group(c, 2, k)
      /\ Group(b, 3, k) = Group(c, 3, k) /\ Group(b, 4, k) = Group(c, 4, k)
  BY <1>5
<1>7. Overflows(b, k) = Overflows(c, k)
  BY <1>2, SMT DEF Overflows, Alike, k
<1>8. VarintOf(b, k) = VarintOf(c, k)
  BY <1>6, <1>7 DEF VarintOf
<1>. QED
  BY <1>4, <1>8

LEMMA VarintRead ==
    ASSUME NEW v \in Nat, v < Limit, NEW r \in Seq(Byte)
    PROVE  /\ ReadVarint(Varint(v) \o r) = [ok |-> TRUE, size |-> VarintSize(v), val |-> v]
<1>. DEFINE b == Varint(v)
<1>1. b \in Seq(Byte) /\ Len(b) = VarintSize(v) /\ EndsAfter(b, VarintSize(v)) /\ VarintSize(v) \in 1..4
  BY VarintBytes
<1>2. ReadVarint(b) = VarintOf(b, VarintSize(v))
  BY <1>1, EndsOnce
<1>3. VarintOf(b, VarintSize(v)).val = v
  <2>. DEFINE g == [k \in 1..4 |-> Group(b, k, VarintSize(v))]
  <2>1. VarintOf(b, VarintSize(v)).val = Joined(g[1], g[2], g[3], g[4])
    BY <1>1 DEF VarintOf, Overflows
  <2>2. /\ g[1] = v % 128
        /\ g[2] = (v \div 128) % 128
        /\ g[3] = (v \div 16384) % 128
        /\ g[4] = v \div 2097152
    <3>1. v \div 128 \in Nat /\ v \div 16384 \in Nat /\ v \div 2097152 \in Nat
      BY SMT
    <3>2. /\ Low(v) % 128 = v % 128 /\ Low(v \div 128) % 128 = (v \div 128) % 128
          /\ Low(v \div 16384) % 128 = (v \div 16384) % 128
      BY <3>1, LowByte, SMT
    <3>3. CASE v < 128
      BY <3>3, SMT DEF Group, Varint, VarintSize
    <3>4. CASE v >= 128 /\ v < 16384
      BY <3>2, <3>4, Digits, SMT DEF Group, Varint, VarintSize
    <3>5. CASE v >= 16384 /\ v < 2097152
      BY <3>2, <3>5, Digits, SMT DEF Group, Varint, VarintSize
    <3>6. CASE v >= 2097152
      <4>1. /\ b = <<Low(v), Low(v \div 128), Low(v \div 16384), v \div 2097152>>
            /\ VarintSize(v) = 4
        BY <3>6, SMT DEF Varint, VarintSize
      <4>2. (v \div 2097152) % 128 = v \div 2097152
        BY Digits, SMT
      <4>. HIDE DEF b
      <4>. QED
        BY <3>2, <4>1, <4>2, SMT DEF Group
    <3>. QED
      BY <3>3, <3>4, <3>5, <3>6, SMT
  <2>. HIDE DEF g, b
  <2>3. VarintOf(b, VarintSize(v)).val
          = (v % 128) + 128 * ((v \div 128) % 128) + 16384 * ((v \div 16384) % 128)
            + 2097152 * (v \div 2097152)
    BY <2>1, <2>2, SMT DEF Joined
  <2>. QED
    BY <2>3, Digits, SMT
<1>4. ReadVarint(b) = [ok |-> TRUE, size |-> VarintSize(v), val |-> v]
  <2>. DEFINE n == VarintSize(v)
  <2>1. VarintOf(b, n) = [ok |-> TRUE, size |-> n, val |-> VarintOf(b, n).val]
    BY DEF VarintOf
  <2>. QED
    BY <1>2, <1>3, <2>1
<1>. HIDE DEF b
<1>5. Alike(b, b \o r, VarintSize(v))
  BY <1>1 DEF Alike
<1>. QED
  BY <1>1, <1>4, <1>5, VarintAlike DEF b

-----------------------------------------------------------------------------
(* Fixed64 and the reading of a field. *)

\* The numbers of 64 bits.
IsFixed64(v) == v \in Nat /\ Above(Above(Above(Above(v)))) = 0

LEMMA WordFacts ==
    ASSUME NEW v \in Nat
    PROVE  /\ Word(v) \in Seq(Byte) /\ Len(Word(v)) = 2
           /\ Above(v) \in Nat /\ Below(WordAt(Word(v), 1), Above(v)) = v
           /\ Above(v) = 0 => WordAt(Word(v), 1) = v
<1>1. v % 256 \in Byte /\ (v \div 256) % 256 \in Byte
  BY SMT DEF Byte
<1>2. WordAt(Word(v), 1) = v % 65536
  <2>1. (v % 256) + 256 * ((v \div 256) % 256) = v % 65536
    BY SMT
  <2>. QED
    BY <2>1, SMT DEF Word, WordAt
<1>3. Above(v) \in Nat /\ v = (v % 65536) + 65536 * Above(v)
  BY SMT DEF Above
<1>4. Word(v) \in Seq(Byte) /\ Len(Word(v)) = 2
  BY <1>1 DEF Word
<1>. QED
  BY <1>2, <1>3, <1>4, SMT DEF Below

\* The numbers of two bytes.
IsWord(v) == v \in Nat /\ v < 65536

LEMMA AboveWord ==
    ASSUME NEW v, IsWord(v)
    PROVE  v \in Nat /\ Above(v) = 0
BY SMT DEF Above, IsWord

LEMMA AboveBelow ==
    ASSUME NEW v, NEW w \in Nat, IsWord(v)
    PROVE  Below(v, w) \in Nat /\ Above(Below(v, w)) = w
BY SMT DEF Above, Below, IsWord

\* Concatenation, position by position.
LEMMA Concat ==
    ASSUME NEW X, NEW b \in Seq(X), NEW c \in Seq(X)
    PROVE  /\ b \o c \in Seq(X)
           /\ Len(b \o c) = Len(b) + Len(c)
           /\ \A i \in 1..Len(b) : (b \o c)[i] = b[i]
           /\ \A i \in 1..Len(c) : (b \o c)[Len(b) + i] = c[i]
OBVIOUS

LEMMA Fixed64Bytes ==
    ASSUME NEW v, IsFixed64(v)
    PROVE  /\ Fixed64(v) \in Seq(Byte) /\ Len(Fixed64(v)) = 8
           /\ \A r \in Seq(Byte) : ReadFixed64(Fixed64(v) \o r) = v
<1>. DEFINE w == [i \in 1..4 |-> CASE i = 1 -> v [] i = 2 -> Above(v)
                                   [] i = 3 -> Above(Above(v))
                                   [] i = 4 -> Above(Above(Above(v)))]
<1>1. /\ w[1] = v /\ w[2] = Above(v) /\ w[3] = Above(Above(v))
      /\ w[4] = Above(Above(Above(v))) /\ Above(w[4]) = 0
      /\ w[1] \in Nat /\ w[2] \in Nat /\ w[3] \in Nat /\ w[4] \in Nat
  BY WordFacts DEF IsFixed64
<1>2. Fixed64(v) = Word(w[1]) \o Word(w[2]) \o Word(w[3]) \o Word(w[4])
  BY <1>1 DEF Fixed64
<1>. HIDE DEF w
<1>3. /\ Word(w[1]) \in Seq(Byte) /\ Len(Word(w[1])) = 2
      /\ Word(w[2]) \in Seq(Byte) /\ Len(Word(w[2])) = 2
      /\ Word(w[3]) \in Seq(Byte) /\ Len(Word(w[3])) = 2
      /\ Word(w[4]) \in Seq(Byte) /\ Len(Word(w[4])) = 2
  BY <1>1, WordFacts
<1>4. Fixed64(v) \in Seq(Byte) /\ Len(Fixed64(v)) = 8
  <2>1. /\ Word(w[1]) \o Word(w[2]) \in Seq(Byte)
        /\ Len(Word(w[1]) \o Word(w[2])) = 4
    <3>. DEFINE p == Word(w[1])
                q == Word(w[2])
    <3>1. p \in Seq(Byte) /\ Len(p) = 2 /\ q \in Seq(Byte) /\ Len(q) = 2
      BY <1>3
    <3>. HIDE DEF p, q
    <3>2. p \o q \in Seq(Byte) /\ Len(p \o q) = 4
      BY <3>1, Concat
    <3>. QED
      BY <3>2 DEF p, q
  <2>2. /\ Word(w[1]) \o Word(w[2]) \o Word(w[3]) \in Seq(Byte)
        /\ Len(Word(w[1]) \o Word(w[2]) \o Word(w[3])) = 6
    BY <1>3, <2>1, Concat
  <2>. QED
    BY <1>2, <1>3, <2>2, Concat
<1>5. ASSUME NEW r \in Seq(Byte)
      PROVE  ReadFixed64(Fixed64(v) \o r) = v
  <2>. DEFINE b == Fixed64(v) \o r
  <2>1. /\ b[1] = Word(w[1])[1] /\ b[2] = Word(w[1])[2]
        /\ b[3] = Word(w[2])[1] /\ b[4] = Word(w[2])[2]
        /\ b[5] = Word(w[3])[1] /\ b[6] = Word(w[3])[2]
        /\ b[7] = Word(w[4])[1] /\ b[8] = Word(w[4])[2]
    BY <1>2, <1>3
  <2>. HIDE DEF b
  <2>2. /\ WordAt(b, 1) = WordAt(Word(w[1]), 1) /\ WordAt(b, 3) = WordAt(Word(w[2]), 1)
        /\ WordAt(b, 5) = WordAt(Word(w[3]), 1) /\ WordAt(b, 7) = WordAt(Word(w[4]), 1)
    BY <2>1, SMT DEF WordAt
  <2>3. /\ w[2] = Above(w[1]) /\ w[3] = Above(w[2]) /\ w[4] = Above(w[3])
    BY <1>1
  <2>4. /\ WordAt(Word(w[4]), 1) = w[4]
        /\ Below(WordAt(Word(w[3]), 1), w[4]) = w[3]
        /\ Below(WordAt(Word(w[2]), 1), w[3]) = w[2]
        /\ Below(WordAt(Word(w[1]), 1), w[2]) = w[1]
    BY <1>1, <2>3, WordFacts
  <2>5. ReadFixed64(b) = w[1]
    BY <2>2, <2>4 DEF ReadFixed64
  <2>. QED
    BY <1>1, <2>5 DEF b
<1>. QED
  BY <1>4, <1>5

LEMMA WordAtTypes ==
    ASSUME NEW b \in Seq(Byte), NEW i \in Nat, i >= 1, i + 1 <= Len(b)
    PROVE  IsWord(WordAt(b, i))
<1>1. b[i] \in Nat /\ b[i] <= 255 /\ b[i + 1] \in Nat /\ b[i + 1] <= 255
  BY ByteFacts
<1>. QED
  BY <1>1, SMT DEF WordAt, IsWord

LEMMA Fixed64Types ==
    ASSUME NEW b \in Seq(Byte), Len(b) >= 8
    PROVE  IsFixed64(ReadFixed64(b))
<1>1. /\ IsWord(WordAt(b, 1)) /\ IsWord(WordAt(b, 3))
      /\ IsWord(WordAt(b, 5)) /\ IsWord(WordAt(b, 7))
  BY WordAtTypes
<1>. DEFINE x == Below(WordAt(b, 5), WordAt(b, 7))
            y == Below(WordAt(b, 3), x)
            z == Below(WordAt(b, 1), y)
<1>2. x \in Nat /\ Above(x) = WordAt(b, 7)
  BY <1>1, AboveWord, AboveBelow
<1>. HIDE DEF x
<1>3. y \in Nat /\ Above(y) = x
  BY <1>1, <1>2, AboveBelow
<1>. HIDE DEF y
<1>4. z \in Nat /\ Above(z) = y
  BY <1>1, <1>3, AboveBelow
<1>5. z = ReadFixed64(b)
  BY DEF ReadFixed64, x, y
<1>. HIDE DEF z
<1>6. Above(WordAt(b, 7)) = 0
  BY <1>1, AboveWord
<1>. QED
  BY <1>2, <1>3, <1>4, <1>5, <1>6 DEF IsFixed64

-----------------------------------------------------------------------------
(* The field at the front of some bytes. *)

LEMMA Parts ==
    ASSUME NEW b \in Seq(Byte), NEW n \in 0..Len(b)
    PROVE  /\ UpTo(b, n) \in Seq(Byte) /\ Len(UpTo(b, n)) = n
           /\ \A i \in 1..n : UpTo(b, n)[i] = b[i]
           /\ Behind(b, n) \in Seq(Byte) /\ Len(Behind(b, n)) = Len(b) - n
           /\ \A i \in 1..(Len(b) - n) : Behind(b, n)[i] = b[n + i]
BY DEF UpTo, Behind

LEMMA Rest ==
    ASSUME NEW b \in Seq(Byte), NEW n \in 0..Len(b), NEW d, d = Len(b) - n
    PROVE  /\ Behind(b, n) \in Seq(Byte) /\ Len(Behind(b, n)) = d
           /\ \A i \in 1..d : Behind(b, n)[i] = b[n + i]
BY Parts

LEMMA Segment ==
    ASSUME NEW b \in Seq(Byte), NEW m \in Nat, NEW n \in Nat, m <= n, n <= Len(b)
    PROVE  /\ SubSeq(b, m + 1, n) \in Seq(Byte)
           /\ Len(SubSeq(b, m + 1, n)) = n - m
           /\ \A i \in 1..(n - m) : SubSeq(b, m + 1, n)[i] = b[m + i]
OBVIOUS

\* Two sequences are equal when they are so at every position.
LEMMA SameSeq ==
    ASSUME NEW X, NEW b \in Seq(X), NEW c \in Seq(X), Len(b) = Len(c),
           \A i \in 1..Len(b) : b[i] = c[i]
    PROVE  b = c
OBVIOUS

LEMMA AlikeParts ==
    ASSUME NEW b, NEW c, NEW n, Alike(b, c, n), NEW k \in Nat, k <= n
    PROVE  /\ Alike(Behind(b, k), Behind(c, k), n - k)
           /\ UpTo(b, k) = UpTo(c, k)
<1>1. /\ b \in Seq(Byte) /\ c \in Seq(Byte) /\ n \in Nat /\ n <= Len(b) /\ n <= Len(c)
      /\ \A i \in 1..n : b[i] = c[i]
      /\ k \in 0..Len(b) /\ k \in 0..Len(c)
  BY DEF Alike
<1>2. Alike(Behind(b, k), Behind(c, k), n - k)
  <2>1. /\ Behind(b, k) \in Seq(Byte) /\ Len(Behind(b, k)) = Len(b) - k
        /\ Behind(c, k) \in Seq(Byte) /\ Len(Behind(c, k)) = Len(c) - k
        /\ n - k \in Nat /\ n - k <= Len(b) - k /\ n - k <= Len(c) - k
    BY <1>1, Parts
  <2>2. ASSUME NEW i \in 1..(n - k)
        PROVE  Behind(b, k)[i] = Behind(c, k)[i]
    <3>1. i \in 1..(Len(b) - k) /\ i \in 1..(Len(c) - k) /\ k + i \in 1..n
      BY <1>1
    <3>. QED
      BY <1>1, <3>1, Parts
  <2>. QED
    BY <2>1, <2>2 DEF Alike
<1>3. UpTo(b, k) = UpTo(c, k)
  <2>1. /\ UpTo(b, k) \in Seq(Byte) /\ Len(UpTo(b, k)) = k
        /\ UpTo(c, k) \in Seq(Byte) /\ Len(UpTo(c, k)) = k
        /\ \A i \in 1..k : UpTo(b, k)[i] = UpTo(c, k)[i]
    BY <1>1, Parts
  <2>. QED
    BY <2>1, SameSeq
<1>. QED
  BY <1>2, <1>3

LEMMA AlikeSegment ==
    ASSUME NEW b, NEW c, NEW n \in Nat, Alike(b, c, n), NEW m \in Nat, m <= n
    PROVE  SubSeq(b, m + 1, n) = SubSeq(c, m + 1, n)
<1>. DEFINE p == SubSeq(b, m + 1, n)
            q == SubSeq(c, m + 1, n)
<1>1. /\ p \in Seq(Byte) /\ Len(p) = n - m /\ \A i \in 1..(n - m) : p[i] = b[m + i]
      /\ q \in Seq(Byte) /\ Len(q) = n - m /\ \A i \in 1..(n - m) : q[i] = c[m + i]
  BY Segment DEF Alike
<1>. HIDE DEF p, q
<1>2. ASSUME NEW i \in 1..(n - m)
      PROVE  p[i] = q[i]
  <2>1. m + i \in 1..n
    BY DEF Alike
  <2>. QED
    BY <1>1, <2>1 DEF Alike
<1>3. p = q
  <2>1. n - m \in Nat
    BY DEF Alike
  <2>. QED
    BY <1>1, <1>2, <2>1, SameSeq
<1>. QED
  BY <1>3 DEF p, q

(* The ways a field is read, by wire type: t is read from b, n is the size of
   its tag, of which v stands behind. *)
ReadAs(b, t, tag, v, n) ==
    \/ /\ tag.val % 8 = 0 /\ v.ok /\ n = tag.size + v.size
       /\ t = Token(b, tag, v.val, <<>>, n)
    \/ /\ tag.val % 8 = 1 /\ n = tag.size + 8 /\ n <= Len(b)
       /\ t = Token(b, tag, ReadFixed64(Behind(b, tag.size)), <<>>, n)
    \/ /\ tag.val % 8 = 2 /\ v.ok /\ n = tag.size + v.size + v.val /\ n <= Len(b)
       /\ t = Token(b, tag, 0, SubSeq(b, tag.size + v.size + 1, n), n)
    \/ /\ tag.val % 8 = 5 /\ n = tag.size + 4 /\ n <= Len(b)
       /\ t = Token(b, tag, 0, <<>>, n)

LEMMA FieldWays ==
    ASSUME NEW b \in Seq(Byte)
    PROVE  LET tag == ReadVarint(b)
               v   == ReadVarint(Behind(b, tag.size))
           IN  \/ ReadField(b) = Failure
               \/ tag.ok /\ tag.val >= 8 /\ \E n \in Nat : ReadAs(b, ReadField(b), tag, v, n)
<1>. DEFINE tag == ReadVarint(b)
            v   == ReadVarint(Behind(b, tag.size))
<1>1. /\ tag \in [ok : BOOLEAN, size : Nat, val : Nat]
      /\ tag.ok => tag.size \in 0..Len(b)
  BY VarintTypes
<1>2. tag.ok => v \in [ok : BOOLEAN, size : Nat, val : Nat]
  BY <1>1, Parts, VarintTypes
<1>3. ReadField(b) = ReadTagged(b, tag)
  BY DEF ReadField
<1>4. ReadTagged(b, tag) = IF ~tag.ok \/ tag.val < 8 THEN Failure ELSE ReadValue(b, tag, v)
  BY DEF ReadTagged
<1>. HIDE DEF tag, v
<1>5. CASE ~tag.ok \/ tag.val < 8
  BY <1>3, <1>4, <1>5 DEF tag, v
<1>6. CASE tag.ok /\ ~(tag.val < 8)
  <2>1. ReadField(b) = ReadValue(b, tag, v)
    BY <1>3, <1>4, <1>6
  <2>2. tag.size \in Nat /\ v.size \in Nat /\ v.val \in Nat /\ tag.val >= 8
    BY <1>1, <1>2, <1>6
  <2>3. CASE tag.val % 8 = 0 /\ v.ok
    <3>1. ReadField(b) = Token(b, tag, v.val, <<>>, tag.size + v.size)
      BY <2>1, <2>3 DEF ReadValue
    <3>. QED
      BY <1>6, <2>2, <2>3, <3>1 DEF ReadAs, tag, v
  <2>4. CASE tag.val % 8 = 1
    <3>1. ReadField(b) = ReadFixed(b, tag, tag.size, 8)
      BY <2>1, <2>4 DEF ReadValue
    <3>. QED
      BY <1>6, <2>2, <2>4, <3>1 DEF ReadAs, ReadFixed, tag, v
  <2>5. CASE tag.val % 8 = 2 /\ v.ok
    <3>1. ReadField(b) = ReadBytes(b, tag, v, tag.size + v.size)
      BY <2>1, <2>5 DEF ReadValue
    <3>. QED
      BY <1>6, <2>2, <2>5, <3>1 DEF ReadAs, ReadBytes, tag, v
  <2>6. CASE tag.val % 8 = 5
    <3>1. ReadField(b) = ReadFixed(b, tag, tag.size, 4)
      BY <2>1, <2>6 DEF ReadValue
    <3>. QED
      BY <1>6, <2>2, <2>6, <3>1 DEF ReadAs, ReadFixed, tag, v
  <2>7. CASE /\ ~(tag.val % 8 = 0 /\ v.ok) /\ ~(tag.val % 8 = 1)
             /\ ~(tag.val % 8 = 2 /\ v.ok) /\ ~(tag.val % 8 = 5)
    BY <2>1, <2>7 DEF ReadValue, tag, v
  <2>. QED
    BY <2>3, <2>4, <2>5, <2>6, <2>7
<1>. QED
  BY <1>5, <1>6

IsToken(t) ==
    /\ t \in [ok : BOOLEAN, num : Nat, wire : Nat, val : Nat, bytes : Seq(Byte), raw : Seq(Byte)]
    /\ IsFixed64(t.val) /\ (t.wire # 1 => t.val < Limit)
    /\ Len(t.bytes) < Limit

(* How many bytes a field has at least, by what was read from it. *)
IsCovered(t) ==
    /\ Len(t.raw) >= 2
    /\ t.wire = 0 => Len(t.raw) >= 1 + VarintSize(t.val)
    /\ t.wire = 1 => Len(t.raw) >= 9
    /\ t.wire = 2 => Len(t.raw) >= 1 + VarintSize(Len(t.bytes)) + Len(t.bytes)

LEMMA SmallIsFixed64 ==
    ASSUME NEW v \in Nat, v < Limit
    PROVE  IsFixed64(v)
BY SMT DEF IsFixed64, Above, Limit

LEMMA TokenParts ==
    ASSUME NEW b, NEW tag, NEW val, NEW bytes, NEW n, NEW t, t = Token(b, tag, val, bytes, n)
    PROVE  /\ t.ok /\ t.num = tag.val \div 8 /\ t.wire = tag.val % 8
           /\ t.val = val /\ t.bytes = bytes /\ t.raw = UpTo(b, n)
           /\ t = [ok |-> TRUE, num |-> t.num, wire |-> t.wire, val |-> t.val,
                   bytes |-> t.bytes, raw |-> t.raw]
BY DEF Token

LEMMA TokenTypes ==
    ASSUME NEW b \in Seq(Byte), NEW n \in 0..Len(b), NEW tag, tag.val \in Nat,
           NEW val, NEW bytes, NEW t, t = Token(b, tag, val, bytes, n),
           IsFixed64(t.val), t.wire # 1 => t.val < Limit,
           t.bytes \in Seq(Byte), Len(t.bytes) < Limit
    PROVE  IsToken(t) /\ Len(t.raw) = n /\ t.raw = UpTo(b, n)
<1>1. /\ t.ok /\ t.num = tag.val \div 8 /\ t.wire = tag.val % 8
      /\ t.val = val /\ t.bytes = bytes /\ t.raw = UpTo(b, n)
      /\ t = [ok |-> TRUE, num |-> t.num, wire |-> t.wire, val |-> t.val,
              bytes |-> t.bytes, raw |-> t.raw]
  BY TokenParts
<1>2. t.raw \in Seq(Byte) /\ Len(t.raw) = n
  BY <1>1, Parts
<1>3. t.num \in Nat /\ t.wire \in Nat
  BY <1>1, SMT
<1>4. IsToken(t)
  BY <1>1, <1>2, <1>3 DEF IsToken, IsFixed64
<1>. QED
  BY <1>1, <1>2, <1>4

LEMMA FieldTypes ==
    ASSUME NEW b \in Seq(Byte)
    PROVE  LET t == ReadField(b)
           IN  /\ IsToken(t)
               /\ t.ok => IsCovered(t) /\ Len(t.raw) <= Len(b) /\ t.raw = UpTo(b, Len(t.raw))
<1>. DEFINE t   == ReadField(b)
            tag == ReadVarint(b)
            c   == Behind(b, tag.size)
            v   == ReadVarint(c)
<1>1. CASE t = Failure
  <2>1. 0 < Limit
    BY SMT DEF Limit
  <2>2. IsFixed64(0)
    BY <2>1, SmallIsFixed64
  <2>3. IsToken(Failure) /\ ~Failure.ok
    BY <2>1, <2>2 DEF IsToken, Failure
  <2>. QED
    BY <1>1, <2>3
<1>2. CASE tag.ok /\ tag.val >= 8 /\ \E n \in Nat : ReadAs(b, t, tag, v, n)
  <2>1. PICK n \in Nat : ReadAs(b, t, tag, v, n)
    BY <1>2
  <2>2. tag.size \in Nat /\ tag.size >= 1 /\ tag.size \in 0..Len(b) /\ tag.val \in Nat
    BY <1>2, VarintTypes
  <2>3. c \in Seq(Byte) /\ Len(c) = Len(b) - tag.size
    BY <2>2, Parts
  <2>4. /\ v.val \in Nat /\ v.val < Limit /\ v.size \in Nat
        /\ v.ok => /\ v.size >= 1 /\ v.size <= Len(b) - tag.size
                   /\ VarintSize(v.val) <= v.size
    <3>1. /\ v \in [ok : BOOLEAN, size : Nat, val : Nat] /\ v.val < Limit
          /\ v.ok => /\ v.size \in 1..10 /\ v.size <= Len(c) /\ VarintSize(v.val) <= v.size
      BY <2>3, VarintTypes
    <3>. HIDE DEF v
    <3>. QED
      BY <2>3, <3>1
  <2>5. /\ 0 < Limit /\ IsFixed64(0) /\ IsFixed64(v.val) /\ Limit \in Nat
        /\ <<>> \in Seq(Byte) /\ Len(<<>>) < Limit
    <3>1. 0 < Limit /\ Limit \in Nat
      BY SMT DEF Limit
    <3>. QED
      BY <2>4, <3>1, SmallIsFixed64
  <2>6. VarintSize(v.val) \in Nat
    BY <2>4, SMT DEF VarintSize
  <2>. HIDE DEF t, tag, c, v
  <2>7. CASE /\ tag.val % 8 = 0 /\ v.ok /\ n = tag.size + v.size
             /\ t = Token(b, tag, v.val, <<>>, n)
    <3>1. n \in 0..Len(b) /\ n >= 2
      BY <2>2, <2>4, <2>7
    <3>2. n >= 1 + VarintSize(v.val)
      BY <2>2, <2>4, <2>6, <2>7
    <3>3. t.wire = 0 /\ t.val = v.val /\ t.bytes = <<>>
      BY <2>7, TokenParts
    <3>4. IsToken(t) /\ Len(t.raw) = n /\ t.raw = UpTo(b, n)
      <4>1. /\ IsFixed64(t.val) /\ t.val < Limit
            /\ t.bytes \in Seq(Byte) /\ Len(t.bytes) < Limit
        BY <2>4, <2>5, <3>3
      <4>. QED
        BY <2>2, <2>7, <3>1, <4>1, TokenTypes
    <3>5. IsCovered(t)
      BY <3>1, <3>2, <3>3, <3>4 DEF IsCovered
    <3>. QED
      BY <3>1, <3>4, <3>5 DEF t
  <2>8. CASE /\ tag.val % 8 = 1 /\ n = tag.size + 8 /\ n <= Len(b)
             /\ t = Token(b, tag, ReadFixed64(c), <<>>, n)
    <3>1. n \in 0..Len(b) /\ n >= 9 /\ Len(c) >= 8
      BY <2>2, <2>3, <2>8
    <3>2. IsFixed64(ReadFixed64(c))
      BY <2>3, <3>1, Fixed64Types
    <3>3. t.wire = 1 /\ t.val = ReadFixed64(c) /\ t.bytes = <<>>
      BY <2>8, TokenParts
    <3>4. IsToken(t) /\ Len(t.raw) = n /\ t.raw = UpTo(b, n)
      <4>1. /\ IsFixed64(t.val) /\ (t.wire # 1 => t.val < Limit)
            /\ t.bytes \in Seq(Byte) /\ Len(t.bytes) < Limit
        BY <2>5, <3>2, <3>3
      <4>. QED
        BY <2>2, <2>8, <3>1, <4>1, TokenTypes
    <3>5. IsCovered(t)
      BY <3>1, <3>3, <3>4 DEF IsCovered
    <3>. QED
      BY <3>1, <3>4, <3>5 DEF t
  <2>9. CASE /\ tag.val % 8 = 2 /\ v.ok /\ n = tag.size + v.size + v.val /\ n <= Len(b)
             /\ t = Token(b, tag, 0, SubSeq(b, tag.size + v.size + 1, n), n)
    <3>. DEFINE s == SubSeq(b, tag.size + v.size + 1, n)
    <3>1. n \in 0..Len(b) /\ n >= 2
      BY <2>2, <2>4, <2>9
    <3>2. n >= 1 + VarintSize(v.val) + v.val
      BY <2>2, <2>4, <2>6, <2>9
    <3>3. tag.size + v.size \in Nat /\ tag.size + v.size <= n
      BY <2>2, <2>4, <2>9
    <3>4. n - (tag.size + v.size) = v.val
      BY <2>2, <2>4, <2>9
    <3>5. s \in Seq(Byte) /\ Len(s) = v.val
      BY <3>1, <3>3, <3>4, Segment
    <3>. HIDE DEF s
    <3>6. t = Token(b, tag, 0, s, n)
      BY <2>9 DEF s
    <3>7. t.wire = 2 /\ t.val = 0 /\ t.bytes = s
      BY <2>9, <3>6, TokenParts
    <3>8. IsToken(t) /\ Len(t.raw) = n /\ t.raw = UpTo(b, n)
      BY <2>2, <2>4, <2>5, <3>1, <3>5, <3>6, <3>7, TokenTypes
    <3>9. IsCovered(t)
      BY <3>1, <3>2, <3>5, <3>7, <3>8 DEF IsCovered
    <3>. QED
      BY <3>1, <3>8, <3>9 DEF t
  <2>10. CASE /\ tag.val % 8 = 5 /\ n = tag.size + 4 /\ n <= Len(b)
              /\ t = Token(b, tag, 0, <<>>, n)
    <3>1. n \in 0..Len(b) /\ n >= 2
      BY <2>2, <2>10
    <3>2. t.wire = 5 /\ t.val = 0 /\ t.bytes = <<>>
      BY <2>10, TokenParts
    <3>3. IsToken(t) /\ Len(t.raw) = n /\ t.raw = UpTo(b, n)
      <4>1. /\ IsFixed64(t.val) /\ t.val < Limit
            /\ t.bytes \in Seq(Byte) /\ Len(t.bytes) < Limit
        BY <2>5, <3>2
      <4>. QED
        BY <2>2, <2>10, <3>1, <4>1, TokenTypes
    <3>4. IsCovered(t)
      BY <3>1, <3>2, <3>3 DEF IsCovered
    <3>. QED
      BY <3>1, <3>3, <3>4 DEF t
  <2>. QED
    BY <2>1, <2>7, <2>8, <2>9, <2>10 DEF ReadAs, c
<1>. QED
  BY <1>1, <1>2, FieldWays

(* A field that can be read is read in the same way wherever its bytes stand
   at the front. *)
LEMMA FieldAlike ==
    ASSUME NEW b, NEW c, ReadField(b).ok, Alike(b, c, Len(ReadField(b).raw))
    PROVE  ReadField(c) = ReadField(b)
<1>. DEFINE t   == ReadField(b)
            tag == ReadVarint(b)
            d   == Behind(b, tag.size)
            v   == ReadVarint(d)
            k   == Len(t.raw)
<1>1. b \in Seq(Byte) /\ c \in Seq(Byte) /\ k \in Nat /\ k <= Len(b) /\ k <= Len(c)
  BY DEF Alike
<1>2. t # Failure
  BY DEF Failure
<1>3. PICK n \in Nat : tag.ok /\ tag.val >= 8 /\ ReadAs(b, t, tag, v, n)
  BY <1>1, <1>2, FieldWays
<1>4. tag.size \in 1..10 /\ tag.size \in 0..Len(b) /\ tag.val \in Nat
  BY <1>1, <1>3, VarintTypes
<1>5. d \in Seq(Byte) /\ Len(d) = Len(b) - tag.size
  BY <1>1, <1>4, Parts
<1>6. /\ v.val \in Nat /\ v.size \in Nat
      /\ v.ok => v.size \in 1..10 /\ v.size <= Len(b) - tag.size
  BY <1>5, VarintTypes
<1>. HIDE DEF t, tag, d, v
<1>7. n <= Len(b)
  BY <1>3, <1>4, <1>6 DEF ReadAs
<1>8. t.raw = UpTo(b, n) /\ k = n
  <2>1. t.raw = UpTo(b, n)
    <3>1. \E val, bytes : t = Token(b, tag, val, bytes, n)
      BY <1>3 DEF ReadAs
    <3>. QED
      BY <3>1, TokenParts
  <2>. QED
    BY <1>1, <1>7, <2>1, Parts
<1>9. Alike(b, c, n) /\ n <= Len(c)
  BY <1>1, <1>8 DEF t
<1>10. ReadVarint(c) = tag
  <2>1. tag.size <= n
    BY <1>3, <1>4, <1>6 DEF ReadAs
  <2>. QED
    BY <1>3, <1>9, <2>1, VarintAlike DEF tag
<1>11. Alike(d, Behind(c, tag.size), n - tag.size)
  <2>1. tag.size <= n
    BY <1>3, <1>4, <1>6 DEF ReadAs
  <2>. QED
    BY <1>4, <1>9, <2>1, AlikeParts DEF d
<1>. DEFINE e == Behind(c, tag.size)
            w == ReadVarint(e)
<1>12. ASSUME v.ok, tag.size + v.size <= n
       PROVE  w = v
  <2>1. v.size <= n - tag.size
    BY <1>4, <1>6, <1>12
  <2>. QED
    BY <1>11, <1>12, <2>1, VarintAlike DEF v
<1>13. ReadField(c) = ReadValue(c, tag, w)
  <2>1. ~(tag.val < 8)
    BY <1>3, <1>4
  <2>. QED
    BY <1>3, <1>10, <2>1 DEF ReadField, ReadTagged
<1>14. UpTo(c, n) = UpTo(b, n)
  BY <1>9, AlikeParts
<1>15. \A val, bytes : Token(c, tag, val, bytes, n) = Token(b, tag, val, bytes, n)
  BY <1>14 DEF Token
<1>. HIDE DEF w, e
<1>16. ReadValue(c, tag, w) = t
  <2>1. CASE /\ tag.val % 8 = 0 /\ v.ok /\ n = tag.size + v.size
             /\ t = Token(b, tag, v.val, <<>>, n)
    <3>1. w = v
      BY <1>4, <1>6, <1>12, <2>1
    <3>. QED
      BY <1>15, <2>1, <3>1 DEF ReadValue
  <2>2. CASE /\ tag.val % 8 = 1 /\ n = tag.size + 8 /\ n <= Len(b)
             /\ t = Token(b, tag, ReadFixed64(d), <<>>, n)
    <3>1. ReadFixed64(e) = ReadFixed64(d)
      <4>1. \A i \in 1..8 : d[i] = e[i]
        BY <1>4, <1>11, <2>2 DEF Alike, e
      <4>. QED
        BY <4>1, SMT DEF ReadFixed64, WordAt
    <3>2. ReadValue(c, tag, w) = ReadFixed(c, tag, tag.size, 8)
      BY <2>2 DEF ReadValue
    <3>. QED
      BY <1>1, <1>4, <1>9, <1>15, <2>2, <3>1, <3>2 DEF ReadFixed, e
  <2>3. CASE /\ tag.val % 8 = 2 /\ v.ok /\ n = tag.size + v.size + v.val /\ n <= Len(b)
             /\ t = Token(b, tag, 0, SubSeq(b, tag.size + v.size + 1, n), n)
    <3>1. w = v /\ tag.size + v.size \in Nat /\ tag.size + v.size <= n
      BY <1>4, <1>6, <1>12, <2>3
    <3>. DEFINE m == tag.size + v.size
    <3>2. m \in Nat /\ m <= n /\ m + v.val = n /\ v.val \in Nat
      BY <1>6, <2>3, <3>1
    <3>3. ReadValue(c, tag, w) = ReadBytes(c, tag, v, m)
      BY <2>3, <3>1 DEF ReadValue
    <3>4. t = Token(b, tag, 0, SubSeq(b, m + 1, n), n)
      BY <2>3
    <3>. HIDE DEF m
    <3>5. SubSeq(b, m + 1, n) = SubSeq(c, m + 1, n)
      <4>1. Alike(b, c, n) /\ m \in Nat /\ m <= n
        BY <1>9, <3>2
      <4>. QED
        BY <4>1, AlikeSegment, Zenon
    <3>6. ~(m + v.val > Len(c))
      BY <1>1, <1>9, <3>2
    <3>7. ReadBytes(c, tag, v, m) = Token(c, tag, 0, SubSeq(c, m + 1, n), n)
      BY <3>2, <3>6 DEF ReadBytes
    <3>. QED
      BY <1>15, <3>3, <3>4, <3>5, <3>7
  <2>4. CASE /\ tag.val % 8 = 5 /\ n = tag.size + 4 /\ n <= Len(b)
             /\ t = Token(b, tag, 0, <<>>, n)
    <3>1. ReadValue(c, tag, w) = ReadFixed(c, tag, tag.size, 4)
      BY <2>4 DEF ReadValue
    <3>. QED
      BY <1>1, <1>4, <1>9, <1>15, <2>4, <3>1 DEF ReadFixed
  <2>. QED
    BY <1>3, <2>1, <2>2, <2>3, <2>4 DEF ReadAs, d
<1>. QED
  BY <1>13, <1>16 DEF t

-----------------------------------------------------------------------------
(* Reading back a field that was written. *)

Numbers == 1..15    \* field numbers whose tag is one byte

\* The tag of field k with wire type w, as it is read.
IsTag(x, k, w) == x \in Nat /\ x < 128 /\ x >= 8 /\ x \div 8 = k /\ x % 8 = w
Tag(x) == [ok |-> TRUE, size |-> 1, val |-> x]

LEMMA TagOf ==
    ASSUME NEW k \in Numbers, NEW w \in 0..7
    PROVE  IsTag(8 * k + w, k, w)
BY SMT DEF Numbers, IsTag

LEMMA TagRead ==
    ASSUME NEW x \in Nat, x < 128, x >= 8, NEW r \in Seq(Byte), NEW b, b = <<x>> \o r
    PROVE  /\ b \in Seq(Byte) /\ Len(b) = 1 + Len(r)
           /\ Behind(b, 1) = r
           /\ ReadField(b) = ReadValue(b, Tag(x), ReadVarint(r))
<1>. DEFINE tag == Tag(x)
<1>1. x \in Nat /\ x < 128 /\ x >= 8
  OBVIOUS
<1>2. x \in Byte /\ x < Limit
  <2>1. x < Limit
    BY <1>1, SMT DEF Limit
  <2>2. x \in Byte
    BY <1>1, SMT DEF Byte
  <2>. QED
    BY <2>1, <2>2
<1>3. Varint(x) = <<x>> /\ VarintSize(x) = 1
  BY <1>1, SMT DEF Varint, VarintSize
<1>4. b = <<x>> \o r
  OBVIOUS
<1>5. <<x>> \in Seq(Byte) /\ Len(<<x>>) = 1
  BY <1>2
<1>6. b \in Seq(Byte) /\ Len(b) = 1 + Len(r)
  BY <1>4, <1>5, Concat
<1>7. ReadVarint(b) = tag
  BY <1>1, <1>2, <1>3, <1>4, VarintRead DEF Tag
<1>8. Behind(b, 1) = r
  <2>1. \A i \in 1..Len(r) : b[1 + i] = r[i]
    BY <1>4, <1>5, Concat
  <2>2. /\ Behind(b, 1) \in Seq(Byte) /\ Len(Behind(b, 1)) = Len(r)
        /\ \A i \in 1..Len(r) : Behind(b, 1)[i] = b[1 + i]
    <3>1. 1 \in 0..Len(b) /\ Len(r) = Len(b) - 1
      BY <1>6
    <3>. QED
      BY <1>6, <3>1, Rest
  <2>. QED
    BY <2>1, <2>2, SameSeq
<1>9. ReadField(b) = ReadValue(b, tag, ReadVarint(r))
  <2>1. tag.ok /\ tag.size = 1 /\ ~(tag.val < 8)
    BY <1>1 DEF Tag
  <2>. HIDE DEF tag
  <2>. QED
    BY <1>7, <1>8, <2>1 DEF ReadField, ReadTagged
<1>. QED
  BY <1>6, <1>8, <1>9

LEMMA Whole ==
    ASSUME NEW b \in Seq(Byte)
    PROVE  UpTo(b, Len(b)) = b
<1>1. /\ UpTo(b, Len(b)) \in Seq(Byte) /\ Len(UpTo(b, Len(b))) = Len(b)
      /\ \A i \in 1..Len(b) : UpTo(b, Len(b))[i] = b[i]
  BY Parts
<1>. QED
  BY <1>1, SameSeq

\* What is read from a field: its number, wire type, value and bytes.
Reads(b, k, w, val, bytes) ==
    ReadField(b) = [ok |-> TRUE, num |-> k, wire |-> w, val |-> val, bytes |-> bytes, raw |-> b]

LEMMA ReadsVarint ==
    ASSUME NEW k, NEW v \in Nat, v < Limit,
           NEW x, IsTag(x, k, 0), NEW b, b = <<x>> \o Varint(v)
    PROVE  Reads(b, k, 0, v, <<>>) /\ b \in Seq(Byte) /\ Len(b) = 1 + VarintSize(v)
<1>. DEFINE tag == Tag(x)
<1>1. Varint(v) \in Seq(Byte) /\ Len(Varint(v)) = VarintSize(v)
  BY VarintBytes
<1>2. /\ b \in Seq(Byte) /\ Len(b) = 1 + VarintSize(v)
      /\ ReadField(b) = ReadValue(b, tag, ReadVarint(Varint(v)))
      /\ tag.val \div 8 = k /\ tag.val % 8 = 0 /\ tag.size = 1
  <2>1. /\ b \in Seq(Byte) /\ Len(b) = 1 + Len(Varint(v))
        /\ ReadField(b) = ReadValue(b, Tag(x), ReadVarint(Varint(v)))
    <3>1. x \in Nat /\ x < 128 /\ x >= 8
      BY DEF IsTag
    <3>. QED
      BY <1>1, <3>1, TagRead
  <2>2. Tag(x).val \div 8 = k /\ Tag(x).val % 8 = 0 /\ Tag(x).size = 1
    BY DEF IsTag, Tag
  <2>. QED
    BY <1>1, <2>1, <2>2
<1>3. ReadVarint(Varint(v)) = [ok |-> TRUE, size |-> VarintSize(v), val |-> v]
  <2>1. Varint(v) \o <<>> = Varint(v) /\ <<>> \in Seq(Byte)
    BY <1>1
  <2>. QED
    BY <2>1, VarintRead
<1>. HIDE DEF tag
<1>4. ReadField(b) = Token(b, tag, v, <<>>, Len(b))
  BY <1>2, <1>3 DEF ReadValue
<1>. QED
  BY <1>2, <1>4, Whole DEF Token, Reads

LEMMA ReadsFixed64 ==
    ASSUME NEW k, NEW v, IsFixed64(v), NEW x, IsTag(x, k, 1), NEW b, b = <<x>> \o Fixed64(v)
    PROVE  Reads(b, k, 1, v, <<>>) /\ b \in Seq(Byte) /\ Len(b) = 1 + 8
<1>. DEFINE tag == Tag(x)
<1>1. Fixed64(v) \in Seq(Byte) /\ Len(Fixed64(v)) = 8
  BY Fixed64Bytes
<1>2. /\ b \in Seq(Byte) /\ Len(b) = 1 + 8 /\ Behind(b, 1) = Fixed64(v)
      /\ ReadField(b) = ReadValue(b, tag, ReadVarint(Fixed64(v)))
      /\ tag.val \div 8 = k /\ tag.val % 8 = 1 /\ tag.size = 1
  <2>1. /\ b \in Seq(Byte) /\ Len(b) = 1 + Len(Fixed64(v)) /\ Behind(b, 1) = Fixed64(v)
        /\ ReadField(b) = ReadValue(b, Tag(x), ReadVarint(Fixed64(v)))
    <3>1. x \in Nat /\ x < 128 /\ x >= 8
      BY DEF IsTag
    <3>. QED
      BY <1>1, <3>1, TagRead
  <2>2. Tag(x).val \div 8 = k /\ Tag(x).val % 8 = 1 /\ Tag(x).size = 1
    BY DEF IsTag, Tag
  <2>. QED
    BY <1>1, <2>1, <2>2
<1>3. ReadFixed64(Fixed64(v)) = v
  <2>1. Fixed64(v) \o <<>> = Fixed64(v) /\ <<>> \in Seq(Byte)
    BY <1>1
  <2>. QED
    BY <2>1, Fixed64Bytes
<1>. HIDE DEF tag
<1>4. ReadField(b) = Token(b, tag, v, <<>>, Len(b))
  <2>1. ReadField(b) = ReadFixed(b, tag, 1, 8)
    BY <1>2 DEF ReadValue
  <2>. QED
    BY <1>2, <1>3, <2>1 DEF ReadFixed
<1>. QED
  BY <1>2, <1>4, Whole DEF Token, Reads

LEMMA ReadsBytes ==
    ASSUME NEW k, NEW s \in Seq(Byte), Len(s) < Limit,
           NEW x, IsTag(x, k, 2), NEW b, b = <<x>> \o Prefixed(s)
    PROVE  Reads(b, k, 2, 0, s) /\ b \in Seq(Byte) /\ Len(b) = 1 + LengthSize(Len(s))
<1>. DEFINE tag == Tag(x)
            y == Varint(Len(s))
            n == VarintSize(Len(s))
<1>1. y \in Seq(Byte) /\ Len(y) = n /\ n \in 1..4
  BY VarintBytes
<1>2. /\ y \o s \in Seq(Byte) /\ Len(y \o s) = n + Len(s)
      /\ \A i \in 1..Len(s) : (y \o s)[n + i] = s[i]
  <2>. HIDE DEF y, n
  <2>. QED
    BY <1>1, Concat
<1>3. /\ b \in Seq(Byte) /\ Len(b) = 1 + Len(y \o s) /\ Behind(b, 1) = y \o s
      /\ ReadField(b) = ReadValue(b, tag, ReadVarint(y \o s))
      /\ tag.val \div 8 = k /\ tag.val % 8 = 2 /\ tag.size = 1
  <2>. DEFINE r == y \o s
  <2>1. b = <<x>> \o r /\ r \in Seq(Byte)
    BY <1>2 DEF Prefixed
  <2>. HIDE DEF y, r
  <2>2. /\ b \in Seq(Byte) /\ Len(b) = 1 + Len(r) /\ Behind(b, 1) = r
        /\ ReadField(b) = ReadValue(b, Tag(x), ReadVarint(r))
    <3>1. x \in Nat /\ x < 128 /\ x >= 8
      BY DEF IsTag
    <3>. QED
      BY <2>1, <3>1, TagRead
  <2>3. Tag(x).val \div 8 = k /\ Tag(x).val % 8 = 2 /\ Tag(x).size = 1
    BY DEF IsTag, Tag
  <2>. QED
    BY <2>2, <2>3 DEF r
<1>4. ReadVarint(y \o s) = [ok |-> TRUE, size |-> n, val |-> Len(s)]
  BY VarintRead
<1>. HIDE DEF tag, y, n
<1>5. 1 + n \in Nat /\ 1 + n <= Len(b) /\ Len(b) - (1 + n) = Len(s) /\ Len(b) \in Nat
  BY <1>1, <1>2, <1>3
<1>6. SubSeq(b, (1 + n) + 1, Len(b)) = s
  <2>. DEFINE m == 1 + n
              p == SubSeq(b, m + 1, Len(b))
  <2>1. m \in Nat /\ m <= Len(b) /\ Len(b) - m = Len(s)
    BY <1>5
  <2>2. p \in Seq(Byte) /\ Len(p) = Len(s) /\ \A i \in 1..Len(s) : p[i] = b[m + i]
    <3>1. m \in 0..Len(b) /\ b \in Seq(Byte) /\ Len(s) = Len(b) - m
      BY <1>3, <1>5, <2>1
    <3>2. p = Behind(b, m)
      BY DEF Behind
    <3>. HIDE DEF m, p
    <3>. QED
      BY <3>1, <3>2, Rest
  <2>3. ASSUME NEW i \in 1..Len(s)
        PROVE  b[m + i] = s[i]
    <3>1. n + i \in 1..(Len(b) - 1) /\ 1 + (n + i) = m + i
      BY <1>1, <1>5
    <3>2. b[1 + (n + i)] = Behind(b, 1)[n + i]
      <4>1. 1 \in 0..Len(b)
        BY <1>1, <1>5
      <4>. DEFINE j == n + i
      <4>2. j \in 1..(Len(b) - 1) /\ 1 + j = 1 + (n + i)
        BY <3>1
      <4>. HIDE DEF j
      <4>3. Behind(b, 1)[j] = b[1 + j]
        BY <1>3, <4>1, <4>2, Parts
      <4>. QED
        BY <4>3 DEF j
    <3>. QED
      BY <1>2, <1>3, <3>1, <3>2
  <2>. HIDE DEF m, p
  <2>4. p = s
    BY <2>2, <2>3, SameSeq
  <2>. QED
    BY <2>4 DEF p, m
<1>7. ReadField(b) = Token(b, tag, 0, s, Len(b))
  <2>1. ReadField(b) = ReadBytes(b, tag, [ok |-> TRUE, size |-> n, val |-> Len(s)], 1 + n)
    BY <1>3, <1>4 DEF ReadValue
  <2>. DEFINE m == 1 + n
              v == [ok |-> TRUE, size |-> n, val |-> Len(s)]
  <2>2. m + v.val = Len(b) /\ ~(m + v.val > Len(b))
    BY <1>1, <1>5
  <2>3. ReadField(b) = ReadBytes(b, tag, v, m) /\ SubSeq(b, m + 1, Len(b)) = s
    BY <1>6, <2>1
  <2>. HIDE DEF m, v
  <2>. QED
    BY <2>2, <2>3 DEF ReadBytes
<1>8. Len(b) = 1 + LengthSize(Len(s))
  BY <1>1, <1>2, <1>3 DEF LengthSize, n
<1>. QED
  BY <1>3, <1>7, <1>8, Whole DEF Token, Reads

-----------------------------------------------------------------------------
(* The fields of some bytes: the recursion has a solution. *)

\* f[0] = a and f[n + 1] = s[f[n]].
IsIteration(f, X, a, s) ==
    f \in [Nat -> X] /\ f[0] = a /\ \A n \in Nat : f[n + 1] = s[f[n]]

LEMMA Iteration ==
    ASSUME NEW X, NEW a \in X, NEW s \in [X -> X]
    PROVE  \E f : IsIteration(f, X, a, s)
<1>. DEFINE S(N) == [n \in 1..N |-> s]
            h == [N \in Nat |-> CHOOSE g : IsRecursion(g, N, X, a, S(N))]
            f == [N \in Nat |-> h[N][N]]
<1>1. ASSUME NEW N \in Nat
      PROVE  /\ h[N] \in [0..N -> X] /\ h[N][0] = a
             /\ \A n \in 1..N : h[N][n] = s[h[N][n - 1]]
  <2>1. Steps(S(N), N, X)
    BY DEF Steps
  <2>2. \A n \in 1..N : S(N)[n] = s
    OBVIOUS
  <2>. HIDE DEF S
  <2>3. \E g : IsRecursion(g, N, X, a, S(N))
    BY <2>1, Recursion
  <2>4. IsRecursion(h[N], N, X, a, S(N))
    BY <2>3
  <2>. HIDE DEF h
  <2>. QED
    BY <2>2, <2>4 DEF IsRecursion
<1>. HIDE DEF h
<1>2. ASSUME NEW N \in Nat
      PROVE  h[N + 1][N] = h[N][N]
  <2>. DEFINE T == {n \in 0..N : h[N + 1][n] = h[N][n]}
  <2>1. 0 \in T
    BY <1>1
  <2>2. ASSUME NEW n \in 1..N, n - 1 \in T
        PROVE  n \in T
    <3>1. n \in 1..(N + 1) /\ n \in 0..N /\ N + 1 \in Nat
      OBVIOUS
    <3>2. h[N + 1][n] = s[h[N + 1][n - 1]] /\ h[N][n] = s[h[N][n - 1]]
      BY <1>1, <3>1
    <3>. QED
      BY <2>2, <3>1, <3>2
  <2>3. 0..N \subseteq T
    <3>. HIDE DEF T
    <3>. QED
      BY <2>1, <2>2, RangeInduction
  <2>. QED
    BY <2>3
<1>3. ASSUME NEW N \in Nat
      PROVE  f[N + 1] = s[f[N]]
  <2>1. N + 1 \in Nat /\ N + 1 \in 1..(N + 1) /\ (N + 1) - 1 = N
    OBVIOUS
  <2>2. h[N + 1][N + 1] = s[h[N + 1][(N + 1) - 1]]
    BY <1>1, <2>1
  <2>. QED
    BY <1>2, <2>1, <2>2
<1>4. f \in [Nat -> X] /\ f[0] = a
  <2>1. \A N \in Nat : h[N][N] \in X
    BY <1>1
  <2>2. h[0][0] = a
    BY <1>1
  <2>. QED
    BY <2>1, <2>2
<1>. HIDE DEF f
<1>5. IsIteration(f, X, a, s)
  BY <1>3, <1>4 DEF IsIteration
<1>. QED
  BY <1>5

Tokens == [ok : BOOLEAN, num : Nat, wire : Nat, val : Nat, bytes : Seq(Byte), raw : Seq(Byte)]

\* The fields of b, when those of what is behind its first field are known.
FieldsBy(g, b) ==
    IF b = <<>> THEN <<>>
    ELSE <<ReadField(b)>> \o
         (IF ReadField(b).ok THEN g[Behind(b, Len(ReadField(b).raw))] ELSE <<>>)

LEMMA BehindField ==
    ASSUME NEW b \in Seq(Byte)
    PROVE  /\ ReadField(b) \in Tokens
           /\ ReadField(b).ok =>
                 /\ Behind(b, Len(ReadField(b).raw)) \in Seq(Byte)
                 /\ Len(Behind(b, Len(ReadField(b).raw))) < Len(b)
<1>. DEFINE t == ReadField(b)
<1>1. IsToken(t) /\ (t.ok => IsCovered(t) /\ Len(t.raw) <= Len(b))
  BY FieldTypes
<1>. HIDE DEF t
<1>2. t \in Tokens
  BY <1>1 DEF IsToken, Tokens
<1>3. ASSUME t.ok
      PROVE  Behind(b, Len(t.raw)) \in Seq(Byte) /\ Len(Behind(b, Len(t.raw))) < Len(b)
  <2>. DEFINE n == Len(t.raw)
  <2>1. n \in 0..Len(b) /\ n >= 2
    BY <1>1, <1>2, <1>3 DEF IsCovered, Tokens
  <2>. HIDE DEF n
  <2>2. Behind(b, n) \in Seq(Byte) /\ Len(Behind(b, n)) = Len(b) - n
    BY <2>1, Parts
  <2>3. Len(Behind(b, n)) < Len(b)
    BY <2>1, <2>2
  <2>. QED
    BY <2>2, <2>3 DEF n
<1>. QED
  BY <1>2, <1>3 DEF t

LEMMA FieldsDefined ==
    /\ Fields \in [Seq(Byte) -> Seq(Tokens)]
    /\ \A b \in Seq(Byte) : Fields[b] = FieldsBy(Fields, b)
<1>. DEFINE X == [Seq(Byte) -> Seq(Tokens)]
            s == [g \in X |-> [b \in Seq(Byte) |-> FieldsBy(g, b)]]
            a == [b \in Seq(Byte) |-> <<>>]
<1>1. ASSUME NEW g \in X, NEW b \in Seq(Byte)
      PROVE  FieldsBy(g, b) \in Seq(Tokens)
  <2>. DEFINE t == ReadField(b)
  <2>1. t \in Tokens /\ (t.ok => Behind(b, Len(t.raw)) \in Seq(Byte))
    BY BehindField
  <2>. HIDE DEF t
  <2>2. <<t>> \in Seq(Tokens)
    BY <2>1
  <2>3. (IF t.ok THEN g[Behind(b, Len(t.raw))] ELSE <<>>) \in Seq(Tokens)
    BY <2>1
  <2>4. <<t>> \o (IF t.ok THEN g[Behind(b, Len(t.raw))] ELSE <<>>) \in Seq(Tokens)
    BY <2>2, <2>3, Concat
  <2>. QED
    BY <2>4 DEF FieldsBy, t
<1>2. s \in [X -> X] /\ a \in X
  BY <1>1
<1>3. \A g \in X : \A b \in Seq(Byte) : s[g][b] = FieldsBy(g, b)
  OBVIOUS
<1>4. PICK f : IsIteration(f, X, a, s)
  <2>. HIDE DEF X, s, a
  <2>. QED
    BY <1>2, Iteration
<1>5. /\ \A n \in Nat : f[n] \in X
      /\ \A n \in Nat : \A b \in Seq(Byte) : f[n + 1][b] = FieldsBy(f[n], b)
  <2>1. /\ \A n \in Nat : f[n] \in X
        /\ \A n \in Nat : f[n + 1] = s[f[n]]
    <3>. HIDE DEF X, s, a
    <3>. QED
      BY <1>4 DEF IsIteration
  <2>. HIDE DEF X, s
  <2>. QED
    BY <1>3, <2>1
<1>. HIDE DEF X, s, a
<1>6. ASSUME NEW n \in Nat, NEW b \in Seq(Byte), Len(b) < n
      PROVE  f[n + 1][b] = f[n][b]
  <2>. DEFINE T == {i \in Nat : \A c \in Seq(Byte) : Len(c) < i => f[i + 1][c] = f[i][c]}
  <2>1. 0 \in T
    OBVIOUS
  <2>2. ASSUME NEW i \in Nat, i \in T
        PROVE  i + 1 \in T
    <3>1. ASSUME NEW c \in Seq(Byte), Len(c) < i + 1
          PROVE  f[(i + 1) + 1][c] = f[i + 1][c]
      <4>1. f[(i + 1) + 1][c] = FieldsBy(f[i + 1], c) /\ f[i + 1][c] = FieldsBy(f[i], c)
        BY <1>5
      <4>. DEFINE d == Behind(c, Len(ReadField(c).raw))
      <4>2. ReadField(c).ok => f[i + 1][d] = f[i][d]
        <5>1. ReadField(c).ok => d \in Seq(Byte) /\ Len(d) < Len(c)
          BY BehindField
        <5>. HIDE DEF d
        <5>2. ReadField(c).ok => Len(d) < i
          BY <3>1, <5>1
        <5>. QED
          BY <2>2, <5>1, <5>2
      <4>3. FieldsBy(f[i + 1], c) = FieldsBy(f[i], c)
        BY <4>2 DEF FieldsBy
      <4>. QED
        BY <4>1, <4>3
    <3>. QED
      BY <3>1
  <2>3. Nat \subseteq T
    <3>. HIDE DEF T
    <3>. QED
      BY <2>1, <2>2, SetInduction
  <2>. QED
    BY <1>6, <2>3
<1>7. ASSUME NEW b \in Seq(Byte), NEW m \in Nat, Len(b) < m
      PROVE  f[m][b] = f[Len(b) + 1][b]
  <2>. DEFINE T == {i \in Nat : f[Len(b) + 1 + i][b] = f[Len(b) + 1][b]}
  <2>1. 0 \in T
    OBVIOUS
  <2>2. ASSUME NEW i \in Nat, i \in T
        PROVE  i + 1 \in T
    <3>. DEFINE j == Len(b) + 1 + i
    <3>1. j \in Nat /\ Len(b) < j /\ Len(b) + 1 + (i + 1) = j + 1
      OBVIOUS
    <3>. HIDE DEF j
    <3>2. f[j + 1][b] = f[j][b]
      BY <1>6, <3>1
    <3>. QED
      BY <2>2, <3>1, <3>2 DEF j
  <2>3. Nat \subseteq T
    <3>. HIDE DEF T
    <3>. QED
      BY <2>1, <2>2, SetInduction
  <2>4. m - (Len(b) + 1) \in Nat /\ Len(b) + 1 + (m - (Len(b) + 1)) = m
    BY <1>7
  <2>. QED
    BY <2>3, <2>4
<1>. DEFINE G == [b \in Seq(Byte) |-> f[Len(b) + 1][b]]
<1>8. ASSUME NEW b \in Seq(Byte)
      PROVE  G[b] = FieldsBy(G, b)
  <2>. DEFINE d == Behind(b, Len(ReadField(b).raw))
              n == Len(b)
  <2>1. f[n + 1][b] = FieldsBy(f[n], b)
    BY <1>5
  <2>2. ReadField(b).ok => f[n][d] = G[d]
    <3>1. ReadField(b).ok => d \in Seq(Byte) /\ Len(d) < n /\ n \in Nat
      BY BehindField
    <3>. HIDE DEF d, n
    <3>2. ReadField(b).ok => f[n][d] = f[Len(d) + 1][d]
      BY <1>7, <3>1
    <3>. QED
      BY <3>1, <3>2
  <2>3. FieldsBy(f[n], b) = FieldsBy(G, b)
    BY <2>2 DEF FieldsBy
  <2>. QED
    BY <2>1, <2>3
<1>9. G \in [Seq(Byte) -> Seq(Tokens)]
  <2>1. ASSUME NEW b \in Seq(Byte)
        PROVE  f[Len(b) + 1][b] \in Seq(Tokens)
    <3>1. Len(b) + 1 \in Nat
      OBVIOUS
    <3>2. f[Len(b) + 1] \in X
      BY <1>5, <3>1
    <3>. QED
      BY <3>2 DEF X
  <2>. QED
    BY <2>1
<1>. HIDE DEF G
<1>10. G = [b \in Seq(Byte) |-> FieldsBy(G, b)]
  BY <1>8, <1>9
<1>. DEFINE E(g) == g = [b \in Seq(Byte) |->
                            IF b = <<>> THEN <<>>
                            ELSE LET t == ReadField(b)
                                 IN  <<t>> \o (IF t.ok THEN g[Behind(b, Len(t.raw))] ELSE <<>>)]
<1>11. E(G)
  BY <1>10 DEF FieldsBy
<1>12. Fields = CHOOSE g : E(g)
  BY DEF Fields
<1>13. E(Fields)
  <2>. HIDE DEF E
  <2>. QED
    BY <1>11, <1>12
<1>14. Fields = [b \in Seq(Byte) |-> FieldsBy(Fields, b)]
  BY <1>13 DEF FieldsBy
<1>15. \A b \in Seq(Byte) : Fields[b] = FieldsBy(Fields, b)
  BY <1>14
<1>16. ASSUME NEW b \in Seq(Byte)
       PROVE  Fields[b] \in Seq(Tokens)
  <2>. DEFINE T == {i \in Nat : \A c \in Seq(Byte) : Len(c) < i => Fields[c] \in Seq(Tokens)}
  <2>1. 0 \in T
    OBVIOUS
  <2>2. ASSUME NEW i \in Nat, i \in T
        PROVE  i + 1 \in T
    <3>1. ASSUME NEW c \in Seq(Byte), Len(c) < i + 1
          PROVE  Fields[c] \in Seq(Tokens)
      <4>. DEFINE t == ReadField(c)
                  d == Behind(c, Len(t.raw))
      <4>1. t \in Tokens /\ (t.ok => d \in Seq(Byte) /\ Len(d) < Len(c))
        BY BehindField
      <4>2. Fields[c] = IF c = <<>> THEN <<>>
                        ELSE <<t>> \o (IF t.ok THEN Fields[d] ELSE <<>>)
        BY <1>15 DEF FieldsBy
      <4>. HIDE DEF t, d
      <4>3. t.ok => Fields[d] \in Seq(Tokens)
        <5>1. t.ok => Len(d) < i
          BY <3>1, <4>1
        <5>. QED
          BY <2>2, <4>1, <5>1
      <4>4. <<t>> \in Seq(Tokens)
        BY <4>1
      <4>5. (IF t.ok THEN Fields[d] ELSE <<>>) \in Seq(Tokens)
        BY <4>3
      <4>6. <<t>> \o (IF t.ok THEN Fields[d] ELSE <<>>) \in Seq(Tokens)
        BY <4>4, <4>5, Concat
      <4>. QED
        BY <4>2, <4>6
    <3>. QED
      BY <3>1
  <2>3. Nat \subseteq T
    <3>. HIDE DEF T
    <3>. QED
      BY <2>1, <2>2, SetInduction
  <2>4. Len(b) + 1 \in Nat /\ Len(b) < Len(b) + 1
    OBVIOUS
  <2>. QED
    BY <2>3, <2>4
<1>. QED
  BY <1>14, <1>15, <1>16

-----------------------------------------------------------------------------
(* What the fields do to a message, one after another. *)

Going(m)   == [m |-> m, ok |-> TRUE]
Failed(m)  == [m |-> m, ok |-> FALSE]
IsState(a) == a = Going(a.m) \/ a = Failed(a.m)

\* A field the type does not have.
Kept(m, t) == [m EXCEPT !.unknown = m.unknown \o t.raw]

LEMMA StateFacts ==
    ASSUME NEW m
    PROVE  /\ IsState(Going(m)) /\ Going(m).m = m /\ Going(m).ok
           /\ IsState(Failed(m)) /\ Failed(m).m = m /\ ~Failed(m).ok
BY DEF IsState, Going, Failed

LEMMA AbsorbFlatFacts ==
    ASSUME NEW T, NEW m, NEW t
    PROVE  /\ AbsorbFlat(T, Failed(m), t) = Failed(m)
           /\ ~t.ok => AbsorbFlat(T, Going(m), t) = Failed(m)
           /\ t.ok /\ Skips(T, t) =>
                AbsorbFlat(T, Going(m), t) = Going(Kept(m, t))
           /\ t.ok /\ ~Skips(T, t) =>
                AbsorbFlat(T, Going(m), t) = Going(Set(m, t.num, Value(T[t.num], t)))
BY DEF AbsorbFlat, Going, Failed, Kept

LEMMA AbsorbFlatStates ==
    ASSUME NEW T, NEW a, IsState(a), NEW t
    PROVE  IsState(AbsorbFlat(T, a, t))
<1>. DEFINE m == a.m
<1>1. a = Going(m) \/ a = Failed(m)
  BY DEF IsState
<1>. HIDE DEF m
<1>2. CASE a = Failed(m)
  BY <1>2, AbsorbFlatFacts, StateFacts
<1>3. CASE a = Going(m) /\ ~t.ok
  BY <1>3, AbsorbFlatFacts, StateFacts
<1>4. CASE a = Going(m) /\ t.ok /\ Skips(T, t)
  BY <1>4, AbsorbFlatFacts, StateFacts
<1>5. CASE a = Going(m) /\ t.ok /\ ~Skips(T, t)
  BY <1>5, AbsorbFlatFacts, StateFacts
<1>. QED
  BY <1>1, <1>2, <1>3, <1>4, <1>5

\* The states before the fields of ts are absorbed, one after another.
IsFlatRun(f, m, ts) ==
    /\ DOMAIN f = 0..Len(ts) /\ f[0] = Going(m)
    /\ \A n \in 1..Len(ts) : f[n] = AbsorbFlat(Embedded, f[n - 1], ts[n])

IsRun(f, T, m, ts) ==
    /\ DOMAIN f = 0..Len(ts) /\ f[0] = Going(m)
    /\ \A n \in 1..Len(ts) : f[n] = Absorb(T, f[n - 1], ts[n])

LEMMA FlatRun ==
    ASSUME NEW m, NEW ts \in Seq(Tokens)
    PROVE  \E f : IsFlatRun(f, m, ts) /\ MergeFields(m, ts) = f[Len(ts)]
<1>. DEFINE N == Len(ts)
            IsPart(g, n) == /\ g[0] = Going(m)
                            /\ \A i \in 1..n : g[i] = AbsorbFlat(Embedded, g[i - 1], ts[i])
            U == {n \in 0..N : \E g : IsPart(g, n)}
            E(f) == f = [n \in 0..N |-> IF n = 0 THEN [m |-> m, ok |-> TRUE]
                                        ELSE AbsorbFlat(Embedded, f[n - 1], ts[n])]
            acc[n \in 0..N] == IF n = 0 THEN [m |-> m, ok |-> TRUE]
                               ELSE AbsorbFlat(Embedded, acc[n - 1], ts[n])
<1>1. N \in Nat
  OBVIOUS
<1>2. 0 \in U
  <2>. DEFINE h == [i \in 0..0 |-> Going(m)]
  <2>1. IsPart(h, 0)
    OBVIOUS
  <2>. HIDE DEF h, IsPart
  <2>. QED
    BY <1>1, <2>1
<1>3. ASSUME NEW n \in 1..N, n - 1 \in U
      PROVE  n \in U
  <2>1. PICK g : IsPart(g, n - 1)
    BY <1>3
  <2>. DEFINE h == [i \in 0..n |-> IF i < n THEN g[i] ELSE AbsorbFlat(Embedded, g[n - 1], ts[n])]
  <2>2. ASSUME NEW i \in 1..n
        PROVE  h[i] = AbsorbFlat(Embedded, h[i - 1], ts[i])
    <3>1. i - 1 \in 0..n /\ i - 1 < n /\ i \in 0..n
      OBVIOUS
    <3>2. h[i - 1] = g[i - 1]
      BY <3>1
    <3>3. CASE i < n
      <4>1. i \in 1..(n - 1) /\ h[i] = g[i]
        BY <3>1, <3>3
      <4>. QED
        BY <2>1, <3>2, <4>1
    <3>4. CASE i = n
      <4>1. h[i] = AbsorbFlat(Embedded, g[n - 1], ts[n])
        BY <3>1, <3>4
      <4>. QED
        BY <3>2, <3>4, <4>1
    <3>. QED
      BY <3>3, <3>4
  <2>3. h[0] = Going(m)
    BY <2>1
  <2>4. IsPart(h, n)
    BY <2>2, <2>3
  <2>5. n \in 0..N
    OBVIOUS
  <2>. HIDE DEF h, IsPart
  <2>. QED
    BY <2>4, <2>5
<1>4. 0..N \subseteq U
  <2>. HIDE DEF U, N
  <2>. QED
    BY <1>1, <1>2, <1>3, RangeInduction
<1>5. PICK g : IsPart(g, N)
  BY <1>1, <1>4
<1>. DEFINE h == [i \in 0..N |-> g[i]]
<1>6. E(h)
  <2>1. ASSUME NEW n \in 0..N
        PROVE  h[n] = IF n = 0 THEN [m |-> m, ok |-> TRUE]
                      ELSE AbsorbFlat(Embedded, h[n - 1], ts[n])
    <3>1. CASE n = 0
      BY <1>5, <3>1 DEF Going
    <3>2. CASE n # 0
      <4>1. n \in 1..N /\ n - 1 \in 0..N
        BY <3>2
      <4>. QED
        BY <1>5, <3>2, <4>1
    <3>. QED
      BY <3>1, <3>2
  <2>. QED
    BY <2>1
<1>7. E(acc)
  <2>1. acc = CHOOSE f : E(f)
    OBVIOUS
  <2>. HIDE DEF acc, E, h
  <2>. QED
    BY <1>6, <2>1
<1>8. MergeFields(m, ts) = acc[N]
  BY DEF MergeFields
<1>. HIDE DEF acc
<1>9. IsFlatRun(acc, m, ts)
  <2>1. DOMAIN acc = 0..N
    BY <1>7
  <2>2. ASSUME NEW n \in 0..N
        PROVE  acc[n] = IF n = 0 THEN [m |-> m, ok |-> TRUE]
                        ELSE AbsorbFlat(Embedded, acc[n - 1], ts[n])
    BY <1>7
  <2>. HIDE DEF E, U, h
  <2>3. acc[0] = Going(m)
    <3>1. 0 \in 0..N
      BY <1>1
    <3>2. acc[0] = [m |-> m, ok |-> TRUE]
      BY <2>2, <3>1
    <3>. QED
      BY <3>2 DEF Going
  <2>4. ASSUME NEW n \in 1..N
        PROVE  acc[n] = AbsorbFlat(Embedded, acc[n - 1], ts[n])
    BY <1>1, <2>2
  <2>. QED
    BY <2>1, <2>3, <2>4 DEF IsFlatRun
<1>. QED
  BY <1>8, <1>9

LEMMA Run ==
    ASSUME NEW T, NEW m, NEW ts \in Seq(Tokens)
    PROVE  \E f : IsRun(f, T, m, ts) /\ MergeAll(T, m, ts) = f[Len(ts)]
<1>. DEFINE N == Len(ts)
            IsPart(g, n) == /\ g[0] = Going(m)
                            /\ \A i \in 1..n : g[i] = Absorb(T, g[i - 1], ts[i])
            U == {n \in 0..N : \E g : IsPart(g, n)}
            E(f) == f = [n \in 0..N |-> IF n = 0 THEN [m |-> m, ok |-> TRUE]
                                        ELSE Absorb(T, f[n - 1], ts[n])]
            acc[n \in 0..N] == IF n = 0 THEN [m |-> m, ok |-> TRUE]
                               ELSE Absorb(T, acc[n - 1], ts[n])
<1>1. N \in Nat
  OBVIOUS
<1>2. 0 \in U
  <2>. DEFINE h == [i \in 0..0 |-> Going(m)]
  <2>1. IsPart(h, 0)
    OBVIOUS
  <2>. HIDE DEF h, IsPart
  <2>. QED
    BY <1>1, <2>1
<1>3. ASSUME NEW n \in 1..N, n - 1 \in U
      PROVE  n \in U
  <2>1. PICK g : IsPart(g, n - 1)
    BY <1>3
  <2>. DEFINE h == [i \in 0..n |-> IF i < n THEN g[i] ELSE Absorb(T, g[n - 1], ts[n])]
  <2>2. ASSUME NEW i \in 1..n
        PROVE  h[i] = Absorb(T, h[i - 1], ts[i])
    <3>1. i - 1 \in 0..n /\ i - 1 < n /\ i \in 0..n
      OBVIOUS
    <3>2. h[i - 1] = g[i - 1]
      BY <3>1
    <3>3. CASE i < n
      <4>1. i \in 1..(n - 1) /\ h[i] = g[i]
        BY <3>1, <3>3
      <4>. QED
        BY <2>1, <3>2, <4>1
    <3>4. CASE i = n
      <4>1. h[i] = Absorb(T, g[n - 1], ts[n])
        BY <3>1, <3>4
      <4>. QED
        BY <3>2, <3>4, <4>1
    <3>. QED
      BY <3>3, <3>4
  <2>3. h[0] = Going(m)
    BY <2>1
  <2>4. IsPart(h, n)
    BY <2>2, <2>3
  <2>5. n \in 0..N
    OBVIOUS
  <2>. HIDE DEF h, IsPart
  <2>. QED
    BY <2>4, <2>5
<1>4. 0..N \subseteq U
  <2>. HIDE DEF U, N
  <2>. QED
    BY <1>1, <1>2, <1>3, RangeInduction
<1>5. PICK g : IsPart(g, N)
  BY <1>1, <1>4
<1>. DEFINE h == [i \in 0..N |-> g[i]]
<1>6. E(h)
  <2>1. ASSUME NEW n \in 0..N
        PROVE  h[n] = IF n = 0 THEN [m |-> m, ok |-> TRUE]
                      ELSE Absorb(T, h[n - 1], ts[n])
    <3>1. CASE n = 0
      BY <1>5, <3>1 DEF Going
    <3>2. CASE n # 0
      <4>1. n \in 1..N /\ n - 1 \in 0..N
        BY <3>2
      <4>. QED
        BY <1>5, <3>2, <4>1
    <3>. QED
      BY <3>1, <3>2
  <2>. QED
    BY <2>1
<1>7. E(acc)
  <2>1. acc = CHOOSE f : E(f)
    OBVIOUS
  <2>. HIDE DEF acc, E, h
  <2>. QED
    BY <1>6, <2>1
<1>8. MergeAll(T, m, ts) = acc[N]
  BY DEF MergeAll
<1>. HIDE DEF acc
<1>9. IsRun(acc, T, m, ts)
  <2>1. DOMAIN acc = 0..N
    BY <1>7
  <2>2. ASSUME NEW n \in 0..N
        PROVE  acc[n] = IF n = 0 THEN [m |-> m, ok |-> TRUE]
                        ELSE Absorb(T, acc[n - 1], ts[n])
    BY <1>7
  <2>. HIDE DEF E, U, h
  <2>3. acc[0] = Going(m)
    <3>1. 0 \in 0..N
      BY <1>1
    <3>2. acc[0] = [m |-> m, ok |-> TRUE]
      BY <2>2, <3>1
    <3>. QED
      BY <3>2 DEF Going
  <2>4. ASSUME NEW n \in 1..N
        PROVE  acc[n] = Absorb(T, acc[n - 1], ts[n])
    BY <1>1, <2>2
  <2>. QED
    BY <2>1, <2>3, <2>4 DEF IsRun
<1>. QED
  BY <1>8, <1>9

LEMMA FlatStates ==
    ASSUME NEW m, NEW ts \in Seq(Tokens)
    PROVE  IsState(MergeFields(m, ts))
<1>1. PICK f : IsFlatRun(f, m, ts) /\ MergeFields(m, ts) = f[Len(ts)]
  BY FlatRun
<1>. DEFINE N == Len(ts)
            U == {n \in 0..N : IsState(f[n])}
<1>2. N \in Nat /\ f[0] = Going(m) /\ \A n \in 1..N : f[n] = AbsorbFlat(Embedded, f[n - 1], ts[n])
  BY <1>1 DEF IsFlatRun
<1>. HIDE DEF N
<1>3. 0 \in U
  BY <1>2, StateFacts
<1>4. ASSUME NEW n \in 1..N, n - 1 \in U
      PROVE  n \in U
  <2>3. IsState(f[n])
    BY <1>2, <1>4, AbsorbFlatStates
  <2>4. n \in 0..N
    BY <1>2
  <2>. QED
    BY <2>3, <2>4
<1>5. 0..N \subseteq U
  <2>. HIDE DEF U
  <2>. QED
    BY <1>2, <1>3, <1>4, RangeInduction
<1>. QED
  BY <1>1, <1>2, <1>5 DEF N

\* What the embedded message becomes.
Merged(m, t) == ParseEmbedded(m.f[t.num], t.bytes)

LEMMA AbsorbMessage ==
    ASSUME NEW T, NEW m, NEW t, t.ok, ~Skips(T, t), T[t.num] = "message", NEW e, e = Merged(m, t)
    PROVE  Absorb(T, Going(m), t) = [m |-> Set(m, t.num, {e.m}), ok |-> e.ok]
<1>1. Going(m).ok /\ Going(m).m = m /\ IsMessage(T, t)
  BY StateFacts DEF IsMessage
<1>2. Absorb(T, Going(m), t) = PutMessage(Going(m), t.num, e)
  BY <1>1 DEF Absorb, Merged
<1>. QED
  BY <1>1, <1>2 DEF PutMessage

LEMMA AbsorbFacts ==
    ASSUME NEW T, NEW m, NEW t
    PROVE  /\ Absorb(T, Failed(m), t) = Failed(m)
           /\ ~t.ok => Absorb(T, Going(m), t) = Failed(m)
           /\ t.ok /\ Skips(T, t) => Absorb(T, Going(m), t) = Going(Kept(m, t))
           /\ t.ok /\ ~Skips(T, t) /\ T[t.num] # "message" =>
                Absorb(T, Going(m), t) = Going(Set(m, t.num, Value(T[t.num], t)))
<1>1. ASSUME NEW a, ~(a.ok /\ IsMessage(T, t))
      PROVE  Absorb(T, a, t) = AbsorbFlat(T, a, t)
  BY <1>1 DEF Absorb
<1>2. ~(Failed(m).ok /\ IsMessage(T, t))
  BY StateFacts
<1>3. ASSUME ~(t.ok /\ ~Skips(T, t) /\ T[t.num] = "message")
      PROVE  ~IsMessage(T, t)
  BY <1>3 DEF IsMessage
<1>4. Absorb(T, Failed(m), t) = Failed(m)
  BY <1>1, <1>2, AbsorbFlatFacts
<1>5. ASSUME ~t.ok
      PROVE  Absorb(T, Going(m), t) = Failed(m)
  BY <1>1, <1>3, <1>5, AbsorbFlatFacts
<1>6. ASSUME t.ok, Skips(T, t)
      PROVE  Absorb(T, Going(m), t) = Going(Kept(m, t))
  BY <1>1, <1>3, <1>6, AbsorbFlatFacts
<1>7. ASSUME t.ok, ~Skips(T, t), T[t.num] # "message"
      PROVE  Absorb(T, Going(m), t) = Going(Set(m, t.num, Value(T[t.num], t)))
  BY <1>1, <1>3, <1>7, AbsorbFlatFacts
<1>. QED
  BY <1>4, <1>5, <1>6, <1>7

LEMMA AbsorbStates ==
    ASSUME NEW T, NEW m, NEW t \in Tokens
    PROVE  IsState(Absorb(T, Going(m), t))
<1>1. CASE t.ok /\ ~Skips(T, t) /\ T[t.num] = "message"
  <2>1. IsState(Merged(m, t))
    <3>1. t.bytes \in Seq(Byte)
      BY DEF Tokens
    <3>. QED
      BY <3>1, FieldsDefined, FlatStates DEF Merged, ParseEmbedded
  <2>. DEFINE e == Merged(m, t)
              y == Set(m, t.num, {e.m})
  <2>2. Absorb(T, Going(m), t) = [m |-> y, ok |-> e.ok]
    BY <1>1, AbsorbMessage
  <2>3. e.ok = TRUE \/ e.ok = FALSE
    BY <2>1 DEF IsState, Going, Failed
  <2>. HIDE DEF e, y
  <2>4. Absorb(T, Going(m), t) = Going(y) \/ Absorb(T, Going(m), t) = Failed(y)
    BY <2>2, <2>3 DEF Going, Failed
  <2>. QED
    BY <2>4, StateFacts
<1>2. CASE ~(t.ok /\ ~Skips(T, t) /\ T[t.num] = "message")
  <2>1. CASE ~t.ok
    <3>1. Absorb(T, Going(m), t) = Failed(m)
      BY <2>1, AbsorbFacts
    <3>. QED
      BY <3>1, StateFacts
  <2>2. CASE t.ok /\ Skips(T, t)
    <3>1. Absorb(T, Going(m), t) = Going(Kept(m, t))
      BY <2>2, AbsorbFacts
    <3>. QED
      BY <3>1, StateFacts
  <2>3. CASE t.ok /\ ~Skips(T, t) /\ T[t.num] # "message"
    <3>1. Absorb(T, Going(m), t) = Going(Set(m, t.num, Value(T[t.num], t)))
      BY <2>3, AbsorbFacts
    <3>. QED
      BY <3>1, StateFacts
  <2>. QED
    BY <1>2, <2>1, <2>2, <2>3
<1>. QED
  BY <1>1, <1>2

LEMMA MergeNothing ==
    ASSUME NEW T, NEW m
    PROVE  MergeAll(T, m, <<>>) = Going(m)
<1>1. <<>> \in Seq(Tokens)
  OBVIOUS
<1>2. PICK f : IsRun(f, T, m, <<>>) /\ MergeAll(T, m, <<>>) = f[Len(<<>>)]
  BY <1>1, Run
<1>. QED
  BY <1>2 DEF IsRun

(* Absorbing a field and then the others is absorbing the others into what
   the first has made of the message. *)
LEMMA MergeNext ==
    ASSUME NEW T, NEW m, NEW t \in Tokens, NEW us \in Seq(Tokens),
           NEW a, a = Absorb(T, Going(m), t)
    PROVE  MergeAll(T, m, <<t>> \o us) = IF a.ok THEN MergeAll(T, a.m, us) ELSE a
<1>. DEFINE ts == <<t>> \o us
            N == Len(us)
<1>1. /\ ts \in Seq(Tokens) /\ N \in Nat /\ Len(ts) = N + 1
      /\ ts[1] = t /\ \A n \in 1..N : ts[n + 1] = us[n]
  OBVIOUS
<1>. HIDE DEF ts
<1>2. PICK f : IsRun(f, T, m, ts) /\ MergeAll(T, m, ts) = f[Len(ts)]
  BY <1>1, Run
<1>3. PICK g : IsRun(g, T, a.m, us) /\ MergeAll(T, a.m, us) = g[N]
  BY Run
<1>. HIDE DEF N
<1>4. /\ f[0] = Going(m)
      /\ \A n \in 1..(N + 1) : f[n] = Absorb(T, f[n - 1], ts[n])
  BY <1>1, <1>2 DEF IsRun
<1>5. g[0] = Going(a.m) /\ \A n \in 1..N : g[n] = Absorb(T, g[n - 1], us[n])
  BY <1>3 DEF IsRun, N
<1>6. f[1] = a
  <2>1. 1 \in 1..(N + 1) /\ 1 - 1 = 0
    BY <1>1
  <2>2. f[1] = Absorb(T, f[1 - 1], ts[1])
    BY <1>4, <2>1
  <2>. QED
    BY <1>1, <1>4, <2>1, <2>2
<1>7. \A n \in 1..N : f[n + 1] = Absorb(T, f[n], us[n])
  <2>1. ASSUME NEW n \in 1..N
        PROVE  f[n + 1] = Absorb(T, f[n], us[n])
    <3>1. n + 1 \in 1..(N + 1) /\ (n + 1) - 1 = n
      BY <1>1
    <3>2. f[n + 1] = Absorb(T, f[(n + 1) - 1], ts[n + 1])
      BY <1>4, <3>1
    <3>. QED
      BY <1>1, <3>1, <3>2
  <2>. QED
    BY <2>1
<1>8. IsState(a)
  BY AbsorbStates
<1>9. CASE a.ok
  <2>1. a = Going(a.m)
    BY <1>8, <1>9 DEF IsState, Failed
  <2>. DEFINE U == {n \in 0..N : f[n + 1] = g[n]}
  <2>2. 0 \in U
    BY <1>1, <1>5, <1>6, <2>1
  <2>3. ASSUME NEW n \in 1..N, n - 1 \in U
        PROVE  n \in U
    <3>1. f[n] = g[n - 1] /\ n \in 0..N
      BY <2>3, <1>1
    <3>. QED
      BY <1>5, <1>7, <3>1
  <2>4. 0..N \subseteq U
    <3>. HIDE DEF U
    <3>. QED
      BY <1>1, <2>2, <2>3, RangeInduction
  <2>5. f[N + 1] = g[N]
    BY <1>1, <2>4
  <2>. QED
    BY <1>1, <1>2, <1>3, <1>9, <2>5 DEF ts
<1>10. CASE ~a.ok
  <2>1. a = Failed(a.m)
    BY <1>8, <1>10 DEF IsState, Going
  <2>. DEFINE U == {n \in 0..N : f[n + 1] = a}
  <2>2. 0 \in U
    BY <1>1, <1>6
  <2>3. ASSUME NEW n \in 1..N, n - 1 \in U
        PROVE  n \in U
    <3>1. f[n] = a /\ n \in 0..N
      BY <2>3, <1>1
    <3>2. Absorb(T, a, us[n]) = a
      BY <2>1, AbsorbFacts
    <3>. QED
      BY <1>7, <3>1, <3>2
  <2>4. 0..N \subseteq U
    <3>. HIDE DEF U
    <3>. QED
      BY <1>1, <2>2, <2>3, RangeInduction
  <2>5. f[N + 1] = a
    BY <1>1, <2>4
  <2>. QED
    BY <1>1, <1>2, <1>10, <2>5 DEF ts
<1>. QED
  BY <1>9, <1>10

\* The embedded type embeds nothing: for it Absorb is AbsorbFlat.
LEMMA MergeFlat ==
    ASSUME NEW m, NEW ts \in Seq(Tokens)
    PROVE  MergeFields(m, ts) = MergeAll(Embedded, m, ts)
<1>. DEFINE N == Len(ts)
<1>1. PICK f : IsFlatRun(f, m, ts) /\ MergeFields(m, ts) = f[N]
  BY FlatRun
<1>2. PICK g : IsRun(g, Embedded, m, ts) /\ MergeAll(Embedded, m, ts) = g[N]
  BY Run
<1>3. \A a, t : Absorb(Embedded, a, t) = AbsorbFlat(Embedded, a, t)
  <2>1. \A k \in DOMAIN Embedded : Embedded[k] # "message"
    BY DEF Embedded, ResultCode
  <2>2. \A t : ~IsMessage(Embedded, t)
    BY <2>1 DEF IsMessage, Skips
  <2>. QED
    BY <2>2 DEF Absorb
<1>4. /\ N \in Nat /\ f[0] = g[0]
      /\ \A n \in 1..N : f[n] = AbsorbFlat(Embedded, f[n - 1], ts[n])
      /\ \A n \in 1..N : g[n] = AbsorbFlat(Embedded, g[n - 1], ts[n])
  BY <1>1, <1>2, <1>3 DEF IsFlatRun, IsRun
<1>. HIDE DEF N
<1>. DEFINE U == {n \in 0..N : f[n] = g[n]}
<1>5. 0 \in U
  BY <1>4
<1>6. ASSUME NEW n \in 1..N, n - 1 \in U
      PROVE  n \in U
  <2>1. f[n - 1] = g[n - 1] /\ n \in 0..N
    BY <1>4, <1>6
  <2>. QED
    BY <1>4, <2>1
<1>7. 0..N \subseteq U
  <2>. HIDE DEF U
  <2>. QED
    BY <1>4, <1>5, <1>6, RangeInduction
<1>. QED
  BY <1>1, <1>2, <1>4, <1>7

\* What reading b makes of a message.
Reading(T, m, b) == MergeAll(T, m, Fields[b])

LEMMA ReadNothing ==
    ASSUME NEW T, NEW m
    PROVE  Reading(T, m, <<>>) = Going(m)
<1>1. Fields[<<>>] = <<>>
  <2>1. <<>> \in Seq(Byte)
    OBVIOUS
  <2>2. Fields[<<>>] = FieldsBy(Fields, <<>>)
    BY <2>1, FieldsDefined
  <2>. QED
    BY <2>2 DEF FieldsBy
<1>. QED
  BY <1>1, MergeNothing DEF Reading

LEMMA ReadNext ==
    ASSUME NEW T, NEW m, NEW b \in Seq(Byte), b # <<>>, NEW t, t = ReadField(b),
           NEW a, a = Absorb(T, Going(m), t)
    PROVE  Reading(T, m, b) = IF a.ok THEN Reading(T, a.m, Behind(b, Len(t.raw))) ELSE a
<1>. DEFINE d == Behind(b, Len(t.raw))
            us == IF t.ok THEN Fields[d] ELSE <<>>
<1>1. t \in Tokens /\ (t.ok => d \in Seq(Byte))
  BY BehindField
<1>2. Fields[b] = <<t>> \o us
  BY FieldsDefined DEF FieldsBy
<1>3. us \in Seq(Tokens)
  <2>1. ASSUME t.ok
        PROVE  Fields[d] \in Seq(Tokens)
    <3>. HIDE DEF d
    <3>. QED
      BY <1>1, <2>1, FieldsDefined
  <2>. QED
    BY <2>1
<1>4. ~t.ok => ~a.ok
  BY AbsorbFacts, StateFacts
<1>5. t.ok => us = Fields[d]
  OBVIOUS
<1>. HIDE DEF us, d
<1>6. Reading(T, m, b) = IF a.ok THEN MergeAll(T, a.m, us) ELSE a
  BY <1>1, <1>2, <1>3, MergeNext DEF Reading
<1>. QED
  BY <1>4, <1>5, <1>6 DEF Reading, d

\* The bytes of one field.
IsPiece(p) == p \in Seq(Byte) /\ ReadField(p).ok /\ ReadField(p).raw = p

LEMMA PieceFacts ==
    ASSUME NEW p, IsPiece(p), NEW r \in Seq(Byte)
    PROVE  /\ p \o r \in Seq(Byte) /\ p \o r # <<>> /\ Len(p) >= 2
           /\ ReadField(p \o r) = ReadField(p) /\ Behind(p \o r, Len(p)) = r
           /\ p \in Seq(Byte) /\ Len(p \o r) = Len(p) + Len(r)
<1>1. p \in Seq(Byte) /\ ReadField(p).ok /\ ReadField(p).raw = p
  BY DEF IsPiece
<1>2. Len(p) >= 2
  BY <1>1, FieldTypes DEF IsCovered
<1>3. /\ p \o r \in Seq(Byte) /\ Len(p \o r) = Len(p) + Len(r)
      /\ \A i \in 1..Len(p) : (p \o r)[i] = p[i]
      /\ \A i \in 1..Len(r) : (p \o r)[Len(p) + i] = r[i]
  BY <1>1, Concat
<1>4. Alike(p, p \o r, Len(p))
  BY <1>1, <1>3 DEF Alike
<1>5. ReadField(p \o r) = ReadField(p)
  BY <1>1, <1>4, FieldAlike
<1>6. Behind(p \o r, Len(p)) = r
  <2>. DEFINE q == p \o r
              n == Len(p)
  <2>1. n \in 0..Len(q) /\ Len(r) = Len(q) - n /\ q \in Seq(Byte)
    BY <1>1, <1>3
  <2>2. \A i \in 1..Len(r) : q[n + i] = r[i]
    BY <1>3
  <2>. HIDE DEF q, n
  <2>3. /\ Behind(q, n) \in Seq(Byte) /\ Len(Behind(q, n)) = Len(r)
        /\ \A i \in 1..Len(r) : Behind(q, n)[i] = q[n + i]
    BY <2>1, Rest
  <2>4. Behind(q, n) = r
    BY <2>2, <2>3, SameSeq
  <2>. QED
    BY <2>4 DEF q, n
<1>7. p \o r # <<>>
  BY <1>1, <1>2, <1>3
<1>. QED
  BY <1>1, <1>2, <1>3, <1>5, <1>6, <1>7

LEMMA ReadPiece ==
    ASSUME NEW T, NEW m, NEW p, IsPiece(p), NEW r \in Seq(Byte), NEW y,
           Absorb(T, Going(m), ReadField(p)) = Going(y)
    PROVE  Reading(T, m, p \o r) = Reading(T, y, r)
<1>. DEFINE q == p \o r
            a == Going(y)
            t == ReadField(p)
<1>1. /\ q \in Seq(Byte) /\ q # <<>> /\ t = ReadField(q) /\ t.raw = p
      /\ Behind(q, Len(p)) = r
  BY PieceFacts DEF IsPiece
<1>2. a.ok /\ a.m = y
  BY StateFacts
<1>3. a = Absorb(T, Going(m), t)
  OBVIOUS
<1>. HIDE DEF q, a, t
<1>4. Reading(T, m, q) = IF a.ok THEN Reading(T, a.m, Behind(q, Len(t.raw))) ELSE a
  BY <1>1, <1>3, ReadNext
<1>. QED
  BY <1>1, <1>2, <1>4 DEF q

LEMMA FirstPiece ==
    ASSUME NEW b \in Seq(Byte), NEW t, t = ReadField(b), t.ok,
           NEW d, d = Behind(b, Len(t.raw))
    PROVE  /\ IsPiece(t.raw) /\ ReadField(t.raw) = t
           /\ d \in Seq(Byte) /\ b = t.raw \o d /\ Len(d) < Len(b)
<1>. DEFINE p == t.raw
            n == Len(p)
<1>1. t \in Tokens /\ n <= Len(b) /\ p = UpTo(b, n) /\ d = Behind(b, n)
  BY BehindField, FieldTypes
<1>2. p \in Seq(Byte) /\ n \in 0..Len(b) /\ n = Len(p)
  BY <1>1 DEF Tokens
<1>. HIDE DEF n, p
<1>3. /\ \A i \in 1..n : p[i] = b[i]
      /\ d \in Seq(Byte) /\ Len(d) = Len(b) - n /\ \A i \in 1..(Len(b) - n) : d[i] = b[n + i]
  <2>1. \A i \in 1..n : UpTo(b, n)[i] = b[i]
    BY <1>2, Parts
  <2>2. /\ Behind(b, n) \in Seq(Byte) /\ Len(Behind(b, n)) = Len(b) - n
        /\ \A i \in 1..(Len(b) - n) : Behind(b, n)[i] = b[n + i]
    BY <1>2, Parts
  <2>. QED
    BY <1>1, <2>1, <2>2
<1>4. Alike(b, p, n)
  BY <1>2, <1>3 DEF Alike
<1>5. ReadField(p) = t
  BY <1>4, FieldAlike DEF n, p
<1>6. b = p \o d
  <2>1. /\ p \o d \in Seq(Byte) /\ Len(p \o d) = Len(b)
        /\ \A i \in 1..n : (p \o d)[i] = p[i]
        /\ \A i \in 1..(Len(b) - n) : (p \o d)[n + i] = d[i]
    <3>1. Len(p) + Len(d) = Len(b)
      BY <1>2, <1>3
    <3>. QED
      BY <1>2, <1>3, <3>1, Concat
  <2>2. ASSUME NEW i \in 1..Len(b)
        PROVE  (p \o d)[i] = b[i]
    <3>1. CASE i <= n
      <4>1. i \in 1..n
        BY <1>2, <3>1
      <4>. QED
        BY <1>3, <2>1, <4>1
    <3>2. CASE i > n
      <4>. DEFINE j == i - n
      <4>1. j \in 1..(Len(b) - n) /\ n + j = i
        BY <1>2, <3>2
      <4>. HIDE DEF j
      <4>. QED
        BY <1>3, <2>1, <4>1
    <3>3. i <= n \/ i > n
      BY <1>2
    <3>. QED
      BY <3>1, <3>2, <3>3
  <2>. QED
    BY <2>1, <2>2, SameSeq
<1>7. Len(d) < Len(b)
  BY BehindField
<1>. QED
  BY <1>2, <1>3, <1>5, <1>6, <1>7 DEF IsPiece, p

LEMMA PieceFields ==
    ASSUME NEW p, IsPiece(p), NEW r \in Seq(Byte)
    PROVE  Fields[p \o r] = <<ReadField(p)>> \o Fields[r]
<1>1. /\ p \o r \in Seq(Byte) /\ p \o r # <<>> /\ ReadField(p \o r) = ReadField(p)
      /\ Behind(p \o r, Len(p)) = r
  BY PieceFacts
<1>2. Fields[p \o r] = FieldsBy(Fields, p \o r)
  BY <1>1, FieldsDefined
<1>. QED
  BY <1>1, <1>2 DEF FieldsBy, IsPiece

-----------------------------------------------------------------------------
(* Unknown fields: all of them can be read, none of them is the type's own. *)
IsUnknown(T, u) ==
    /\ u \in Seq(Byte)
    /\ \A i \in 1..Len(Fields[u]) : Fields[u][i].ok /\ Skips(T, Fields[u][i])

LEMMA UnknownParts ==
    ASSUME NEW T, NEW u, IsUnknown(T, u), u # <<>>
    PROVE  \E p, d : /\ IsPiece(p) /\ Skips(T, ReadField(p)) /\ IsUnknown(T, d)
                     /\ u = p \o d /\ Len(d) < Len(u)
<1>. DEFINE t == ReadField(u)
            d == Behind(u, Len(t.raw))
<1>1. u \in Seq(Byte) /\ \A i \in 1..Len(Fields[u]) : Fields[u][i].ok /\ Skips(T, Fields[u][i])
  BY DEF IsUnknown
<1>2. Fields[u] = <<t>> \o (IF t.ok THEN Fields[d] ELSE <<>>)
  <2>1. Fields[u] = FieldsBy(Fields, u)
    BY <1>1, FieldsDefined
  <2>. QED
    BY <2>1 DEF FieldsBy
<1>3. t \in Tokens /\ (t.ok => d \in Seq(Byte))
  BY <1>1, BehindField
<1>4. t.ok => Fields[d] \in Seq(Tokens)
  <2>. HIDE DEF t, d
  <2>. QED
    BY <1>3, FieldsDefined
<1>. DEFINE us == IF t.ok THEN Fields[d] ELSE <<>>
<1>5. Fields[u] = <<t>> \o us /\ us \in Seq(Tokens)
  BY <1>2, <1>4
<1>6. t.ok /\ Skips(T, t)
  <2>. HIDE DEF t, us
  <2>1. Len(Fields[u]) >= 1 /\ Fields[u][1] = t
    BY <1>3, <1>5
  <2>2. 1 \in 1..Len(Fields[u])
    BY <1>3, <1>5
  <2>. QED
    BY <1>1, <2>1, <2>2
<1>7. us = Fields[d]
  BY <1>6
<1>. HIDE DEF t, d, us
<1>8. IsUnknown(T, d)
  <2>1. ASSUME NEW i \in 1..Len(us)
        PROVE  us[i].ok /\ Skips(T, us[i])
    <3>1. i + 1 \in 1..Len(Fields[u]) /\ Fields[u][i + 1] = us[i]
      BY <1>3, <1>5
    <3>. QED
      BY <1>1, <3>1
  <2>. QED
    BY <1>3, <1>6, <1>7, <2>1 DEF IsUnknown
<1>9. IsPiece(t.raw) /\ ReadField(t.raw) = t /\ u = t.raw \o d /\ Len(d) < Len(u)
  BY <1>1, <1>6, FirstPiece DEF t, d
<1>. QED
  BY <1>6, <1>8, <1>9

Made(f, u) == [f |-> f, unknown |-> u]

LEMMA Associative ==
    ASSUME NEW a \in Seq(Byte), NEW b \in Seq(Byte), NEW c \in Seq(Byte)
    PROVE  (a \o b) \o c = a \o (b \o c)
OBVIOUS

LEMMA KeptMade ==
    ASSUME NEW f, NEW x, NEW t, NEW p, t.raw = p
    PROVE  Kept(Made(f, x), t) = Made(f, x \o p)
<1>1. Made(f, x).unknown \o t.raw = x \o p
  BY DEF Made
<1>2. \A y : [Made(f, x) EXCEPT !.unknown = y] = Made(f, y)
  BY DEF Made
<1>. QED
  BY <1>1, <1>2 DEF Kept

LEMMA ReadSkipped ==
    ASSUME NEW T, NEW f, NEW x, NEW p, IsPiece(p), Skips(T, ReadField(p)), NEW r \in Seq(Byte)
    PROVE  Reading(T, Made(f, x), p \o r) = Reading(T, Made(f, x \o p), r)
<1>. DEFINE t == ReadField(p)
<1>1. t.ok /\ t.raw = p
  BY DEF IsPiece
<1>. HIDE DEF t
<1>2. Kept(Made(f, x), t) = Made(f, x \o p)
  BY <1>1, KeptMade
<1>3. Absorb(T, Going(Made(f, x)), t) = Going(Kept(Made(f, x), t))
  BY <1>1, AbsorbFacts DEF t
<1>. DEFINE m == Made(f, x)
            y == Made(f, x \o p)
<1>4. Absorb(T, Going(m), ReadField(p)) = Going(y)
  BY <1>2, <1>3 DEF t
<1>. HIDE DEF m, y
<1>5. Reading(T, m, p \o r) = Reading(T, y, r)
  BY <1>4, ReadPiece
<1>. QED
  BY <1>5 DEF m, y

(* Reading keeps unknown fields as they are. *)
LEMMA ReadUnknown ==
    ASSUME NEW T, NEW f, NEW x \in Seq(Byte), NEW u, IsUnknown(T, u), NEW r \in Seq(Byte)
    PROVE  Reading(T, Made(f, x), u \o r) = Reading(T, Made(f, x \o u), r)
<1>. DEFINE L(v, y) == Reading(T, Made(f, y), v \o r) = Reading(T, Made(f, y \o v), r)
            U == {i \in Nat : \A v : IsUnknown(T, v) /\ Len(v) < i =>
                                       \A y \in Seq(Byte) : L(v, y)}
<1>1. 0 \in U
  <2>1. \A v : IsUnknown(T, v) => Len(v) \in Nat
    BY DEF IsUnknown
  <2>. QED
    BY <2>1
<1>2. ASSUME NEW i \in Nat, i \in U
      PROVE  i + 1 \in U
  <2>1. ASSUME NEW v, IsUnknown(T, v), Len(v) < i + 1, NEW y \in Seq(Byte)
        PROVE  L(v, y)
    <3>1. v \in Seq(Byte)
      BY <2>1 DEF IsUnknown
    <3>2. CASE v = <<>>
      <4>1. <<>> \o r = r /\ y \o <<>> = y
        OBVIOUS
      <4>. QED
        BY <3>2, <4>1
    <3>3. CASE v # <<>>
      <4>1. PICK p, d : /\ IsPiece(p) /\ Skips(T, ReadField(p)) /\ IsUnknown(T, d)
                        /\ v = p \o d /\ Len(d) < Len(v)
        BY <2>1, <3>3, UnknownParts
      <4>2. p \in Seq(Byte) /\ d \in Seq(Byte)
        BY <4>1 DEF IsPiece, IsUnknown
      <4>3. L(d, y \o p)
        <5>1. Len(d) < i /\ y \o p \in Seq(Byte)
          BY <2>1, <3>1, <4>1, <4>2
        <5>. QED
          BY <1>2, <4>1, <5>1
      <4>. HIDE DEF U
      <4>4. v \o r = p \o (d \o r) /\ d \o r \in Seq(Byte)
        BY <4>1, <4>2, Associative
      <4>5. (y \o p) \o d = y \o v
        BY <4>1, <4>2, Associative
      <4>6. Reading(T, Made(f, y), p \o (d \o r)) = Reading(T, Made(f, y \o p), d \o r)
        <5>. DEFINE e == d \o r
        <5>1. e \in Seq(Byte)
          BY <4>4
        <5>. HIDE DEF e, L
        <5>2. Reading(T, Made(f, y), p \o e) = Reading(T, Made(f, y \o p), e)
          BY <4>1, <5>1, ReadSkipped
        <5>. QED
          BY <5>2 DEF e
      <4>. QED
        BY <4>3, <4>4, <4>5, <4>6
    <3>. QED
      BY <3>2, <3>3
  <2>. QED
    BY <2>1
<1>3. Nat \subseteq U
  <2>. HIDE DEF U
  <2>. QED
    BY <1>1, <1>2, SetInduction
<1>4. Len(u) \in Nat
  BY DEF IsUnknown
<1>5. Len(u) + 1 \in U /\ Len(u) < Len(u) + 1
  <2>. HIDE DEF U
  <2>. QED
    BY <1>3, <1>4
<1>. QED
  BY <1>5

LEMMA UnknownNothing ==
    ASSUME NEW T
    PROVE  IsUnknown(T, <<>>)
<1>1. <<>> \in Seq(Byte)
  OBVIOUS
<1>2. Fields[<<>>] = FieldsBy(Fields, <<>>)
  BY <1>1, FieldsDefined
<1>3. Fields[<<>>] = <<>>
  BY <1>2 DEF FieldsBy
<1>. QED
  BY <1>1, <1>3 DEF IsUnknown

LEMMA UnknownMore ==
    ASSUME NEW T, NEW u, IsUnknown(T, u), NEW p, IsPiece(p), Skips(T, ReadField(p))
    PROVE  IsUnknown(T, u \o p)
<1>. DEFINE U == {i \in Nat : \A v : IsUnknown(T, v) /\ Len(v) < i => IsUnknown(T, v \o p)}
<1>1. 0 \in U
  <2>1. \A v : IsUnknown(T, v) => Len(v) \in Nat
    BY DEF IsUnknown
  <2>. QED
    BY <2>1
<1>2. p \in Seq(Byte) /\ ReadField(p).ok
  BY DEF IsPiece
<1>3. ASSUME NEW q, IsPiece(q), Skips(T, ReadField(q)), NEW d, IsUnknown(T, d)
      PROVE  IsUnknown(T, q \o d)
  <2>. DEFINE t == ReadField(q)
              us == Fields[d]
  <2>1. Fields[q \o d] = <<t>> \o us /\ q \o d \in Seq(Byte) /\ t.ok
    BY <1>3, PieceFields, PieceFacts DEF IsUnknown, IsPiece
  <2>2. us \in Seq(Tokens) /\ \A i \in 1..Len(us) : us[i].ok /\ Skips(T, us[i])
    BY <1>3, FieldsDefined DEF IsUnknown
  <2>3. Skips(T, t)
    BY <1>3
  <2>4. t \in Tokens
    BY <1>3, BehindField DEF IsPiece
  <2>. DEFINE ts == <<t>> \o us
  <2>. HIDE DEF t, us
  <2>5. Len(ts) = 1 + Len(us) /\ ts[1] = t /\ \A i \in 1..Len(us) : ts[i + 1] = us[i]
    BY <2>2, <2>4
  <2>. HIDE DEF ts
  <2>6. ASSUME NEW i \in 1..Len(ts)
        PROVE  ts[i].ok /\ Skips(T, ts[i])
    <3>1. CASE i = 1
      BY <2>1, <2>3, <2>5, <3>1
    <3>2. CASE i # 1
      <4>1. i - 1 \in 1..Len(us) /\ (i - 1) + 1 = i
        BY <2>2, <2>5, <3>2
      <4>2. ts[i] = us[i - 1]
        BY <2>5, <4>1
      <4>. QED
        BY <2>2, <4>1, <4>2
    <3>. QED
      BY <3>1, <3>2
  <2>. QED
    BY <2>1, <2>6 DEF IsUnknown, ts
<1>4. ASSUME NEW i \in Nat, i \in U
      PROVE  i + 1 \in U
  <2>1. ASSUME NEW v, IsUnknown(T, v), Len(v) < i + 1
        PROVE  IsUnknown(T, v \o p)
    <3>1. v \in Seq(Byte)
      BY <2>1 DEF IsUnknown
    <3>2. CASE v = <<>>
      <4>1. p \o <<>> = p /\ <<>> \o p = p
        BY <1>2
      <4>2. IsUnknown(T, p \o <<>>)
        BY <1>3, UnknownNothing
      <4>. QED
        BY <3>2, <4>1, <4>2
    <3>3. CASE v # <<>>
      <4>1. PICK q, d : /\ IsPiece(q) /\ Skips(T, ReadField(q)) /\ IsUnknown(T, d)
                        /\ v = q \o d /\ Len(d) < Len(v)
        BY <2>1, <3>3, UnknownParts
      <4>2. q \in Seq(Byte) /\ d \in Seq(Byte)
        BY <4>1 DEF IsPiece, IsUnknown
      <4>3. IsUnknown(T, d \o p)
        <5>1. Len(d) < i
          BY <2>1, <3>1, <4>1, <4>2
        <5>. QED
          BY <1>4, <4>1, <5>1
      <4>4. v \o p = q \o (d \o p)
        BY <1>2, <4>1, <4>2, Associative
      <4>. QED
        BY <1>3, <4>1, <4>3, <4>4
    <3>. QED
      BY <3>2, <3>3
  <2>. QED
    BY <2>1
<1>5. Nat \subseteq U
  <2>. HIDE DEF U
  <2>. QED
    BY <1>1, <1>4, SetInduction
<1>6. Len(u) \in Nat
  BY DEF IsUnknown
<1>7. Len(u) + 1 \in U /\ Len(u) < Len(u) + 1
  <2>. HIDE DEF U
  <2>. QED
    BY <1>5, <1>6
<1>. QED
  BY <1>7

-----------------------------------------------------------------------------
(* Well-formed messages, and reading what was written of them. *)
Kinds == {"enum", "int32", "uint32", "bool", "fixed64", "bytes", "message"}

MessageType(T) == T \in Seq(Kinds) /\ Len(T) <= 15

\* The values of a field without an embedded message.
IsPlain(kind, v) ==
    /\ kind = "bytes" => v \in Seq(Byte) /\ Len(v) < Limit
    /\ kind = "fixed64" => IsFixed64(v)
    /\ kind = "bool" => v \in {0, 1}
    /\ kind \in {"enum", "int32", "uint32"} => v \in Nat /\ v < Limit
    /\ kind = "message" => v = {}

LEMMA ReadsFacts ==
    ASSUME NEW b \in Seq(Byte), NEW k, NEW w, NEW val, NEW bytes, Reads(b, k, w, val, bytes),
           NEW t, t = ReadField(b)
    PROVE  /\ IsPiece(b) /\ t.ok /\ t.num = k /\ t.wire = w /\ t.val = val
           /\ t.bytes = bytes /\ t.raw = b
<1>1. t = [ok |-> TRUE, num |-> k, wire |-> w, val |-> val, bytes |-> bytes, raw |-> b]
  BY DEF Reads
<1>2. /\ t.ok /\ t.num = k /\ t.wire = w /\ t.val = val /\ t.bytes = bytes /\ t.raw = b
  BY <1>1
<1>. QED
  BY <1>2 DEF IsPiece

LEMMA PlainRead ==
    ASSUME NEW k \in Numbers, NEW kind \in Kinds, NEW v, IsPlain(kind, v), v # Default(kind),
           NEW b, b = FlatField(k, kind, v), NEW t, t = ReadField(b)
    PROVE  /\ IsPiece(b) /\ t.ok /\ t.num = k /\ t.wire = Wire(kind)
           /\ Value(kind, t) = v /\ kind # "message"
           /\ Len(b) = FlatSize(kind, v)
<1>. DEFINE x == 8 * k + Wire(kind)
<1>1. kind # "message"
  BY DEF IsPlain, Default
<1>2. Wire(kind) \in 0..7
  BY DEF Wire
<1>3. IsTag(x, k, Wire(kind))
  BY <1>2, TagOf
<1>. HIDE DEF x
<1>4. CASE kind = "bytes"
  <2>1. v \in Seq(Byte) /\ Len(v) < Limit /\ Wire(kind) = 2
    BY <1>4 DEF IsPlain, Wire
  <2>2. b = <<x>> \o Prefixed(v)
    BY <1>4 DEF FlatField, x
  <2>3. Reads(b, k, 2, 0, v) /\ b \in Seq(Byte) /\ Len(b) = 1 + LengthSize(Len(v))
    <3>1. IsTag(x, k, 2)
      BY <1>3, <2>1
    <3>. QED
      BY <2>1, <2>2, <3>1, ReadsBytes
  <2>4. FlatSize(kind, v) = 1 + LengthSize(Len(v))
    BY <1>4 DEF FlatSize
  <2>5. IsPiece(b) /\ t.ok /\ t.num = k /\ t.wire = 2 /\ t.bytes = v
    BY <2>3, ReadsFacts
  <2>6. Value(kind, t) = v
    BY <1>4, <2>5 DEF Value
  <2>. QED
    BY <1>1, <2>1, <2>3, <2>4, <2>5, <2>6
<1>5. CASE kind = "fixed64"
  <2>1. IsFixed64(v) /\ Wire(kind) = 1
    BY <1>5 DEF IsPlain, Wire
  <2>2. b = <<x>> \o Fixed64(v)
    BY <1>5 DEF FlatField, x
  <2>3. Reads(b, k, 1, v, <<>>) /\ b \in Seq(Byte) /\ Len(b) = 1 + 8
    BY <1>3, <2>1, <2>2, ReadsFixed64
  <2>4. FlatSize(kind, v) = 1 + 8
    BY <1>5 DEF FlatSize
  <2>5. IsPiece(b) /\ t.ok /\ t.num = k /\ t.wire = 1 /\ t.val = v
    BY <2>3, ReadsFacts
  <2>6. Value(kind, t) = v
    BY <1>5, <2>5 DEF Value
  <2>. QED
    BY <1>1, <2>1, <2>3, <2>4, <2>5, <2>6
<1>6. CASE kind \in {"enum", "int32", "uint32", "bool"}
  <2>1. v \in Nat /\ v < Limit /\ Wire(kind) = 0
    <3>1. 0 < Limit /\ 1 < Limit
      BY SMT DEF Limit
    <3>. QED
      BY <1>6, <3>1 DEF IsPlain, Wire
  <2>2. b = <<x>> \o Varint(v)
    BY <1>6 DEF FlatField, x
  <2>3. Reads(b, k, 0, v, <<>>) /\ b \in Seq(Byte) /\ Len(b) = 1 + VarintSize(v)
    BY <1>3, <2>1, <2>2, ReadsVarint
  <2>4. FlatSize(kind, v) = 1 + VarintSize(v)
    <3>1. CASE kind = "bool"
      <4>1. VarintSize(v) = 1
        BY <3>1, SMT DEF IsPlain, VarintSize
      <4>. QED
        BY <3>1, <4>1 DEF FlatSize
    <3>2. CASE kind # "bool"
      BY <1>6, <3>2 DEF FlatSize
    <3>. QED
      BY <3>1, <3>2
  <2>5. kind = "bool" => v \in {0, 1}
    BY DEF IsPlain
  <2>6. IsPiece(b) /\ t.ok /\ t.num = k /\ t.wire = 0 /\ t.val = v
    BY <2>3, ReadsFacts
  <2>7. Value(kind, t) = v
    BY <1>6, <2>5, <2>6 DEF Value
  <2>. QED
    BY <1>1, <2>1, <2>3, <2>4, <2>6, <2>7
<1>. QED
  BY <1>1, <1>4, <1>5, <1>6 DEF Kinds

\* What a value that is set does to the one that is there.
MergedValue(kind, w, v) ==
    IF v = Default(kind) THEN w
    ELSE IF kind = "message" THEN {MergeEmbedded(Existing(w), Only(v))} ELSE v

LEMMA MergeFromBy ==
    ASSUME NEW T, NEW to, NEW from
    PROVE  MergeFrom(T, to, from) = Made([k \in DOMAIN T |-> MergedValue(T[k], to.f[k], from.f[k])],
                                         to.unknown \o from.unknown)
BY DEF MergeFrom, Made, MergedValue

(* Field k, written with value v, is read into every message in which its
   value is w as merging v into w. *)
FieldMerges(T, k, w, v) ==
    IF v = Default(T[k]) THEN Field(k, T[k], v) = <<>>
    ELSE /\ IsPiece(Field(k, T[k], v))
         /\ \A m : m.f[k] = w =>
               Absorb(T, Going(m), ReadField(Field(k, T[k], v)))
                   = Going(Set(m, k, MergedValue(T[k], w, v)))

LEMMA PlainMerges ==
    ASSUME NEW T, MessageType(T), NEW k \in DOMAIN T, NEW w, NEW v, IsPlain(T[k], v)
    PROVE  /\ FieldMerges(T, k, w, v) /\ Field(k, T[k], v) \in Seq(Byte)
           /\ Field(k, T[k], v) = FlatField(k, T[k], v)
           /\ Len(Field(k, T[k], v)) = FlatSize(T[k], v)
<1>. DEFINE b == FlatField(k, T[k], v)
            t == ReadField(b)
<1>1. k \in Numbers /\ T[k] \in Kinds
  BY DEF MessageType, Numbers
<1>2. Field(k, T[k], v) = b
  BY DEF Field, IsPlain
<1>3. CASE v = Default(T[k])
  BY <1>2, <1>3 DEF FieldMerges, FlatField, FlatSize
<1>4. CASE v # Default(T[k])
  <2>1. /\ IsPiece(b) /\ t.ok /\ t.num = k /\ t.wire = Wire(T[k])
        /\ Value(T[k], t) = v /\ T[k] # "message" /\ Len(b) = FlatSize(T[k], v)
    BY <1>1, <1>4, PlainRead
  <2>. HIDE DEF b, t
  <2>2. ~Skips(T, t)
    BY <2>1 DEF Skips
  <2>3. ASSUME NEW m
        PROVE  Absorb(T, Going(m), t) = Going(Set(m, k, v))
    BY <2>1, <2>2, AbsorbFacts
  <2>4. MergedValue(T[k], w, v) = v
    BY <1>4, <2>1 DEF MergedValue
  <2>5. FieldMerges(T, k, w, v)
    BY <1>2, <1>4, <2>1, <2>3, <2>4 DEF FieldMerges, t
  <2>. QED
    BY <1>2, <2>1, <2>5 DEF IsPiece, b
<1>. QED
  BY <1>3, <1>4

LEMMA SetMade ==
    ASSUME NEW f, NEW x, NEW k, NEW v
    PROVE  Set(Made(f, x), k, v) = Made([f EXCEPT ![k] = v], x)
<1>. DEFINE m == Made(f, x)
<1>1. m.f = f /\ \A g : [m EXCEPT !.f = g] = Made(g, x)
  BY DEF Made
<1>2. Set(m, k, v) = [m EXCEPT !.f = [m.f EXCEPT ![k] = v]]
  BY DEF Set
<1>. HIDE DEF m
<1>3. Set(m, k, v) = Made([f EXCEPT ![k] = v], x)
  BY <1>1, <1>2
<1>. QED
  BY <1>3 DEF m

Updated(f, k, y) == [f EXCEPT ![k] = y]

IsMap(f) == f = [i \in DOMAIN f |-> f[i]]

(* p writes v in field k, and g is f with v merged into it. *)
IsMerging(T, k, v, f, g, p) ==
    /\ IsMap(f) /\ FieldMerges(T, k, f[k], v)
    /\ p = Field(k, T[k], v)
    /\ g = Updated(f, k, MergedValue(T[k], f[k], v))

LEMMA ReadMerging ==
    ASSUME NEW T, NEW k, NEW v, NEW f, NEW g, NEW p, IsMerging(T, k, v, f, g, p),
           NEW x, NEW r \in Seq(Byte)
    PROVE  Reading(T, Made(f, x), p \o r) = Reading(T, Made(g, x), r)
<1>0. /\ IsMap(f) /\ FieldMerges(T, k, f[k], v) /\ p = Field(k, T[k], v)
      /\ g = Updated(f, k, MergedValue(T[k], f[k], v))
  BY DEF IsMerging
<1>. DEFINE y == MergedValue(T[k], f[k], v)
            m == Made(f, x)
            n == Made(g, x)
<1>1. CASE v = Default(T[k])
  <2>1. p \o r = r
    BY <1>0, <1>1 DEF FieldMerges
  <2>2. y = f[k]
    BY <1>1 DEF MergedValue
  <2>3. g = [f EXCEPT ![k] = f[k]]
    BY <1>0, <2>2 DEF Updated
  <2>4. g = f
    BY <1>0, <2>3 DEF IsMap
  <2>. QED
    BY <2>1, <2>4
<1>2. CASE v # Default(T[k])
  <2>1. m.f[k] = f[k]
    BY DEF Made
  <2>2. Set(m, k, y) = n
    <3>1. Set(Made(f, x), k, y) = Made([f EXCEPT ![k] = y], x)
      <4>. HIDE DEF y
      <4>. QED
        BY SetMade
    <3>. QED
      BY <1>0, <3>1 DEF Updated
  <2>. HIDE DEF y, m, n
  <2>3. IsPiece(p) /\ Absorb(T, Going(m), ReadField(p)) = Going(n)
    BY <1>0, <1>2, <2>1, <2>2 DEF FieldMerges, y
  <2>4. Reading(T, m, p \o r) = Reading(T, n, r)
    BY <2>3, ReadPiece
  <2>. QED
    BY <2>4 DEF m, n, y
<1>. QED
  BY <1>1, <1>2

\* Reading the pieces s one by one takes the message through q.
IsPath(T, q, s) ==
    \A n \in 1..Len(s) : \A y \in Seq(Byte) :
        Reading(T, q[n - 1], s[n] \o y) = Reading(T, q[n], y)

LEMMA ReadPath ==
    ASSUME NEW T, NEW q, NEW s \in Seq(Seq(Byte)), IsPath(T, q, s), NEW r \in Seq(Byte)
    PROVE  /\ FlattenSeq(s) \in Seq(Byte)
           /\ Reading(T, q[0], FlattenSeq(s) \o r) = Reading(T, q[Len(s)], r)
<1>. DEFINE N == Len(s)
<1>1. N \in Nat /\ \A n \in 1..N : s[n] \in Seq(Byte)
  OBVIOUS
<1>2. PICK g \in [0..N -> Seq(Byte)] :
         /\ g[0] = <<>> /\ g[N] = FlattenSeq(s)
         /\ \A n \in 1..N : g[n] = g[n - 1] \o s[n]
  BY FlattenFacts
<1>3. \A n \in 1..N : \A y \in Seq(Byte) :
         Reading(T, q[n - 1], s[n] \o y) = Reading(T, q[n], y)
  BY DEF IsPath
<1>. HIDE DEF N
<1>. DEFINE U == {n \in 0..N : \A y \in Seq(Byte) :
                     Reading(T, q[0], g[n] \o y) = Reading(T, q[n], y)}
<1>4. 0 \in U
  <2>1. \A y \in Seq(Byte) : g[0] \o y = y
    <3>1. \A y \in Seq(Byte) : <<>> \o y = y
      OBVIOUS
    <3>. QED
      BY <1>2, <3>1
  <2>2. 0 \in 0..N
    BY <1>1
  <2>3. \A y \in Seq(Byte) : Reading(T, q[0], g[0] \o y) = Reading(T, q[0], y)
    BY <2>1
  <2>. QED
    BY <2>2, <2>3
<1>5. ASSUME NEW n \in 1..N, n - 1 \in U
      PROVE  n \in U
  <2>1. n \in 0..N /\ n - 1 \in 0..N
    BY <1>1
  <2>2. g[n - 1] \in Seq(Byte) /\ s[n] \in Seq(Byte) /\ g[n] = g[n - 1] \o s[n]
    <3>. HIDE DEF U
    <3>. QED
      BY <1>1, <1>2, <2>1
  <2>3. ASSUME NEW y \in Seq(Byte)
        PROVE  Reading(T, q[0], g[n] \o y) = Reading(T, q[n], y)
    <3>. DEFINE z == s[n] \o y
    <3>1. g[n] \o y = g[n - 1] \o z /\ z \in Seq(Byte)
      <4>. HIDE DEF U
      <4>1. z \in Seq(Byte)
        BY <2>2
      <4>. DEFINE a == g[n - 1]
                  b == s[n]
      <4>2. a \in Seq(Byte) /\ b \in Seq(Byte) /\ g[n] = a \o b /\ z = b \o y
        BY <2>2
      <4>. HIDE DEF a, b
      <4>3. (a \o b) \o y = a \o (b \o y)
        BY <4>2, Associative
      <4>. QED
        BY <4>1, <4>2, <4>3 DEF a
    <3>2. Reading(T, q[n - 1], z) = Reading(T, q[n], y)
      BY <1>3
    <3>. HIDE DEF z
    <3>3. Reading(T, q[0], g[n - 1] \o z) = Reading(T, q[n - 1], z)
      BY <1>5, <3>1
    <3>. QED
      BY <3>1, <3>2, <3>3
  <2>. QED
    BY <2>1, <2>3
<1>6. 0..N \subseteq U
  <2>. HIDE DEF U
  <2>. QED
    BY <1>1, <1>4, <1>5, RangeInduction
<1>7. Reading(T, q[0], g[N] \o r) = Reading(T, q[N], r)
  BY <1>1, <1>6
<1>. QED
  BY <1>1, <1>2, <1>7 DEF N

\* The fields of f, written in order.
InOrder(T, f) == [k \in DOMAIN T |-> Field(k, T[k], f[k])]

\* The fields themselves, and with f merged into them.
Own(T, w)             == [k \in DOMAIN T |-> w[k]]
MergedFields(T, w, f) == [k \in DOMAIN T |-> MergedValue(T[k], w[k], f[k])]

\* Each field of f can be written, and is read as merged into w.
CanMerge(T, w, f) ==
    \A k \in DOMAIN T : Field(k, T[k], f[k]) \in Seq(Byte) /\ FieldMerges(T, k, w[k], f[k])

(* All fields together are read as merging them. *)
LEMMA FieldsMerge ==
    ASSUME NEW T, MessageType(T), NEW f, NEW w, CanMerge(T, w, f), NEW x, NEW r \in Seq(Byte)
    PROVE  /\ FlattenSeq(InOrder(T, f)) \in Seq(Byte)
           /\ Reading(T, Made(Own(T, w), x), FlattenSeq(InOrder(T, f)) \o r)
                = Reading(T, Made(MergedFields(T, w, f), x), r)
<1>0. /\ \A k \in DOMAIN T : Field(k, T[k], f[k]) \in Seq(Byte)
      /\ \A k \in DOMAIN T : FieldMerges(T, k, w[k], f[k])
  BY DEF CanMerge
<1>. DEFINE s == InOrder(T, f)
            N == Len(T)
            v == [k \in DOMAIN T |-> MergedValue(T[k], w[k], f[k])]
            h == [n \in 0..N |-> [k \in DOMAIN T |-> IF k <= n THEN v[k] ELSE w[k]]]
            q == [n \in 0..N |-> Made(h[n], x)]
<1>1. N \in Nat /\ DOMAIN T = 1..N
  BY DEF MessageType
<1>2. s \in Seq(Seq(Byte)) /\ Len(s) = N /\ \A k \in 1..N : s[k] = Field(k, T[k], f[k])
  BY <1>0, <1>1 DEF InOrder
<1>. HIDE DEF s, N
<1>3. ASSUME NEW n \in 1..N
      PROVE  /\ h[n - 1][n] = w[n] /\ h[n] = [h[n - 1] EXCEPT ![n] = v[n]]
             /\ IsMap(h[n - 1])
  <2>. HIDE DEF v
  <2>1. n \in 0..N /\ n - 1 \in 0..N /\ n \in DOMAIN T
    BY <1>1
  <2>2. /\ h[n] = [k \in DOMAIN T |-> IF k <= n THEN v[k] ELSE w[k]]
        /\ h[n - 1] = [k \in DOMAIN T |-> IF k <= n - 1 THEN v[k] ELSE w[k]]
    BY <2>1
  <2>. HIDE DEF h
  <2>3. h[n - 1][n] = w[n]
    BY <1>1, <2>1, <2>2
  <2>. DEFINE e == [h[n - 1] EXCEPT ![n] = v[n]]
  <2>4. ASSUME NEW k \in DOMAIN T
        PROVE  h[n][k] = e[k]
    BY <1>1, <2>1, <2>2
  <2>5. IsMap(h[n - 1])
    BY <2>2 DEF IsMap
  <2>. QED
    BY <2>2, <2>3, <2>4, <2>5
<1>4. ASSUME NEW n \in 1..N, NEW y \in Seq(Byte)
      PROVE  Reading(T, q[n - 1], s[n] \o y) = Reading(T, q[n], y)
  <2>1. n \in 0..N /\ n - 1 \in 0..N /\ n \in DOMAIN T
    BY <1>1
  <2>2. q[n - 1] = Made(h[n - 1], x) /\ q[n] = Made(h[n], x)
    BY <2>1
  <2>3. v[n] = MergedValue(T[n], w[n], f[n])
    BY <2>1
  <2>. HIDE DEF h, q, v
  <2>. DEFINE g == h[n - 1]
  <2>4. FieldMerges(T, n, g[n], f[n]) /\ v[n] = MergedValue(T[n], g[n], f[n])
    BY <1>0, <1>3, <2>1, <2>3
  <2>5. h[n] = [g EXCEPT ![n] = v[n]] /\ s[n] = Field(n, T[n], f[n])
    BY <1>2, <1>3
  <2>6. IsMap(g)
    BY <1>3
  <2>. HIDE DEF g
  <2>7. h[n] = Updated(g, n, MergedValue(T[n], g[n], f[n]))
    BY <2>4, <2>5 DEF Updated
  <2>8. Reading(T, Made(g, x), s[n] \o y) = Reading(T, Made(h[n], x), y)
    <3>1. IsMerging(T, n, f[n], g, h[n], s[n])
      BY <2>4, <2>5, <2>6, <2>7 DEF IsMerging
    <3>. QED
      BY <3>1, ReadMerging
  <2>. QED
    BY <2>2, <2>8 DEF g
<1>5. IsPath(T, q, s)
  <2>. HIDE DEF q
  <2>. QED
    BY <1>2, <1>4 DEF IsPath
<1>6. q[0] = Made([k \in DOMAIN T |-> w[k]], x)
  <2>. HIDE DEF v
  <2>1. 0 \in 0..N
    BY <1>1
  <2>2. h[0] = [k \in DOMAIN T |-> w[k]]
    BY <1>1, <2>1
  <2>. HIDE DEF h
  <2>. QED
    BY <2>1, <2>2
<1>7. q[N] = Made(v, x)
  <2>1. N \in 0..N
    BY <1>1
  <2>2. h[N] = [k \in DOMAIN T |-> v[k]]
    <3>. HIDE DEF v
    <3>. QED
      BY <1>1, <2>1
  <2>3. h[N] = v
    BY <2>2
  <2>. HIDE DEF h, v
  <2>. QED
    BY <2>1, <2>3
<1>. HIDE DEF q, h, v
<1>8. /\ FlattenSeq(s) \in Seq(Byte)
      /\ Reading(T, q[0], FlattenSeq(s) \o r) = Reading(T, q[N], r)
  BY <1>2, <1>5, ReadPath
<1>. QED
  BY <1>6, <1>7, <1>8 DEF s, v, Own, MergedFields

-----------------------------------------------------------------------------
(* Well-formed messages: what the setters and the parser make. *)

HasShape(T, m) ==
    m = Made([k \in DOMAIN T |-> m.f[k]], m.unknown) /\ m.unknown \in Seq(Byte)

IsFlat(s) ==
    /\ HasShape(Embedded, s)
    /\ \A k \in DOMAIN Embedded : IsPlain(Embedded[k], s.f[k])
    /\ IsUnknown(Embedded, s.unknown)
    /\ Len(SerializeFlat(s)) < Limit

IsValue(kind, v) ==
    IsPlain(kind, v) \/ (kind = "message" /\ v = {Only(v)} /\ IsFlat(Only(v)))

WellFormed(T, m) ==
    /\ HasShape(T, m)
    /\ \A k \in DOMAIN T : IsValue(T[k], m.f[k])
    /\ IsUnknown(T, m.unknown)

LEMMA EmbeddedFacts ==
    /\ MessageType(Embedded) /\ DOMAIN Embedded = 1..2
    /\ \A k \in DOMAIN Embedded : Embedded[k] # "message" /\ Embedded[k] \in Kinds
BY DEF Embedded, ResultCode, MessageType, Kinds

(* The fields and then the unknown fields are read as merging both. *)
LEMMA AllMerge ==
    ASSUME NEW T, MessageType(T), NEW f, NEW u, IsUnknown(T, u),
           NEW m, HasShape(T, m), NEW r \in Seq(Byte), CanMerge(T, m.f, f)
    PROVE  /\ FlattenSeq(InOrder(T, f)) \o u \in Seq(Byte)
           /\ Reading(T, m, (FlattenSeq(InOrder(T, f)) \o u) \o r)
                = Reading(T, Made(MergedFields(T, m.f, f), m.unknown \o u), r)
<1>. DEFINE s == FlattenSeq(InOrder(T, f))
            w == m.f
            x == m.unknown
            g == MergedFields(T, w, f)
            z == u \o r
<1>1. m = Made(Own(T, w), x) /\ x \in Seq(Byte)
  BY DEF HasShape, Own
<1>2. u \in Seq(Byte) /\ z \in Seq(Byte)
  BY DEF IsUnknown
<1>3. CanMerge(T, w, f)
  OBVIOUS
<1>. HIDE DEF x, w, z
<1>4. s \in Seq(Byte) /\ Reading(T, Made(Own(T, w), x), s \o z) = Reading(T, Made(g, x), z)
  BY <1>2, <1>3, FieldsMerge
<1>. HIDE DEF s, g
<1>5. (s \o u) \o r = s \o z
  BY <1>2, <1>4, Associative DEF z
<1>6. Reading(T, Made(g, x), z) = Reading(T, Made(g, x \o u), r)
  BY <1>1, ReadUnknown DEF z
<1>7. Reading(T, m, (s \o u) \o r) = Reading(T, Made(g, x \o u), r)
  BY <1>1, <1>4, <1>5, <1>6
<1>8. s \o u \in Seq(Byte)
  BY <1>2, <1>4
<1>. QED
  BY <1>7, <1>8 DEF s, g, w, x

-----------------------------------------------------------------------------
(* Embedded messages. *)

LEMMA FlatWritten ==
    ASSUME NEW s, \A k \in DOMAIN Embedded : IsPlain(Embedded[k], s.f[k])
    PROVE  /\ SerializeFlat(s) = FlattenSeq(InOrder(Embedded, s.f)) \o s.unknown
           /\ \A k \in DOMAIN Embedded :
                 /\ Field(k, Embedded[k], s.f[k]) \in Seq(Byte)
                 /\ \A w : FieldMerges(Embedded, k, w, s.f[k])
                 /\ Len(Field(k, Embedded[k], s.f[k])) = FlatSize(Embedded[k], s.f[k])
<1>1. ASSUME NEW k \in DOMAIN Embedded
      PROVE  /\ Field(k, Embedded[k], s.f[k]) = FlatField(k, Embedded[k], s.f[k])
             /\ Field(k, Embedded[k], s.f[k]) \in Seq(Byte)
             /\ \A w : FieldMerges(Embedded, k, w, s.f[k])
             /\ Len(Field(k, Embedded[k], s.f[k])) = FlatSize(Embedded[k], s.f[k])
  BY EmbeddedFacts, PlainMerges
<1>2. InOrder(Embedded, s.f) = [k \in DOMAIN Embedded |-> FlatField(k, Embedded[k], s.f[k])]
  BY <1>1 DEF InOrder
<1>. QED
  BY <1>1, <1>2 DEF SerializeFlat

LEMMA EmbeddedMerges ==
    ASSUME NEW s, IsFlat(s), NEW m, HasShape(Embedded, m)
    PROVE  /\ SerializeFlat(s) \in Seq(Byte)
           /\ Reading(Embedded, m, SerializeFlat(s)) = Going(MergeEmbedded(m, s))
<1>. DEFINE b == SerializeFlat(s)
            g == MergedFields(Embedded, m.f, s.f)
<1>1. \A k \in DOMAIN Embedded : IsPlain(Embedded[k], s.f[k])
  BY DEF IsFlat
<1>2. /\ b = FlattenSeq(InOrder(Embedded, s.f)) \o s.unknown
      /\ CanMerge(Embedded, m.f, s.f)
  BY <1>1, FlatWritten DEF CanMerge
<1>3. IsUnknown(Embedded, s.unknown) /\ MessageType(Embedded) /\ <<>> \in Seq(Byte)
  BY EmbeddedFacts DEF IsFlat
<1>. HIDE DEF b, g
<1>. DEFINE e == Made(g, m.unknown \o s.unknown)
<1>4. b \in Seq(Byte) /\ Reading(Embedded, m, b \o <<>>) = Reading(Embedded, e, <<>>)
  <2>. DEFINE h == s.f
              u == s.unknown
              r == <<>>
              q == FlattenSeq(InOrder(Embedded, h)) \o u
  <2>1. b = q /\ CanMerge(Embedded, m.f, h) /\ IsUnknown(Embedded, u) /\ r \in Seq(Byte)
    BY <1>2, <1>3
  <2>2. e = Made(MergedFields(Embedded, m.f, h), m.unknown \o u)
    BY DEF g
  <2>. HIDE DEF h, u, r, e
  <2>3. q \in Seq(Byte) /\ Reading(Embedded, m, q \o r) = Reading(Embedded, e, r)
    BY <1>3, <2>1, <2>2, AllMerge
  <2>. QED
    BY <2>1, <2>3 DEF r
<1>5. b \o <<>> = b
  BY <1>4
<1>6. e = MergeEmbedded(m, s)
  <2>1. \A k \in DOMAIN Embedded :
           MergedValue(Embedded[k], m.f[k], s.f[k])
             = IF s.f[k] = Default(Embedded[k]) THEN m.f[k] ELSE s.f[k]
    BY EmbeddedFacts DEF MergedValue
  <2>2. g = [k \in DOMAIN Embedded |->
               IF s.f[k] = Default(Embedded[k]) THEN m.f[k] ELSE s.f[k]]
    BY <2>1 DEF g, MergedFields
  <2>. QED
    BY <2>2 DEF MergeEmbedded, Made
<1>. HIDE DEF e
<1>7. Reading(Embedded, e, <<>>) = Going(e)
  BY ReadNothing
<1>. QED
  BY <1>4, <1>5, <1>6, <1>7 DEF b

LEMMA ParseMerges ==
    ASSUME NEW s, IsFlat(s), NEW w, HasShape(Embedded, Existing(w))
    PROVE  ParseEmbedded(w, SerializeFlat(s)) = Going(MergeEmbedded(Existing(w), s))
<1>. DEFINE b == SerializeFlat(s)
<1>1. b \in Seq(Byte) /\ Reading(Embedded, Existing(w), b) = Going(MergeEmbedded(Existing(w), s))
  BY EmbeddedMerges
<1>. HIDE DEF b
<1>2. Fields[b] \in Seq(Tokens)
  BY <1>1, FieldsDefined
<1>3. ParseEmbedded(w, b) = MergeAll(Embedded, Existing(w), Fields[b])
  BY <1>2, MergeFlat DEF ParseEmbedded
<1>. QED
  BY <1>1, <1>3 DEF Reading, b

LEMMA OnlyFacts ==
    ASSUME NEW s
    PROVE  Only({s}) = s /\ Existing({s}) = s /\ {s} # {} /\ Existing({}) = New(Embedded)
BY DEF Only, Existing

(* An embedded message is written, and read as being merged into the one that
   is there. *)
LEMMA MessageMerges ==
    ASSUME NEW T, MessageType(T), NEW k \in DOMAIN T, T[k] = "message",
           NEW s, IsFlat(s), NEW w, HasShape(Embedded, Existing(w)), NEW v, v = {s}
    PROVE  /\ FieldMerges(T, k, w, v) /\ Field(k, T[k], v) \in Seq(Byte)
           /\ Len(Field(k, T[k], v)) = 1 + LengthSize(Len(SerializeFlat(s)))
<1>. DEFINE b == Field(k, T[k], v)
            c == SerializeFlat(s)
            x == 8 * k + Wire(T[k])
            t == ReadField(b)
            e == MergeEmbedded(Existing(w), s)
<1>1. k \in Numbers /\ Wire(T[k]) = 2
  BY DEF MessageType, Numbers, Wire
<1>2. IsTag(x, k, 2)
  BY <1>1, TagOf
<1>3. c \in Seq(Byte) /\ Len(c) < Limit
  BY EmbeddedMerges DEF IsFlat
<1>4. b = <<x>> \o Prefixed(c)
  BY OnlyFacts DEF Field
<1>. HIDE DEF x, b
<1>5. Reads(b, k, 2, 0, c) /\ b \in Seq(Byte) /\ Len(b) = 1 + LengthSize(Len(c))
  BY <1>2, <1>3, <1>4, ReadsBytes
<1>6. IsPiece(b) /\ t.ok /\ t.num = k /\ t.wire = 2 /\ t.bytes = c
  <2>. HIDE DEF c
  <2>. QED
    BY <1>5, ReadsFacts
<1>7. ~Skips(T, t) /\ T[t.num] = "message"
  BY <1>1, <1>6 DEF Skips
<1>8. ASSUME NEW m, m.f[k] = w
      PROVE  Absorb(T, Going(m), t) = Going(Set(m, k, {e}))
  <2>1. Merged(m, t) = Going(e)
    BY <1>6, <1>8, ParseMerges DEF Merged
  <2>2. Going(e).m = e /\ Going(e).ok = TRUE
    BY DEF Going
  <2>. DEFINE d == Going(e)
  <2>. HIDE DEF t, e, d
  <2>3. Absorb(T, Going(m), t) = [m |-> Set(m, t.num, {d.m}), ok |-> d.ok]
    BY <1>6, <1>7, <2>1, AbsorbMessage DEF d
  <2>. QED
    BY <1>6, <2>2, <2>3 DEF Going, d
<1>9. v # Default(T[k]) /\ MergedValue(T[k], w, v) = {e}
  BY OnlyFacts DEF Default, MergedValue
<1>10. FieldMerges(T, k, w, v)
  <2>. HIDE DEF e
  <2>. QED
    BY <1>6, <1>8, <1>9 DEF FieldMerges, b
<1>. QED
  BY <1>5, <1>10 DEF b

-----------------------------------------------------------------------------
(* Whole messages. *)

LEMMA NewFacts ==
    ASSUME NEW T, MessageType(T)
    PROVE  /\ WellFormed(T, New(T)) /\ New(T).unknown = <<>>
           /\ \A k \in DOMAIN T : New(T).f[k] = Default(T[k])
           /\ New(T) = Made([k \in DOMAIN T |-> Default(T[k])], <<>>)
<1>1. /\ New(T).unknown = <<>> /\ New(T).f = [k \in DOMAIN T |-> Default(T[k])]
      /\ New(T) = Made([k \in DOMAIN T |-> Default(T[k])], <<>>)
  BY DEF New, Made
<1>2. \A k \in DOMAIN T : New(T).f[k] = Default(T[k]) /\ T[k] \in Kinds
  BY <1>1 DEF MessageType
<1>3. HasShape(T, New(T))
  <2>1. [k \in DOMAIN T |-> New(T).f[k]] = [k \in DOMAIN T |-> Default(T[k])]
    BY <1>2
  <2>2. <<>> \in Seq(Byte)
    OBVIOUS
  <2>. QED
    BY <1>1, <2>1, <2>2 DEF HasShape
<1>4. ASSUME NEW kind \in Kinds
      PROVE  IsPlain(kind, Default(kind))
  <2>1. 0 < Limit
    BY SMT DEF Limit
  <2>2. IsFixed64(0)
    <3>1. 0 \in Nat /\ 0 < Limit
      BY <2>1
    <3>. QED
      BY <3>1, SmallIsFixed64
  <2>3. <<>> \in Seq(Byte) /\ Len(<<>>) = 0
    OBVIOUS
  <2>. HIDE DEF Limit
  <2>. QED
    BY <2>1, <2>2, <2>3 DEF IsPlain, Default, Kinds
<1>5. \A k \in DOMAIN T : IsValue(T[k], New(T).f[k])
  BY <1>2, <1>4 DEF IsValue
<1>. QED
  BY <1>1, <1>2, <1>3, <1>5, UnknownNothing DEF WellFormed

\* There is an embedded message to merge into.
CanHold(T, w) ==
    \A k \in DOMAIN T : T[k] = "message" => HasShape(Embedded, Existing(w[k]))

LEMMA Holds ==
    ASSUME NEW T, NEW m, WellFormed(T, m)
    PROVE  CanHold(T, m.f)
<1>1. ASSUME NEW k \in DOMAIN T, T[k] = "message"
      PROVE  HasShape(Embedded, Existing(m.f[k]))
  <2>. DEFINE v == m.f[k]
  <2>1. IsValue("message", v)
    BY <1>1 DEF WellFormed
  <2>. HIDE DEF v
  <2>2. CASE v = {}
    <3>1. Existing(v) = New(Embedded)
      BY <2>2, OnlyFacts
    <3>. QED
      BY <3>1, NewFacts, EmbeddedFacts DEF WellFormed, v
  <2>3. CASE v # {}
    <3>1. v = {Only(v)} /\ IsFlat(Only(v))
      BY <2>1, <2>3 DEF IsValue, IsPlain
    <3>2. Existing(v) = Only(v)
      BY <2>3 DEF Existing
    <3>. QED
      BY <3>1, <3>2 DEF IsFlat, v
  <2>. QED
    BY <2>2, <2>3
<1>. QED
  BY <1>1 DEF CanHold

LEMMA ValueMerges ==
    ASSUME NEW T, MessageType(T), NEW k \in DOMAIN T, NEW v, IsValue(T[k], v), NEW w,
           T[k] = "message" => HasShape(Embedded, Existing(w))
    PROVE  Field(k, T[k], v) \in Seq(Byte) /\ FieldMerges(T, k, w, v)
<1>1. CASE IsPlain(T[k], v)
  BY <1>1, PlainMerges
<1>2. CASE T[k] = "message" /\ v = {Only(v)} /\ IsFlat(Only(v))
  BY <1>2, MessageMerges
<1>. QED
  BY <1>1, <1>2 DEF IsValue

LEMMA ReadMessage ==
    ASSUME NEW T, MessageType(T), NEW m, WellFormed(T, m),
           NEW to, HasShape(T, to), CanHold(T, to.f), NEW r \in Seq(Byte)
    PROVE  /\ SerializeToString(T, m) \in Seq(Byte)
           /\ Reading(T, to, SerializeToString(T, m) \o r) = Reading(T, MergeFrom(T, to, m), r)
<1>. DEFINE f == m.f
            u == m.unknown
            b == SerializeToString(T, m)
            e == Made(MergedFields(T, to.f, f), to.unknown \o u)
<1>1. CanMerge(T, to.f, f)
  BY ValueMerges DEF CanMerge, CanHold, WellFormed
<1>2. IsUnknown(T, u)
  BY DEF WellFormed
<1>3. b = FlattenSeq(InOrder(T, f)) \o u
  BY DEF SerializeToString, InOrder
<1>4. e = MergeFrom(T, to, m)
  BY MergeFromBy DEF MergedFields
<1>. HIDE DEF f, u, b, e
<1>5. b \in Seq(Byte) /\ Reading(T, to, b \o r) = Reading(T, e, r)
  BY <1>1, <1>2, <1>3, AllMerge DEF e
<1>. QED
  BY <1>4, <1>5 DEF b

\* What the bytes of a message alone are read as.
LEMMA ReadAll ==
    ASSUME NEW T, MessageType(T), NEW m, WellFormed(T, m),
           NEW to, HasShape(T, to), CanHold(T, to.f)
    PROVE  Reading(T, to, SerializeToString(T, m)) = Going(MergeFrom(T, to, m))
<1>. DEFINE b == SerializeToString(T, m)
            e == MergeFrom(T, to, m)
            r == <<>>
<1>1. r \in Seq(Byte)
  OBVIOUS
<1>. HIDE DEF r, e, b
<1>2. b \in Seq(Byte) /\ Reading(T, to, b \o r) = Reading(T, e, r)
  BY <1>1, ReadMessage DEF b, e
<1>3. b \o r = b
  BY <1>2 DEF r
<1>4. Reading(T, e, r) = Going(e)
  BY ReadNothing DEF r
<1>. QED
  BY <1>2, <1>3, <1>4 DEF b, e

\* Merging with a new message, from either side, changes nothing.
LEMMA MergeNew ==
    ASSUME NEW T, MessageType(T), NEW m, WellFormed(T, m)
    PROVE  MergeFrom(T, New(T), m) = m
<1>1. ASSUME NEW k \in DOMAIN T
      PROVE  MergedValue(T[k], New(T).f[k], m.f[k]) = m.f[k]
  <2>. DEFINE v == m.f[k]
  <2>1. New(T).f[k] = Default(T[k]) /\ IsValue(T[k], v)
    BY NewFacts DEF WellFormed
  <2>. HIDE DEF v
  <2>2. CASE v = Default(T[k])
    BY <2>1, <2>2 DEF MergedValue, v
  <2>3. CASE v # Default(T[k]) /\ T[k] # "message"
    BY <2>3 DEF MergedValue, v
  <2>4. CASE v # Default(T[k]) /\ T[k] = "message"
    <3>. DEFINE s == Only(v)
                n == New(Embedded)
    <3>1. Default(T[k]) = {}
      BY <2>4 DEF Default
    <3>2. v = {s} /\ IsFlat(s)
      BY <2>1, <2>4, <3>1 DEF IsValue, IsPlain
    <3>3. MergedValue(T[k], New(T).f[k], v) = {MergeEmbedded(n, s)}
      BY <2>1, <2>4, <3>1, OnlyFacts DEF MergedValue
    <3>4. /\ s = Made([i \in DOMAIN Embedded |-> s.f[i]], s.unknown) /\ s.unknown \in Seq(Byte)
      BY <3>2 DEF IsFlat, HasShape
    <3>5. /\ n.unknown = <<>> /\ \A i \in DOMAIN Embedded : n.f[i] = Default(Embedded[i])
      BY NewFacts, EmbeddedFacts
    <3>. HIDE DEF s, n
    <3>6. n.unknown \o s.unknown = s.unknown
      BY <3>4, <3>5
    <3>7. [i \in DOMAIN Embedded |->
             IF s.f[i] = Default(Embedded[i]) THEN n.f[i] ELSE s.f[i]]
          = [i \in DOMAIN Embedded |-> s.f[i]]
      BY <3>5
    <3>8. MergeEmbedded(n, s) = s
      BY <3>4, <3>6, <3>7 DEF MergeEmbedded, Made
    <3>. QED
      BY <3>2, <3>3, <3>8 DEF v
  <2>. QED
    BY <2>2, <2>3, <2>4
<1>2. New(T).unknown \o m.unknown = m.unknown
  <2>1. New(T).unknown = <<>> /\ m.unknown \in Seq(Byte)
    BY NewFacts DEF WellFormed, HasShape
  <2>. QED
    BY <2>1
<1>3. [k \in DOMAIN T |-> MergedValue(T[k], New(T).f[k], m.f[k])] = [k \in DOMAIN T |-> m.f[k]]
  BY <1>1
<1>4. m = Made([k \in DOMAIN T |-> m.f[k]], m.unknown)
  BY DEF WellFormed, HasShape
<1>. QED
  BY <1>2, <1>3, <1>4, MergeFromBy

LEMMA Cleared ==
    ASSUME NEW T, NEW m, m = Made(m.f, m.unknown)
    PROVE  Clear(T, m) = New(T)
<1>. DEFINE h == New(T).f
            p == m.f
            u == m.unknown
<1>1. New(T) = Made(h, <<>>)
  BY DEF New, Made
<1>2. m = Made(p, u)
  OBVIOUS
<1>. HIDE DEF h, p, u
<1>3. [Made(p, u) EXCEPT !.f = h] = Made(h, u)
  BY DEF Made
<1>4. [Made(h, u) EXCEPT !.unknown = <<>>] = Made(h, <<>>)
  BY DEF Made
<1>5. Clear(T, m) = [[m EXCEPT !.f = h] EXCEPT !.unknown = <<>>]
  BY DEF Clear, h
<1>. QED
  BY <1>1, <1>2, <1>3, <1>4, <1>5

LEMMA ShapeIsMade ==
    ASSUME NEW T, NEW m, HasShape(T, m)
    PROVE  m = Made(m.f, m.unknown)
<1>1. m.f = [k \in DOMAIN T |-> m.f[k]]
  BY DEF HasShape, Made
<1>. QED
  BY <1>1 DEF HasShape

-----------------------------------------------------------------------------
(* The size that is computed is the length of what is written. *)

IsSum(f, N, c, z) ==
    /\ DOMAIN f = 0..N /\ f[0] = c
    /\ \A n \in 1..N : f[n] = f[n - 1] + z[n]

LEMMA Sums ==
    ASSUME NEW N \in Nat, NEW c \in Nat, NEW z \in [1..N -> Nat]
    PROVE  \E f : IsSum(f, N, c, z)
<1>. DEFINE S == [n \in 1..N |-> [x \in Nat |-> x + z[n]]]
<1>1. \A n \in 1..N : [x \in Nat |-> x + z[n]] \in [Nat -> Nat]
  OBVIOUS
<1>2. Steps(S, N, Nat)
  <2>1. \A n \in 1..N : S[n] \in [Nat -> Nat]
    BY <1>1
  <2>. QED
    BY <2>1 DEF Steps
<1>3. PICK f : IsRecursion(f, N, Nat, c, S)
  <2>. HIDE DEF S
  <2>. QED
    BY <1>2, Recursion
<1>4. f \in [0..N -> Nat] /\ f[0] = c /\ \A n \in 1..N : f[n] = S[n][f[n - 1]]
  BY <1>3 DEF IsRecursion
<1>5. ASSUME NEW n \in 1..N
      PROVE  f[n] = f[n - 1] + z[n]
  <2>1. n - 1 \in 0..N /\ f[n - 1] \in Nat
    BY <1>4
  <2>2. S[n] = [x \in Nat |-> x + z[n]]
    OBVIOUS
  <2>. HIDE DEF S
  <2>. QED
    BY <1>4, <2>1, <2>2
<1>. QED
  BY <1>4, <1>5 DEF IsSum

LEMMA SumOfLengths ==
    ASSUME NEW s \in Seq(Seq(Byte)), NEW u \in Seq(Byte), NEW N, N = Len(s), NEW z,
           \A n \in 1..N : z[n] = Len(s[n]),
           NEW f, IsSum(f, N, Len(u), z)
    PROVE  f[N] = Len(FlattenSeq(s) \o u)
<1>1. N \in Nat /\ \A n \in 1..N : s[n] \in Seq(Byte)
  OBVIOUS
<1>2. PICK g \in [0..N -> Seq(Byte)] :
         /\ g[0] = <<>> /\ g[N] = FlattenSeq(s)
         /\ \A n \in 1..N : g[n] = g[n - 1] \o s[n]
  BY FlattenFacts
<1>3. f[0] = Len(u) /\ \A n \in 1..N : f[n] = f[n - 1] + z[n]
  BY DEF IsSum
<1>. DEFINE U == {n \in 0..N : f[n] = Len(u) + Len(g[n])}
<1>4. 0 \in U
  BY <1>1, <1>2, <1>3
<1>5. ASSUME NEW n \in 1..N, n - 1 \in U
      PROVE  n \in U
  <2>1. n \in 0..N /\ n - 1 \in 0..N
    BY <1>1
  <2>. DEFINE a == g[n - 1]
              b == s[n]
  <2>2. a \in Seq(Byte) /\ b \in Seq(Byte) /\ g[n] = a \o b
    BY <1>1, <1>2, <2>1
  <2>3. f[n] = f[n - 1] + Len(b) /\ f[n - 1] = Len(u) + Len(a)
    BY <1>3, <1>5
  <2>. HIDE DEF a, b
  <2>4. Len(a \o b) = Len(a) + Len(b) /\ Len(a) \in Nat /\ Len(b) \in Nat
    BY <2>2
  <2>5. f[n] = Len(u) + Len(g[n])
    BY <2>2, <2>3, <2>4
  <2>. QED
    BY <2>1, <2>5
<1>6. 0..N \subseteq U
  <2>. HIDE DEF U
  <2>. QED
    BY <1>1, <1>4, <1>5, RangeInduction
<1>7. f[N] = Len(u) + Len(g[N])
  BY <1>1, <1>6
<1>8. Len(g[N] \o u) = Len(g[N]) + Len(u)
  <2>1. g[N] \in Seq(Byte)
    BY <1>1, <1>2
  <2>. QED
    BY <2>1
<1>. QED
  BY <1>1, <1>2, <1>7, <1>8

LEMMA EmbeddedTotal ==
    ASSUME NEW s, NEW N, N = Len(Embedded), N \in Nat, NEW c, c = Len(s.unknown), c \in Nat,
           NEW z \in [1..N -> Nat], \A k \in 1..N : z[k] = FlatSize(Embedded[k], s.f[k])
    PROVE  \E f : IsSum(f, N, c, z) /\ EmbeddedSize(s) = f[N]
<1>. DEFINE E(g) == g = [k \in 0..N |-> IF k = 0 THEN c
                                       ELSE g[k - 1] + FlatSize(Embedded[k], s.f[k])]
            total[k \in 0..N] == IF k = 0 THEN c ELSE total[k - 1] + FlatSize(Embedded[k], s.f[k])
<1>1. PICK g : IsSum(g, N, c, z)
  BY Sums
<1>. DEFINE h == [k \in 0..N |-> g[k]]
<1>2. E(h)
  <2>1. ASSUME NEW k \in 0..N
        PROVE  h[k] = IF k = 0 THEN c ELSE h[k - 1] + FlatSize(Embedded[k], s.f[k])
    <3>1. CASE k = 0
      BY <1>1, <3>1 DEF IsSum
    <3>2. CASE k # 0
      <4>1. k \in 1..N /\ k - 1 \in 0..N
        BY <3>2
      <4>2. g[k] = g[k - 1] + z[k]
        BY <1>1, <4>1 DEF IsSum
      <4>3. z[k] = FlatSize(Embedded[k], s.f[k])
        BY <4>1
      <4>. QED
        BY <3>2, <4>1, <4>2, <4>3
    <3>. QED
      BY <3>1, <3>2
  <2>. QED
    BY <2>1
<1>3. E(total)
  <2>1. total = CHOOSE g2 : E(g2)
    OBVIOUS
  <2>. HIDE DEF total, E, h
  <2>. QED
    BY <1>2, <2>1
<1>4. EmbeddedSize(s) = total[N]
  BY DEF EmbeddedSize
<1>. HIDE DEF total
<1>5. IsSum(total, N, c, z)
  <2>1. DOMAIN total = 0..N
    BY <1>3
  <2>2. ASSUME NEW k \in 0..N
        PROVE  total[k] = IF k = 0 THEN c ELSE total[k - 1] + FlatSize(Embedded[k], s.f[k])
    BY <1>3
  <2>. HIDE DEF E, h
  <2>3. total[0] = c
    <3>1. 0 \in 0..N
      OBVIOUS
    <3>. QED
      BY <2>2, <3>1
  <2>4. ASSUME NEW k \in 1..N
        PROVE  total[k] = total[k - 1] + z[k]
    <3>1. k \in 0..N /\ k # 0 /\ z[k] = FlatSize(Embedded[k], s.f[k])
      OBVIOUS
    <3>. QED
      BY <2>2, <3>1
  <2>. QED
    BY <2>1, <2>3, <2>4 DEF IsSum
<1>. QED
  BY <1>4, <1>5

LEMMA MessageTotal ==
    ASSUME NEW T, NEW m, NEW N, N = Len(T), N \in Nat, NEW c, c = Len(m.unknown), c \in Nat,
           NEW z \in [1..N -> Nat], \A k \in 1..N : z[k] = FieldSize(T[k], m.f[k])
    PROVE  \E f : IsSum(f, N, c, z) /\ ByteSizeLong(T, m) = f[N]
<1>. DEFINE E(g) == g = [k \in 0..N |-> IF k = 0 THEN c
                                       ELSE g[k - 1] + FieldSize(T[k], m.f[k])]
            total[k \in 0..N] == IF k = 0 THEN c ELSE total[k - 1] + FieldSize(T[k], m.f[k])
<1>1. PICK g : IsSum(g, N, c, z)
  BY Sums
<1>. DEFINE h == [k \in 0..N |-> g[k]]
<1>2. E(h)
  <2>1. ASSUME NEW k \in 0..N
        PROVE  h[k] = IF k = 0 THEN c ELSE h[k - 1] + FieldSize(T[k], m.f[k])
    <3>1. CASE k = 0
      BY <1>1, <3>1 DEF IsSum
    <3>2. CASE k # 0
      <4>1. k \in 1..N /\ k - 1 \in 0..N
        BY <3>2
      <4>2. g[k] = g[k - 1] + z[k]
        BY <1>1, <4>1 DEF IsSum
      <4>3. z[k] = FieldSize(T[k], m.f[k])
        BY <4>1
      <4>. QED
        BY <3>2, <4>1, <4>2, <4>3
    <3>. QED
      BY <3>1, <3>2
  <2>. QED
    BY <2>1
<1>3. E(total)
  <2>1. total = CHOOSE g2 : E(g2)
    OBVIOUS
  <2>. HIDE DEF total, E, h
  <2>. QED
    BY <1>2, <2>1
<1>4. ByteSizeLong(T, m) = total[N]
  BY DEF ByteSizeLong
<1>. HIDE DEF total
<1>5. IsSum(total, N, c, z)
  <2>1. DOMAIN total = 0..N
    BY <1>3
  <2>2. ASSUME NEW k \in 0..N
        PROVE  total[k] = IF k = 0 THEN c ELSE total[k - 1] + FieldSize(T[k], m.f[k])
    BY <1>3
  <2>. HIDE DEF E, h
  <2>3. total[0] = c
    <3>1. 0 \in 0..N
      OBVIOUS
    <3>. QED
      BY <2>2, <3>1
  <2>4. ASSUME NEW k \in 1..N
        PROVE  total[k] = total[k - 1] + z[k]
    <3>1. k \in 0..N /\ k # 0 /\ z[k] = FieldSize(T[k], m.f[k])
      OBVIOUS
    <3>. QED
      BY <2>2, <3>1
  <2>. QED
    BY <2>1, <2>3, <2>4 DEF IsSum
<1>. QED
  BY <1>4, <1>5

LEMMA FlatLength ==
    ASSUME NEW s, \A k \in DOMAIN Embedded : IsPlain(Embedded[k], s.f[k]),
           s.unknown \in Seq(Byte)
    PROVE  Len(SerializeFlat(s)) = EmbeddedSize(s)
<1>. DEFINE N == Len(Embedded)
            q == InOrder(Embedded, s.f)
            u == s.unknown
            z == [k \in 1..N |-> FlatSize(Embedded[k], s.f[k])]
<1>1. N \in Nat /\ DOMAIN Embedded = 1..N
  BY DEF Embedded, ResultCode
<1>. HIDE DEF N
<1>2. /\ SerializeFlat(s) = FlattenSeq(q) \o u
      /\ \A k \in 1..N : /\ Field(k, Embedded[k], s.f[k]) \in Seq(Byte)
                         /\ Len(Field(k, Embedded[k], s.f[k])) = FlatSize(Embedded[k], s.f[k])
  BY <1>1, FlatWritten
<1>3. q \in Seq(Seq(Byte)) /\ Len(q) = N /\ \A k \in 1..N : q[k] = Field(k, Embedded[k], s.f[k])
  BY <1>1, <1>2 DEF InOrder
<1>4. \A k \in 1..N : FlatSize(Embedded[k], s.f[k]) \in Nat
  BY <1>2
<1>. HIDE DEF q
<1>5. z \in [1..N -> Nat] /\ \A k \in 1..N : z[k] = FlatSize(Embedded[k], s.f[k])
  BY <1>4
<1>6. \A k \in 1..N : z[k] = Len(q[k])
  BY <1>2, <1>3
<1>. HIDE DEF z
<1>7. Len(u) \in Nat /\ u \in Seq(Byte)
  OBVIOUS
<1>8. PICK f : IsSum(f, N, Len(u), z) /\ EmbeddedSize(s) = f[N]
  <2>1. N = Len(Embedded)
    BY DEF N
  <2>. QED
    BY <1>1, <1>5, <1>7, <2>1, EmbeddedTotal
<1>. HIDE DEF u
<1>9. f[N] = Len(FlattenSeq(q) \o u)
  BY <1>3, <1>6, <1>7, <1>8, SumOfLengths
<1>. QED
  BY <1>2, <1>8, <1>9

LEMMA ValueSize ==
    ASSUME NEW T, MessageType(T), NEW k \in DOMAIN T, NEW v, IsValue(T[k], v)
    PROVE  Len(Field(k, T[k], v)) = FieldSize(T[k], v)
<1>1. CASE IsPlain(T[k], v)
  <2>1. Len(Field(k, T[k], v)) = FlatSize(T[k], v)
    BY <1>1, PlainMerges
  <2>2. T[k] = "message" => v = {}
    BY <1>1 DEF IsPlain
  <2>. QED
    BY <2>1, <2>2 DEF FieldSize
<1>2. CASE T[k] = "message" /\ v = {Only(v)} /\ IsFlat(Only(v))
  <2>. DEFINE s == Only(v)
              w == {}
  <2>1. HasShape(Embedded, Existing(w))
    BY OnlyFacts, NewFacts, EmbeddedFacts DEF WellFormed
  <2>. HIDE DEF w
  <2>2. Len(Field(k, T[k], v)) = 1 + LengthSize(Len(SerializeFlat(s)))
    BY <1>2, <2>1, MessageMerges
  <2>3. Len(SerializeFlat(s)) = EmbeddedSize(s)
    BY <1>2, FlatLength DEF IsFlat, HasShape
  <2>4. v # {}
    BY <1>2, OnlyFacts
  <2>. QED
    BY <1>2, <2>2, <2>3, <2>4 DEF FieldSize
<1>. QED
  BY <1>1, <1>2 DEF IsValue

LEMMA WholeSize ==
    ASSUME NEW T, MessageType(T), NEW m, WellFormed(T, m)
    PROVE  Len(SerializeToString(T, m)) = ByteSizeLong(T, m)
<1>. DEFINE N == Len(T)
            q == InOrder(T, m.f)
            u == m.unknown
            z == [k \in 1..N |-> FieldSize(T[k], m.f[k])]
<1>1. N \in Nat /\ DOMAIN T = 1..N
  BY DEF MessageType
<1>2. SerializeToString(T, m) = FlattenSeq(q) \o u /\ u \in Seq(Byte)
  BY DEF SerializeToString, InOrder, WellFormed, HasShape
<1>3. ASSUME NEW k \in 1..N
      PROVE  /\ Field(k, T[k], m.f[k]) \in Seq(Byte)
             /\ Len(Field(k, T[k], m.f[k])) = FieldSize(T[k], m.f[k])
  <2>. DEFINE v == m.f[k]
  <2>1. k \in DOMAIN T /\ IsValue(T[k], v) /\ CanHold(T, m.f)
    BY <1>1, Holds DEF WellFormed
  <2>2. T[k] = "message" => HasShape(Embedded, Existing(v))
    BY <2>1 DEF CanHold
  <2>. HIDE DEF v
  <2>3. Field(k, T[k], v) \in Seq(Byte)
    BY <2>1, <2>2, ValueMerges
  <2>4. Len(Field(k, T[k], v)) = FieldSize(T[k], v)
    BY <2>1, ValueSize
  <2>. QED
    BY <2>3, <2>4 DEF v
<1>. HIDE DEF N
<1>4. q \in Seq(Seq(Byte)) /\ Len(q) = N /\ \A k \in 1..N : q[k] = Field(k, T[k], m.f[k])
  BY <1>1, <1>3 DEF InOrder
<1>5. \A k \in 1..N : FieldSize(T[k], m.f[k]) \in Nat
  BY <1>3
<1>. HIDE DEF q
<1>6. z \in [1..N -> Nat] /\ \A k \in 1..N : z[k] = FieldSize(T[k], m.f[k])
  BY <1>5
<1>7. \A k \in 1..N : z[k] = Len(q[k])
  BY <1>3, <1>4
<1>. HIDE DEF z
<1>8. Len(u) \in Nat
  BY <1>2
<1>9. PICK f : IsSum(f, N, Len(u), z) /\ ByteSizeLong(T, m) = f[N]
  BY <1>1, <1>6, <1>8, MessageTotal DEF N
<1>. HIDE DEF u
<1>10. f[N] = Len(FlattenSeq(q) \o u)
  BY <1>2, <1>4, <1>7, <1>9, SumOfLengths
<1>. QED
  BY <1>2, <1>9, <1>10

-----------------------------------------------------------------------------
(* What the parser leaves, whether it succeeds or fails, is well-formed. *)

LEMMA ReadTypes ==
    ASSUME NEW b \in Seq(Byte), NEW t, t = ReadField(b)
    PROVE  IsToken(t) /\ t \in Tokens /\ (t.ok => IsCovered(t))
BY FieldTypes, BehindField

\* A value that was read takes no more room when it is written.
LEMMA ValueFits ==
    ASSUME NEW kind \in Kinds, kind # "message", NEW t, IsToken(t), IsCovered(t),
           t.wire = Wire(kind), NEW v, v = Value(kind, t)
    PROVE  IsPlain(kind, v) /\ FlatSize(kind, v) \in Nat /\ FlatSize(kind, v) <= Len(t.raw)
<1>. DEFINE n == Len(t.raw)
<1>1. /\ t.val \in Nat /\ t.bytes \in Seq(Byte) /\ n \in Nat
      /\ IsFixed64(t.val) /\ (t.wire # 1 => t.val < Limit) /\ Len(t.bytes) < Limit
  BY DEF IsToken
<1>2. /\ n >= 2
      /\ t.wire = 0 => n >= 1 + VarintSize(t.val)
      /\ t.wire = 1 => n >= 9
      /\ t.wire = 2 => n >= 1 + VarintSize(Len(t.bytes)) + Len(t.bytes)
  BY DEF IsCovered
<1>3. \A i : VarintSize(i) \in 1..4
  BY DEF VarintSize
<1>. HIDE DEF n
<1>4. CASE kind = "bytes"
  <2>1. v = t.bytes /\ t.wire = 2 /\ FlatSize(kind, v) = (IF v = <<>> THEN 0 ELSE 1 + LengthSize(Len(v)))
    BY <1>4 DEF Value, Wire, FlatSize, Default
  <2>2. LengthSize(Len(v)) = VarintSize(Len(v)) + Len(v) /\ VarintSize(Len(v)) \in 1..4
    BY <1>3 DEF LengthSize
  <2>3. Len(v) \in Nat
    BY <1>1, <2>1
  <2>4. FlatSize(kind, v) \in Nat /\ FlatSize(kind, v) <= n
    BY <1>1, <1>2, <2>1, <2>2, <2>3
  <2>5. IsPlain(kind, v)
    BY <1>1, <1>4, <2>1 DEF IsPlain
  <2>. QED
    BY <2>4, <2>5 DEF n
<1>5. CASE kind = "fixed64"
  <2>1. v = t.val /\ t.wire = 1 /\ FlatSize(kind, v) \in {0, 9}
    BY <1>5 DEF Value, Wire, FlatSize
  <2>2. IsPlain(kind, v)
    BY <1>1, <1>5, <2>1 DEF IsPlain
  <2>. QED
    BY <1>1, <1>2, <2>1, <2>2 DEF n
<1>6. CASE kind = "bool"
  <2>1. v \in {0, 1} /\ FlatSize(kind, v) \in {0, 2}
    BY <1>6 DEF Value, FlatSize
  <2>2. IsPlain(kind, v)
    BY <1>6, <2>1 DEF IsPlain
  <2>. QED
    BY <1>1, <1>2, <2>1, <2>2 DEF n
<1>7. CASE kind \in {"enum", "int32", "uint32"}
  <2>1. v = t.val /\ t.wire = 0
    BY <1>7 DEF Value, Wire
  <2>2. FlatSize(kind, v) \in {0, 1 + VarintSize(v)}
    BY <1>7 DEF FlatSize
  <2>3. IsPlain(kind, v)
    BY <1>1, <1>7, <2>1 DEF IsPlain
  <2>4. VarintSize(v) \in 1..4 /\ n >= 1 + VarintSize(v)
    BY <1>2, <1>3, <2>1
  <2>. QED
    BY <1>1, <2>2, <2>3, <2>4 DEF n
<1>. QED
  BY <1>4, <1>5, <1>6, <1>7 DEF Kinds

LEMMA EmbeddedSum ==
    ASSUME NEW s, \A k \in DOMAIN Embedded : IsPlain(Embedded[k], s.f[k]),
           s.unknown \in Seq(Byte)
    PROVE  /\ FlatSize(Embedded[1], s.f[1]) \in Nat /\ FlatSize(Embedded[2], s.f[2]) \in Nat
           /\ EmbeddedSize(s) = (Len(s.unknown) + FlatSize(Embedded[1], s.f[1]))
                                  + FlatSize(Embedded[2], s.f[2])
<1>. DEFINE N == Len(Embedded)
            c == Len(s.unknown)
            z == [k \in 1..N |-> FlatSize(Embedded[k], s.f[k])]
<1>1. N = 2 /\ DOMAIN Embedded = 1..2
  BY DEF Embedded, ResultCode
<1>2. c \in Nat
  OBVIOUS
<1>3. \A k \in 1..2 : FlatSize(Embedded[k], s.f[k]) \in Nat
  <2>1. ASSUME NEW k \in 1..2
        PROVE  FlatSize(Embedded[k], s.f[k]) \in Nat
    <3>1. /\ Field(k, Embedded[k], s.f[k]) \in Seq(Byte)
          /\ Len(Field(k, Embedded[k], s.f[k])) = FlatSize(Embedded[k], s.f[k])
      BY <1>1, FlatWritten
    <3>. QED
      BY <3>1
  <2>. QED
    BY <2>1
<1>4. z \in [1..N -> Nat] /\ \A k \in 1..N : z[k] = FlatSize(Embedded[k], s.f[k])
  BY <1>1, <1>3
<1>5. N = Len(Embedded) /\ c = Len(s.unknown) /\ N \in Nat
  BY <1>1
<1>. HIDE DEF N, c, z
<1>6. PICK f : IsSum(f, N, c, z) /\ EmbeddedSize(s) = f[N]
  BY <1>2, <1>4, <1>5, EmbeddedTotal
<1>7. f[0] = c /\ f[1] = f[0] + z[1] /\ f[2] = f[1] + z[2]
  <2>1. 1 \in 1..2 /\ 2 \in 1..2 /\ 1 - 1 = 0 /\ 2 - 1 = 1
    OBVIOUS
  <2>. QED
    BY <1>1, <1>6, <2>1 DEF IsSum
<1>8. z[1] = FlatSize(Embedded[1], s.f[1]) /\ z[2] = FlatSize(Embedded[2], s.f[2])
  BY <1>1, <1>4
<1>. QED
  BY <1>1, <1>3, <1>6, <1>7, <1>8 DEF c

\* An embedded message that takes at most n bytes.
FlatFits(s, n) ==
    /\ HasShape(Embedded, s)
    /\ \A k \in DOMAIN Embedded : IsPlain(Embedded[k], s.f[k])
    /\ IsUnknown(Embedded, s.unknown)
    /\ EmbeddedSize(s) \in Nat /\ EmbeddedSize(s) <= n

LEMMA FitsIsFlat ==
    ASSUME NEW s, NEW n \in Nat, FlatFits(s, n), n < Limit
    PROVE  IsFlat(s)
<1>1. Len(SerializeFlat(s)) = EmbeddedSize(s)
  BY FlatLength DEF FlatFits, HasShape
<1>2. Limit \in Nat
  BY SMT DEF Limit
<1>3. Len(SerializeFlat(s)) < Limit
  BY <1>1, <1>2 DEF FlatFits
<1>. QED
  BY <1>3 DEF FlatFits, IsFlat

LEMMA MadeFacts ==
    ASSUME NEW f, NEW u
    PROVE  Made(f, u).f = f /\ Made(f, u).unknown = u
BY DEF Made

LEMMA SetShape ==
    ASSUME NEW T, NEW m, HasShape(T, m), NEW k \in DOMAIN T, NEW v, NEW y, y = Set(m, k, v)
    PROVE  /\ HasShape(T, y) /\ y.unknown = m.unknown /\ y.f[k] = v
           /\ \A i \in DOMAIN T : i # k => y.f[i] = m.f[i]
<1>. DEFINE f == m.f
            u == m.unknown
            g == [f EXCEPT ![k] = v]
<1>1. f = [i \in DOMAIN T |-> f[i]] /\ m = Made(f, u) /\ u \in Seq(Byte)
  BY ShapeIsMade, MadeFacts DEF HasShape
<1>. HIDE DEF f, u
<1>2. y = Made(g, u)
  BY <1>1, SetMade
<1>3. y.f = g /\ y.unknown = u
  BY <1>2, MadeFacts
<1>4. DOMAIN f = DOMAIN T
  BY <1>1
<1>5. g = [i \in DOMAIN T |-> IF i = k THEN v ELSE f[i]]
  BY <1>4
<1>. HIDE DEF g
<1>6. g = [i \in DOMAIN T |-> g[i]] /\ g[k] = v /\ \A i \in DOMAIN T : i # k => g[i] = f[i]
  BY <1>5
<1>7. HasShape(T, y)
  BY <1>1, <1>2, <1>3, <1>6 DEF HasShape
<1>. QED
  BY <1>3, <1>6, <1>7 DEF f, u

Appended(x, p) == x \o p

LEMMA KeptShape ==
    ASSUME NEW T, NEW m, HasShape(T, m), NEW t, NEW p, p = t.raw, p \in Seq(Byte),
           NEW x, x = m.unknown, NEW y, y = Kept(m, t)
    PROVE  HasShape(T, y) /\ y.unknown = Appended(x, p) /\ y.f = m.f
<1>. DEFINE f == m.f
<1>1. f = [i \in DOMAIN T |-> f[i]] /\ m = Made(f, x) /\ x \in Seq(Byte)
  BY ShapeIsMade, MadeFacts DEF HasShape
<1>. HIDE DEF f
<1>2. y = Made(f, x \o p)
  BY <1>1, KeptMade
<1>3. x \o p \in Seq(Byte)
  BY <1>1
<1>4. y.f = f /\ y.unknown = x \o p
  <2>. DEFINE q == x \o p
  <2>. HIDE DEF q
  <2>1. y = Made(f, q) => y.f = f /\ y.unknown = q
    BY MadeFacts
  <2>. QED
    BY <1>2, <2>1 DEF q
<1>5. HasShape(T, y)
  BY <1>1, <1>2, <1>3, <1>4 DEF HasShape
<1>. QED
  BY <1>4, <1>5 DEF f, Appended

LEMMA FlatStep ==
    ASSUME NEW s, NEW n \in Nat, FlatFits(s, n), NEW b \in Seq(Byte),
           NEW t, t = ReadField(b), t.ok, NEW y, Absorb(Embedded, Going(s), t) = Going(y) 
    PROVE  FlatFits(y, n + Len(t.raw))
<1>. DEFINE p == t.raw
            l == Len(p)
<1>1. IsToken(t) /\ t \in Tokens /\ IsCovered(t) /\ IsPiece(p) /\ ReadField(p) = t
  BY ReadTypes, FirstPiece
<1>2. p \in Seq(Byte) /\ l \in Nat
  BY <1>1 DEF IsPiece
<1>3. /\ HasShape(Embedded, s) /\ IsUnknown(Embedded, s.unknown)
      /\ \A k \in DOMAIN Embedded : IsPlain(Embedded[k], s.f[k])
      /\ EmbeddedSize(s) \in Nat /\ EmbeddedSize(s) <= n /\ s.unknown \in Seq(Byte)
  BY DEF FlatFits, HasShape
<1>4. DOMAIN Embedded = 1..2
  BY EmbeddedFacts
<1>. DEFINE u == Len(s.unknown)
            c1 == FlatSize(Embedded[1], s.f[1])
            c2 == FlatSize(Embedded[2], s.f[2])
            d1 == FlatSize(Embedded[1], y.f[1])
            d2 == FlatSize(Embedded[2], y.f[2])
<1>5. c1 \in Nat /\ c2 \in Nat /\ EmbeddedSize(s) = (u + c1) + c2 /\ u \in Nat
  BY <1>3, EmbeddedSum
<1>6. CASE Skips(Embedded, t)
  <2>1. y = Kept(s, t)
    BY <1>6, AbsorbFacts, StateFacts
  <2>2. HasShape(Embedded, y) /\ y.unknown = s.unknown \o p /\ y.f = s.f
    <3>. DEFINE x == s.unknown
    <3>1. p = t.raw /\ p \in Seq(Byte) /\ HasShape(Embedded, s) /\ x = s.unknown
      BY <1>2, <1>3
    <3>. HIDE DEF x, p
    <3>2. HasShape(Embedded, y) /\ y.unknown = Appended(x, p) /\ y.f = s.f
      BY ONLY <2>1, <3>1, KeptShape
    <3>. QED
      BY <3>1, <3>2 DEF Appended
  <2>3. IsUnknown(Embedded, y.unknown)
    BY <1>1, <1>3, <1>6, <2>2, UnknownMore
  <2>4. Len(y.unknown) = u + l
    BY <1>2, <1>3, <2>2
  <2>5. y.unknown \in Seq(Byte)
    BY <2>2 DEF HasShape
  <2>6. EmbeddedSize(y) = (Len(y.unknown) + c1) + c2
    BY <1>3, <2>2, <2>5, EmbeddedSum
  <2>. HIDE DEF u, c1, c2, l
  <2>7. EmbeddedSize(y) \in Nat /\ EmbeddedSize(y) <= n + l
    BY <1>2, <1>3, <1>5, <2>4, <2>6
  <2>. QED
    BY <1>3, <2>2, <2>3, <2>7 DEF FlatFits, l
<1>7. CASE ~Skips(Embedded, t)
  <2>. DEFINE k == t.num
              v == Value(Embedded[k], t)
  <2>1. k \in DOMAIN Embedded /\ t.wire = Wire(Embedded[k])
    BY <1>7 DEF Skips
  <2>2. Embedded[k] # "message" /\ Embedded[k] \in Kinds
    BY <2>1, EmbeddedFacts
  <2>3. IsPlain(Embedded[k], v) /\ FlatSize(Embedded[k], v) \in Nat /\ FlatSize(Embedded[k], v) <= l
    BY <1>1, <2>1, <2>2, ValueFits
  <2>4. y = Set(s, k, v)
    BY <1>7, <2>2, AbsorbFacts, StateFacts
  <2>. HIDE DEF k, v
  <2>5. /\ HasShape(Embedded, y) /\ y.unknown = s.unknown /\ y.f[k] = v
        /\ \A i \in DOMAIN Embedded : i # k => y.f[i] = s.f[i]
    BY <1>3, <2>1, <2>4, SetShape
  <2>6. \A i \in DOMAIN Embedded : IsPlain(Embedded[i], y.f[i])
    BY <1>3, <2>3, <2>5
  <2>7. d1 \in Nat /\ d2 \in Nat /\ EmbeddedSize(y) = (u + d1) + d2
    BY <1>3, <2>5, <2>6, EmbeddedSum
  <2>8. (d1 <= l /\ d2 = c2) \/ (d1 = c1 /\ d2 <= l)
    BY <1>4, <2>1, <2>3, <2>5
  <2>. HIDE DEF u, c1, c2, d1, d2, l
  <2>9. EmbeddedSize(y) \in Nat /\ EmbeddedSize(y) <= n + l
    <3>. DEFINE e == EmbeddedSize(s)
                x == EmbeddedSize(y)
    <3>1. /\ l \in Nat /\ u \in Nat /\ c1 \in Nat /\ c2 \in Nat /\ d1 \in Nat /\ d2 \in Nat
          /\ n \in Nat /\ e = (u + c1) + c2 /\ e <= n /\ x = (u + d1) + d2
      BY <1>2, <1>3, <1>5, <2>7
    <3>. HIDE DEF e, x
    <3>2. CASE d1 <= l /\ d2 = c2
      BY ONLY <3>1, <3>2, SMT DEF x
    <3>3. CASE d1 = c1 /\ d2 <= l
      BY ONLY <3>1, <3>3, SMT DEF x
    <3>. QED
      BY <2>8, <3>2, <3>3
  <2>. QED
    BY <1>3, <2>5, <2>6, <2>9 DEF FlatFits, l
<1>. QED
  BY <1>6, <1>7

LEMMA FlatMore ==
    ASSUME NEW s, NEW n \in Nat, FlatFits(s, n), NEW i \in Nat, n <= i
    PROVE  FlatFits(s, i)
BY DEF FlatFits

LEMMA FlatCloses ==
    ASSUME NEW s, NEW n \in Nat, FlatFits(s, n), NEW b \in Seq(Byte)
    PROVE  FlatFits(Reading(Embedded, s, b).m, n + Len(b))
<1>. DEFINE Holds2(b2) == \A z, c : c \in Nat /\ FlatFits(z, c) =>
                          FlatFits(Reading(Embedded, z, b2).m, c + Len(b2))
            U == {i \in Nat : \A b2 \in Seq(Byte) : Len(b2) < i => Holds2(b2)}
<1>1. 0 \in U
  OBVIOUS
<1>2. ASSUME NEW i \in Nat, i \in U
      PROVE  i + 1 \in U
  <2>1. ASSUME NEW b2 \in Seq(Byte), Len(b2) < i + 1, NEW z, NEW c \in Nat, FlatFits(z, c)
        PROVE  FlatFits(Reading(Embedded, z, b2).m, c + Len(b2))
    <3>1. CASE b2 = <<>>
      <4>1. Reading(Embedded, z, b2).m = z /\ c + Len(b2) = c
        BY <3>1, ReadNothing, StateFacts
      <4>. QED
        BY <2>1, <4>1
    <3>2. CASE b2 # <<>>
      <4>. DEFINE t == ReadField(b2)
                  a == Absorb(Embedded, Going(z), t)
                  d == Behind(b2, Len(t.raw))
      <4>1. Reading(Embedded, z, b2) = IF a.ok THEN Reading(Embedded, a.m, d) ELSE a
        BY <3>2, ReadNext
      <4>2. CASE ~t.ok
        <5>1. a = Failed(z)
          BY <4>2, AbsorbFacts
        <5>2. Reading(Embedded, z, b2).m = z
          BY <4>1, <5>1, StateFacts
        <5>3. c <= c + Len(b2) /\ c + Len(b2) \in Nat
          OBVIOUS
        <5>. QED
          BY <2>1, <5>2, <5>3, FlatMore
      <4>3. CASE t.ok
        <5>1. \E y : a = Going(y)
          <6>1. CASE Skips(Embedded, t)
            BY <4>3, <6>1, AbsorbFacts
          <6>2. CASE ~Skips(Embedded, t)
            <7>1. Embedded[t.num] # "message"
              BY <6>2, EmbeddedFacts DEF Skips
            <7>. QED
              BY <4>3, <6>2, <7>1, AbsorbFacts
          <6>. QED
            BY <6>1, <6>2
        <5>2. PICK y : a = Going(y)
          BY <5>1
        <5>. DEFINE p == t.raw
        <5>3. p \in Seq(Byte) /\ d \in Seq(Byte) /\ b2 = p \o d /\ Len(d) < Len(b2)
          BY <4>3, FirstPiece DEF IsPiece
        <5>4. FlatFits(y, c + Len(p))
          BY <2>1, <4>3, <5>2, FlatStep
        <5>5. Reading(Embedded, z, b2) = Reading(Embedded, y, d)
          BY <4>1, <5>2, StateFacts
        <5>. HIDE DEF t, a, d, p
        <5>6. Len(b2) = Len(p) + Len(d) /\ Len(p) \in Nat /\ Len(d) \in Nat
          BY <5>3
        <5>7. Len(d) < i /\ c + Len(p) \in Nat
          BY <2>1, <5>3, <5>6
        <5>8. Holds2(d)
          BY <1>2, <5>3, <5>7
        <5>9. FlatFits(Reading(Embedded, y, d).m, (c + Len(p)) + Len(d))
          BY <5>4, <5>7, <5>8
        <5>10. (c + Len(p)) + Len(d) = c + Len(b2)
          BY <5>6
        <5>. QED
          BY <5>5, <5>9, <5>10
      <4>. QED
        BY <4>2, <4>3
    <3>. QED
      BY <3>1, <3>2
  <2>2. \A b2 \in Seq(Byte) : Len(b2) < i + 1 => Holds2(b2)
    BY <2>1
  <2>. QED
    BY <2>2
<1>3. Nat \subseteq U
  <2>. HIDE DEF U
  <2>. QED
    BY <1>1, <1>2, SetInduction
<1>4. Len(b) + 1 \in U /\ Len(b) < Len(b) + 1
  BY <1>3
<1>5. Holds2(b)
  BY <1>4
<1>. QED
  BY <1>5

LEMMA LimitNat == Limit \in Nat /\ 0 < Limit
BY SMT DEF Limit

LEMMA NewFits ==
    FlatFits(New(Embedded), 0) /\ EmbeddedSize(New(Embedded)) = 0
<1>. DEFINE s == New(Embedded)
<1>1. WellFormed(Embedded, s) /\ s.unknown = <<>>
      /\ \A k \in DOMAIN Embedded : s.f[k] = Default(Embedded[k])
  BY NewFacts, EmbeddedFacts
<1>2. DOMAIN Embedded = 1..2 /\ \A k \in DOMAIN Embedded : Embedded[k] # "message"
  BY EmbeddedFacts
<1>3. \A k \in DOMAIN Embedded : IsPlain(Embedded[k], s.f[k])
  BY <1>1, <1>2 DEF WellFormed, IsValue
<1>4. HasShape(Embedded, s) /\ IsUnknown(Embedded, s.unknown) /\ s.unknown \in Seq(Byte)
  BY <1>1 DEF WellFormed, HasShape
<1>5. FlatSize(Embedded[1], s.f[1]) = 0 /\ FlatSize(Embedded[2], s.f[2]) = 0 /\ Len(s.unknown) = 0
  <2>1. 1 \in DOMAIN Embedded /\ 2 \in DOMAIN Embedded
    BY <1>2
  <2>. QED
    BY <1>1, <2>1 DEF FlatSize
<1>6. EmbeddedSize(s) = (0 + 0) + 0
  BY <1>3, <1>4, <1>5, EmbeddedSum
<1>. QED
  BY <1>3, <1>4, <1>6 DEF FlatFits

LEMMA ExistingFits ==
    ASSUME NEW v, IsValue("message", v), NEW s, s = Existing(v)
    PROVE  FlatFits(s, EmbeddedSize(s)) /\ EmbeddedSize(s) \in Nat
<1>1. CASE v = {}
  <2>1. s = New(Embedded)
    BY <1>1, OnlyFacts
  <2>. QED
    BY <2>1, NewFits
<1>2. CASE v # {}
  <2>1. v = {Only(v)} /\ IsFlat(Only(v))
    BY <1>2 DEF IsValue, IsPlain
  <2>2. s = Only(v)
    BY <1>2 DEF Existing
  <2>3. IsFlat(s)
    BY <2>1, <2>2
  <2>4. Len(SerializeFlat(s)) = EmbeddedSize(s) /\ SerializeFlat(s) \in Seq(Byte)
    <3>1. HasShape(Embedded, s)
      BY <2>3 DEF IsFlat
    <3>2. SerializeFlat(s) \in Seq(Byte)
      BY <2>3, <3>1, EmbeddedMerges
    <3>. QED
      BY <2>3, <3>2, FlatLength DEF IsFlat, HasShape
  <2>5. EmbeddedSize(s) \in Nat
    BY <2>4
  <2>. QED
    BY <2>3, <2>5 DEF IsFlat, FlatFits
<1>. QED
  BY <1>1, <1>2

\* A message whose embedded ones stay writable when n more bytes are read.
Fits(T, m, n) ==
    /\ WellFormed(T, m)
    /\ \A k \in DOMAIN T :
          T[k] = "message" => EmbeddedSize(Existing(m.f[k])) + n < Limit

LEMMA FitsFewer ==
    ASSUME NEW T, NEW m, NEW n \in Nat, Fits(T, m, n), NEW i \in Nat, i <= n
    PROVE  Fits(T, m, i)
<1>1. ASSUME NEW k \in DOMAIN T, T[k] = "message"
      PROVE  EmbeddedSize(Existing(m.f[k])) + i < Limit
  <2>. DEFINE v == m.f[k]
              s == Existing(v)
              c == EmbeddedSize(s)
  <2>1. IsValue("message", v) /\ c + n < Limit
    BY <1>1 DEF Fits, WellFormed
  <2>. HIDE DEF v
  <2>2. c \in Nat
    BY <2>1, ExistingFits
  <2>. HIDE DEF c
  <2>3. c + i < Limit
    BY <2>1, <2>2, LimitNat
  <2>. QED
    BY <2>3 DEF c, v
<1>. QED
  BY <1>1 DEF Fits

\* What becomes of a message when field k of it is set.
LEMMA FitsSet ==
    ASSUME NEW T, NEW m, NEW n \in Nat, Fits(T, m, n), NEW k \in DOMAIN T, NEW v,
           IsValue(T[k], v), T[k] = "message" => EmbeddedSize(Existing(v)) + n < Limit,
           NEW y, y = Set(m, k, v)
    PROVE  Fits(T, y, n)
<1>1. /\ HasShape(T, m) /\ IsUnknown(T, m.unknown)
      /\ \A i \in DOMAIN T : IsValue(T[i], m.f[i])
      /\ \A i \in DOMAIN T : T[i] = "message" => EmbeddedSize(Existing(m.f[i])) + n < Limit
  BY DEF Fits, WellFormed
<1>2. /\ HasShape(T, y) /\ y.unknown = m.unknown /\ y.f[k] = v
      /\ \A i \in DOMAIN T : i # k => y.f[i] = m.f[i]
  BY <1>1, SetShape
<1>3. \A i \in DOMAIN T : IsValue(T[i], y.f[i])
  BY <1>1, <1>2
<1>4. \A i \in DOMAIN T : T[i] = "message" => EmbeddedSize(Existing(y.f[i])) + n < Limit
  BY <1>1, <1>2
<1>. QED
  BY <1>1, <1>2, <1>3, <1>4 DEF Fits, WellFormed

LEMMA AbsorbPut ==
    ASSUME NEW T, NEW m, NEW t, IsMessage(T, t)
    PROVE  Absorb(T, Going(m), t) = PutMessage(Going(m), t.num, Merged(m, t))
BY StateFacts DEF Absorb, Merged

LEMMA WholeStep ==
    ASSUME NEW T, MessageType(T), NEW m, NEW b \in Seq(Byte), Fits(T, m, Len(b)),
           NEW t, t = ReadField(b), t.ok, NEW d, d = Behind(b, Len(t.raw)),
           NEW a, a = Absorb(T, Going(m), t)
    PROVE  Fits(T, a.m, Len(d))
<1>. DEFINE p == t.raw
            l == Len(p)
            n == Len(d)
<1>1. IsToken(t) /\ t \in Tokens /\ IsCovered(t) /\ IsPiece(p) /\ ReadField(p) = t
  BY ReadTypes, FirstPiece
<1>2. p \in Seq(Byte) /\ d \in Seq(Byte) /\ b = p \o d
  <2>. DEFINE y == Behind(b, Len(t.raw))
  <2>1. y \in Seq(Byte) /\ b = t.raw \o y
    BY FirstPiece
  <2>2. p \in Seq(Byte)
    BY <1>1 DEF IsPiece
  <2>. QED
    BY <2>1, <2>2
<1>3. l \in Nat /\ n \in Nat /\ Len(b) = l + n /\ n <= Len(b) /\ Len(b) \in Nat
  <2>. HIDE DEF p
  <2>1. l \in Nat /\ n \in Nat /\ Len(p \o d) = l + n
    BY <1>2
  <2>. HIDE DEF l, n
  <2>. QED
    BY <1>2, <2>1
<1>4. Fits(T, m, n)
  <2>. HIDE DEF n
  <2>. QED
    BY <1>3, FitsFewer
<1>5. HasShape(T, m) /\ IsUnknown(T, m.unknown)
  BY DEF Fits, WellFormed
<1>6. CASE Skips(T, t)
  <2>. DEFINE y == Kept(m, t)
              x == m.unknown
  <2>1. a.m = y
    BY <1>6, AbsorbFacts, StateFacts
  <2>2. p = t.raw /\ x = m.unknown
    OBVIOUS
  <2>. HIDE DEF y, x, p
  <2>3. y = Kept(m, t)
    BY DEF y
  <2>4. HasShape(T, y) /\ y.unknown = Appended(x, p) /\ y.f = m.f
    BY <1>2, <1>5, <2>2, <2>3, KeptShape
  <2>5. IsUnknown(T, y.unknown)
    <3>1. IsUnknown(T, x) /\ Skips(T, ReadField(p))
      BY <1>1, <1>5, <1>6, <2>2
    <3>2. IsUnknown(T, x \o p)
      BY <1>1, <3>1, UnknownMore
    <3>. QED
      BY <2>4, <3>2 DEF Appended
  <2>. QED
    BY <1>4, <2>1, <2>4, <2>5 DEF Fits, WellFormed
<1>7. CASE ~Skips(T, t) /\ T[t.num] # "message"
  <2>. DEFINE k == t.num
              v == Value(T[k], t)
  <2>1. k \in DOMAIN T /\ t.wire = Wire(T[k]) /\ T[k] \in Kinds /\ T[k] # "message"
    BY <1>7 DEF Skips, MessageType
  <2>2. IsPlain(T[k], v)
    BY <1>1, <2>1, ValueFits
  <2>3. a.m = Set(m, k, v)
    BY <1>7, AbsorbFacts, StateFacts
  <2>4. IsValue(T[k], v)
    BY <2>2 DEF IsValue
  <2>. DEFINE y == a.m
  <2>5. y = Set(m, k, v)
    BY <2>3
  <2>. HIDE DEF k, v, n, y
  <2>6. Fits(T, y, n)
    BY <1>3, <1>4, <2>1, <2>4, <2>5, FitsSet
  <2>. QED
    BY <2>6 DEF y, n
<1>8. CASE ~Skips(T, t) /\ T[t.num] = "message"
  <2>. DEFINE k == t.num
              c == t.bytes
              w == m.f[k]
              s == Existing(w)
              e == Merged(m, t)
              z == e.m
              v == {z}
              h == EmbeddedSize(s)
              i == Len(c)
  <2>1. k \in DOMAIN T /\ t.wire = 2 /\ T[k] = "message"
    BY <1>8 DEF Skips, Wire
  <2>2. c \in Seq(Byte) /\ i \in Nat /\ i <= l
    <3>1. c \in Seq(Byte) /\ i \in Nat
      BY <1>1 DEF IsToken
    <3>2. l >= 1 + VarintSize(i) + i
      BY <1>1, <2>1 DEF IsCovered
    <3>3. VarintSize(i) \in 1..4
      BY DEF VarintSize
    <3>. HIDE DEF l, i, c
    <3>. QED
      BY <1>3, <3>1, <3>2, <3>3
  <2>3. IsValue("message", w) /\ h + Len(b) < Limit
    BY <2>1 DEF Fits, WellFormed
  <2>4. FlatFits(s, h) /\ h \in Nat
    <3>. HIDE DEF w
    <3>. QED
      BY <2>3, ExistingFits
  <2>5. e = Reading(Embedded, s, c)
    <3>1. e = MergeFields(s, Fields[c])
      BY DEF Merged, ParseEmbedded
    <3>. HIDE DEF e, s, c
    <3>2. Fields[c] \in Seq(Tokens)
      BY <2>2, FieldsDefined
    <3>. QED
      BY <3>1, <3>2, MergeFlat DEF Reading
  <2>6. a = [m |-> Set(m, k, v), ok |-> e.ok]
    <3>1. IsMessage(T, t)
      BY <1>8 DEF IsMessage
    <3>2. a = PutMessage(Going(m), t.num, Merged(m, t))
      BY <3>1, AbsorbPut
    <3>. HIDE DEF e
    <3>3. PutMessage(Going(m), k, e) = [m |-> Set(m, k, v), ok |-> e.ok]
      BY StateFacts DEF PutMessage
    <3>. QED
      BY <3>2, <3>3 DEF e
  <2>7. a.m = Set(m, k, v)
    BY <2>6
  <2>8. FlatFits(z, h + i)
    <3>. HIDE DEF s, c, h
    <3>. QED
      BY <2>2, <2>4, <2>5, FlatCloses
  <2>. HIDE DEF k, c, w, s, e, z, h, i, n, l
  <2>9. (h + i) + n < Limit /\ h + i \in Nat /\ h + i < Limit
    BY <1>3, <2>2, <2>3, <2>4, LimitNat
  <2>10. IsFlat(z)
    BY <2>8, <2>9, FitsIsFlat
  <2>11. Only(v) = z /\ Existing(v) = z
    BY OnlyFacts
  <2>12. IsValue("message", v)
    BY <2>10, <2>11 DEF IsValue
  <2>13. EmbeddedSize(Existing(v)) + n < Limit
    <3>1. EmbeddedSize(z) \in Nat /\ EmbeddedSize(z) <= h + i
      BY <2>8 DEF FlatFits
    <3>. DEFINE x == EmbeddedSize(z)
    <3>. HIDE DEF x
    <3>2. x + n < Limit
      BY <1>3, <2>9, <3>1, LimitNat DEF x
    <3>. QED
      BY <2>11, <3>2 DEF x
  <2>. HIDE DEF v
  <2>. QED
    BY <1>3, <1>4, <2>1, <2>7, <2>12, <2>13, FitsSet DEF n
<1>. QED
  BY <1>6, <1>7, <1>8

LEMMA WholeCloses ==
    ASSUME NEW T, MessageType(T), NEW m, NEW b \in Seq(Byte), Fits(T, m, Len(b))
    PROVE  WellFormed(T, Reading(T, m, b).m)
<1>. DEFINE Safe(b2) == \A z : Fits(T, z, Len(b2)) => WellFormed(T, Reading(T, z, b2).m)
            U == {i \in Nat : \A b2 \in Seq(Byte) : Len(b2) < i => Safe(b2)}
<1>1. 0 \in U
  OBVIOUS
<1>2. ASSUME NEW i \in Nat, i \in U
      PROVE  i + 1 \in U
  <2>1. ASSUME NEW b2 \in Seq(Byte), Len(b2) < i + 1, NEW z, Fits(T, z, Len(b2))
        PROVE  WellFormed(T, Reading(T, z, b2).m)
    <3>1. CASE b2 = <<>>
      <4>1. Reading(T, z, b2).m = z
        BY <3>1, ReadNothing, StateFacts
      <4>. QED
        BY <2>1, <4>1 DEF Fits
    <3>2. CASE b2 # <<>>
      <4>. DEFINE t == ReadField(b2)
                  a == Absorb(T, Going(z), t)
                  d == Behind(b2, Len(t.raw))
      <4>1. Reading(T, z, b2) = IF a.ok THEN Reading(T, a.m, d) ELSE a
        BY <3>2, ReadNext
      <4>2. CASE ~t.ok
        <5>1. a = Failed(z)
          BY <4>2, AbsorbFacts
        <5>2. Reading(T, z, b2).m = z
          BY <4>1, <5>1, StateFacts
        <5>. QED
          BY <2>1, <5>2 DEF Fits
      <4>3. CASE t.ok
        <5>1. d \in Seq(Byte) /\ Len(d) < Len(b2)
          BY <4>3, FirstPiece
        <5>2. Fits(T, a.m, Len(d))
          BY <2>1, <4>3, WholeStep
        <5>. HIDE DEF t, a, d
        <5>3. Len(d) < i
          BY <2>1, <5>1
        <5>4. Safe(d)
          BY <1>2, <5>1, <5>3
        <5>5. WellFormed(T, Reading(T, a.m, d).m) /\ WellFormed(T, a.m)
          BY <5>2, <5>4 DEF Fits
        <5>. QED
          BY <4>1, <5>5
      <4>. QED
        BY <4>2, <4>3
    <3>. QED
      BY <3>1, <3>2
  <2>2. \A b2 \in Seq(Byte) : Len(b2) < i + 1 => Safe(b2)
    BY <2>1
  <2>. QED
    BY <2>2
<1>3. Nat \subseteq U
  <2>. HIDE DEF U
  <2>. QED
    BY <1>1, <1>2, SetInduction
<1>4. Len(b) + 1 \in U /\ Len(b) < Len(b) + 1
  BY <1>3
<1>5. Safe(b)
  BY <1>4
<1>. QED
  BY <1>5

-----------------------------------------------------------------------------
(* The laws of the generated code. *)

(* SerializeToString writes exactly as many bytes as ByteSizeLong has
   computed. *)
THEOREM SizeIsLength ==
    ASSUME NEW T, MessageType(T), NEW m, WellFormed(T, m)
    PROVE  /\ SerializeToString(T, m) \in Seq(Byte)
           /\ Len(SerializeToString(T, m)) = ByteSizeLong(T, m)
<1>1. HasShape(T, m) /\ CanHold(T, m.f) /\ <<>> \in Seq(Byte)
  BY Holds DEF WellFormed
<1>. QED
  BY <1>1, ReadMessage, WholeSize

(* ParseFromString of what SerializeToString has written is the message that
   was written, whatever was in the object that it is parsed into: fields,
   embedded messages and the fields of a later version. *)
THEOREM ReadsBack ==
    ASSUME NEW T, MessageType(T), NEW m, WellFormed(T, m), NEW to, HasShape(T, to)
    PROVE  ParseFromString(T, to, SerializeToString(T, m)) = [m |-> m, ok |-> TRUE]
<1>. DEFINE n == New(T)
            b == SerializeToString(T, m)
<1>1. Clear(T, to) = n
  BY ShapeIsMade, Cleared
<1>2. HasShape(T, n) /\ CanHold(T, n.f)
  BY NewFacts, Holds DEF WellFormed
<1>3. MergeFrom(T, n, m) = m
  BY MergeNew
<1>4. ParseFromString(T, to, b) = Reading(T, n, b)
  BY <1>1 DEF ParseFromString, Reading
<1>. HIDE DEF n
<1>5. Reading(T, n, b) = Going(MergeFrom(T, n, m))
  BY <1>2, ReadAll
<1>. QED
  BY <1>3, <1>4, <1>5 DEF Going

(* CopyFrom makes a copy, whatever was in the object before. *)
THEOREM CopiesAll ==
    ASSUME NEW T, MessageType(T), NEW m, WellFormed(T, m), NEW to, HasShape(T, to)
    PROVE  CopyFrom(T, to, m) = m
<1>1. Clear(T, to) = New(T)
  BY ShapeIsMade, Cleared
<1>. QED
  BY <1>1, MergeNew DEF CopyFrom

(* Two messages written one behind the other are parsed as the first with the
   second merged into it. *)
THEOREM ConcatenationMerges ==
    ASSUME NEW T, MessageType(T), NEW m, WellFormed(T, m), NEW n, WellFormed(T, n),
           NEW to, HasShape(T, to)
    PROVE  ParseFromString(T, to, SerializeToString(T, m) \o SerializeToString(T, n))
             = [m |-> MergeFrom(T, m, n), ok |-> TRUE]
<1>. DEFINE z == New(T)
            b == SerializeToString(T, m)
            c == SerializeToString(T, n)
<1>1. Clear(T, to) = z
  BY ShapeIsMade, Cleared
<1>2. HasShape(T, z) /\ CanHold(T, z.f)
  BY NewFacts, Holds DEF WellFormed
<1>3. HasShape(T, m) /\ CanHold(T, m.f)
  BY Holds DEF WellFormed
<1>4. MergeFrom(T, z, m) = m
  BY MergeNew
<1>5. ParseFromString(T, to, b \o c) = Reading(T, z, b \o c)
  BY <1>1 DEF ParseFromString, Reading
<1>6. c \in Seq(Byte)
  BY SizeIsLength
<1>. HIDE DEF z, c
<1>7. Reading(T, z, b \o c) = Reading(T, MergeFrom(T, z, m), c)
  BY <1>2, <1>6, ReadMessage
<1>8. Reading(T, m, c) = Going(MergeFrom(T, m, n))
  BY <1>3, ReadAll DEF c
<1>. QED
  BY <1>4, <1>5, <1>7, <1>8 DEF Going, c

(* Whatever bytes are parsed, to the end or to a failure, what is left in the
   object is a message that can be written again.  Only for a type that embeds
   another does this need a bound on the bytes, since what is merged in one
   embedded message adds up. *)
THEOREM ParsedIsWellFormed ==
    ASSUME NEW T, MessageType(T), NEW to, HasShape(T, to), NEW b \in Seq(Byte),
           (\A k \in DOMAIN T : T[k] # "message") \/ Len(b) < Limit
    PROVE  WellFormed(T, ParseFromString(T, to, b).m)
<1>. DEFINE z == New(T)
<1>1. Clear(T, to) = z
  BY ShapeIsMade, Cleared
<1>2. WellFormed(T, z) /\ \A k \in DOMAIN T : z.f[k] = Default(T[k])
  BY NewFacts
<1>3. ParseFromString(T, to, b) = Reading(T, z, b)
  BY <1>1 DEF ParseFromString, Reading
<1>. HIDE DEF z
<1>4. ASSUME NEW k \in DOMAIN T, T[k] = "message"
      PROVE  EmbeddedSize(Existing(z.f[k])) + Len(b) < Limit
  <2>1. z.f[k] = {}
    BY <1>2, <1>4 DEF Default
  <2>2. EmbeddedSize(Existing(z.f[k])) = 0
    BY <2>1, NewFits, OnlyFacts
  <2>3. Len(b) < Limit /\ Len(b) \in Nat
    BY <1>4
  <2>. QED
    BY <2>2, <2>3
<1>5. Fits(T, z, Len(b))
  BY <1>2, <1>4 DEF Fits
<1>. QED
  BY <1>3, <1>5, WholeCloses

-----------------------------------------------------------------------------
(* Messages that are filled in field by field. *)

LEMMA SetWellFormed ==
    ASSUME NEW T, NEW m, WellFormed(T, m), NEW k \in DOMAIN T, NEW v, IsValue(T[k], v),
           NEW y, y = Set(m, k, v)
    PROVE  /\ WellFormed(T, y) /\ y.f[k] = v /\ y.unknown = m.unknown
           /\ \A i \in DOMAIN T : i # k => y.f[i] = m.f[i]
<1>1. /\ HasShape(T, m) /\ IsUnknown(T, m.unknown)
      /\ \A i \in DOMAIN T : IsValue(T[i], m.f[i])
  BY DEF WellFormed
<1>2. /\ HasShape(T, y) /\ y.unknown = m.unknown /\ y.f[k] = v
      /\ \A i \in DOMAIN T : i # k => y.f[i] = m.f[i]
  BY <1>1, SetShape
<1>3. \A i \in DOMAIN T : IsValue(T[i], y.f[i])
  BY <1>1, <1>2
<1>. QED
  BY <1>1, <1>2, <1>3 DEF WellFormed

Total(T, m, f, z) ==
    /\ IsSum(f, Len(T), Len(m.unknown), z) /\ ByteSizeLong(T, m) = f[Len(T)]
    /\ \A k \in 1..Len(T) : FieldSize(T[k], m.f[k]) \in Nat /\ z[k] = FieldSize(T[k], m.f[k])

LEMMA SizeIsSum ==
    ASSUME NEW T, MessageType(T), NEW m, WellFormed(T, m)
    PROVE  \E f, z : Total(T, m, f, z)
<1>. DEFINE N == Len(T)
            u == m.unknown
            z == [k \in 1..N |-> FieldSize(T[k], m.f[k])]
<1>1. DOMAIN T = 1..N /\ N \in Nat /\ Len(u) \in Nat
  BY DEF MessageType, WellFormed, HasShape
<1>2. ASSUME NEW k \in 1..N
      PROVE  FieldSize(T[k], m.f[k]) \in Nat
  <2>. DEFINE v == m.f[k]
  <2>1. k \in DOMAIN T /\ IsValue(T[k], v) /\ CanHold(T, m.f)
    BY <1>1, Holds DEF WellFormed
  <2>2. T[k] = "message" => HasShape(Embedded, Existing(v))
    BY <2>1 DEF CanHold
  <2>. HIDE DEF v
  <2>3. Field(k, T[k], v) \in Seq(Byte)
    BY <2>1, <2>2, ValueMerges
  <2>4. Len(Field(k, T[k], v)) = FieldSize(T[k], v)
    BY <2>1, ValueSize
  <2>. QED
    BY <2>3, <2>4 DEF v
<1>. HIDE DEF N
<1>3. z \in [1..N -> Nat] /\ \A k \in 1..N : z[k] = FieldSize(T[k], m.f[k])
  BY <1>2
<1>. HIDE DEF z
<1>4. PICK f : IsSum(f, N, Len(u), z) /\ ByteSizeLong(T, m) = f[N]
  BY <1>1, <1>3, MessageTotal DEF N
<1>. QED
  BY <1>1, <1>2, <1>3, <1>4 DEF N, Total

LEMMA TwoFields ==
    ASSUME NEW T, MessageType(T), Len(T) = 2, NEW m, WellFormed(T, m), m.unknown = <<>>
    PROVE  /\ FieldSize(T[1], m.f[1]) \in Nat /\ FieldSize(T[2], m.f[2]) \in Nat
           /\ ByteSizeLong(T, m) = FieldSize(T[1], m.f[1]) + FieldSize(T[2], m.f[2])
<1>1. PICK f, z : Total(T, m, f, z)
  BY SizeIsSum
<1>2. /\ IsSum(f, 2, 0, z) /\ ByteSizeLong(T, m) = f[2]
      /\ \A k \in 1..2 : FieldSize(T[k], m.f[k]) \in Nat /\ z[k] = FieldSize(T[k], m.f[k])
  BY <1>1 DEF Total
<1>3. f[0] = 0 /\ f[1] = f[0] + z[1] /\ f[2] = f[1] + z[2]
  <2>1. 1 - 1 = 0 /\ 2 - 1 = 1
    OBVIOUS
  <2>. QED
    BY <1>2, <2>1 DEF IsSum
<1>. QED
  BY <1>2, <1>3

\* The size of a field with few bytes.
LEMMA SmallSize ==
    ASSUME NEW kind, kind # "message", NEW v,
           kind = "bytes" => Len(v) \in 0..40
    PROVE  FlatSize(kind, v) \in 0..49 /\ FieldSize(kind, v) = FlatSize(kind, v)
<1>1. \A i : VarintSize(i) \in 1..4
  BY DEF VarintSize
<1>2. FieldSize(kind, v) = FlatSize(kind, v)
  BY DEF FieldSize
<1>. DEFINE z == FlatSize(kind, v)
<1>3. CASE kind = "bytes"
  <2>. DEFINE i == Len(v)
              w == VarintSize(i)
  <2>1. i \in 0..40 /\ w \in 1..4
    BY <1>1, <1>3
  <2>2. z = 0 \/ z = 1 + (w + i)
    BY <1>3 DEF FlatSize, LengthSize
  <2>. HIDE DEF i, w, z
  <2>3. z \in 0..49
    BY ONLY <2>1, <2>2, SMT
  <2>. QED
    BY <1>2, <2>3 DEF z
<1>4. CASE kind # "bytes"
  <2>. DEFINE w == VarintSize(v)
  <2>1. w \in 1..4
    BY <1>1
  <2>2. z = 0 \/ z = 9 \/ z = 2 \/ z = 1 + w
    BY <1>4 DEF FlatSize
  <2>. HIDE DEF w, z
  <2>3. z \in 0..49
    BY ONLY <2>1, <2>2, SMT
  <2>. QED
    BY <1>2, <2>3 DEF z
<1>. QED
  BY <1>3, <1>4
=============================================================================
