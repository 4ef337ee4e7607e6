---------------------------- MODULE BufferProofs ----------------------------
(***************************************************************************)
(* Proofs about Buffer for every size of prepend room, initial size, byte  *)
(* base and content: the indices stay ordered, the content is the bytes    *)
(* put in and not taken out, and the vector stays within twice the largest *)
(* content it was asked to hold.                                           *)
(*                                                                         *)
(* The first lemmas are about a vector and two indices; each operation     *)
(* then has a lemma that says what it does to a Buffer and its content,    *)
(* and the theorems cite these action by action.                           *)
(***************************************************************************)
EXTENDS Buffer, SequenceTheorems, TLAPS

(* A vector d of n bytes with the indices r and w in order.  It is at      *)
(* least as large as the prepend room, which retrieve_all relies on.       *)
IsVector(n, d, r, w) ==
    /\ n \in Nat /\ r \in Nat /\ w \in Nat
    /\ d \in [0 .. n - 1 -> Byte]
    /\ r <= w /\ w <= n /\ kCheapPrepend <= n

IsBuffer(b) == IsVector(b.size, b.data, b.read, b.write)

(* The bytes of d between the indices.                                     *)
Between(d, r, w) == [i \in 1 .. (w - r) |-> d[r + i - 1]]

-----------------------------------------------------------------------------
(* Vectors                                                                 *)

(* The bytes between the indices are a sequence.                           *)
LEMMA BetweenIsBytes ==
    ASSUME NEW n, NEW d, NEW r, NEW w, IsVector(n, d, r, w)
    PROVE  /\ Between(d, r, w) \in Seq(Byte)
           /\ Len(Between(d, r, w)) = w - r
           /\ w - r \in Nat
           /\ \A i \in 1 .. (w - r) : Between(d, r, w)[i] = d[r + i - 1]
<1>1. w - r \in Nat
  BY DEF IsVector
<1>2. \A i \in 1 .. (w - r) : d[r + i - 1] \in Byte
  BY <1>1 DEF IsVector
<1>3. Between(d, r, w) \in [1 .. (w - r) -> Byte]
  BY <1>2 DEF Between
<1> QED
  BY <1>1, <1>3 DEF Between

(* Two sequences of bytes are equal when their lengths and elements are.   *)
LEMMA SameBytes ==
    ASSUME NEW s \in Seq(Byte), NEW t \in Seq(Byte), Len(s) = Len(t),
           \A i \in 1 .. Len(s) : s[i] = t[i]
    PROVE  s = t
  OBVIOUS

(* The elements of a concatenation and of a part of a sequence.            *)
LEMMA ConcatBytes ==
    ASSUME NEW s \in Seq(Byte), NEW t \in Seq(Byte)
    PROVE  /\ s \o t \in Seq(Byte) /\ Len(s \o t) = Len(s) + Len(t)
           /\ \A i \in 1 .. Len(s) : (s \o t)[i] = s[i]
           /\ \A i \in 1 .. Len(t) : (s \o t)[Len(s) + i] = t[i]
<1>1. /\ s \o t \in Seq(Byte) /\ Len(s \o t) = Len(s) + Len(t)
      /\ \A i \in 1 .. Len(s) + Len(t) : (s \o t)[i] =
                IF i <= Len(s) THEN s[i] ELSE t[i - Len(s)]
  BY ConcatProperties
<1>2. Len(s) \in Nat /\ Len(t) \in Nat
  OBVIOUS
<1>3. ASSUME NEW i \in 1 .. Len(t)
      PROVE  (s \o t)[Len(s) + i] = t[i]
  <2>1. /\ Len(s) + i \in 1 .. Len(s) + Len(t)
        /\ ~(Len(s) + i <= Len(s)) /\ Len(s) + i - Len(s) = i
    BY <1>2
  <2> QED
    BY <1>1, <2>1
<1> QED
  BY <1>1, <1>2, <1>3

\* Joining sequences of bytes is associative.
LEMMA ConcatBytesAssociative ==
    ASSUME NEW s \in Seq(Byte), NEW t \in Seq(Byte), NEW u \in Seq(Byte)
    PROVE  (s \o t) \o u = s \o (t \o u)
  BY ConcatAssociative, SMTT(30)

\* A part of a sequence of bytes is one.
LEMMA SubSeqBytes ==
    ASSUME NEW s \in Seq(Byte), NEW a \in Nat, NEW z \in Nat,
           a <= z, z <= Len(s)
    PROVE  /\ SubSeq(s, a + 1, z) \in Seq(Byte)
           /\ Len(SubSeq(s, a + 1, z)) = z - a
           /\ \A i \in 1 .. (z - a) : SubSeq(s, a + 1, z)[i] = s[a + i]
<1>1. \A i \in a + 1 .. z : s[i] \in Byte
  OBVIOUS
<1>2. /\ SubSeq(s, a + 1, z) \in Seq(Byte)
      /\ Len(SubSeq(s, a + 1, z))
            = IF a + 1 <= z THEN z - (a + 1) + 1 ELSE 0
      /\ \A i \in 1 .. z - (a + 1) + 1 :
            SubSeq(s, a + 1, z)[i] = s[a + 1 + i - 1]
  <2>1. a + 1 \in Int /\ z \in Int
    OBVIOUS
  <2> QED
    BY <1>1, <2>1, SubSeqProperties
<1>3. z - (a + 1) + 1 = z - a
  OBVIOUS
<1>4. \A i \in 1 .. (z - a) : a + 1 + i - 1 = a + i
  OBVIOUS
<1> QED
  BY <1>2, <1>3, <1>4

(* std::copy within the vector changes only the bytes copied to.           *)
LEMMA CopiedBytes ==
    ASSUME NEW n \in Nat, NEW d \in [0 .. n - 1 -> Byte], NEW at \in Nat,
           NEW s \in Seq(Byte), at + Len(s) <= n
    PROVE  /\ Copied(d, at, s) \in [0 .. n - 1 -> Byte]
           /\ \A i \in 1 .. Len(s) : Copied(d, at, s)[at + i - 1] = s[i]
           /\ \A j \in 0 .. n - 1 :
                 j < at \/ j >= at + Len(s) => Copied(d, at, s)[j] = d[j]
<1>1. DOMAIN d = 0 .. n - 1
  OBVIOUS
<1>2. \A j \in 0 .. n - 1 : at <= j /\ j < at + Len(s) =>
          j - at + 1 \in 1 .. Len(s) /\ s[j - at + 1] \in Byte
  OBVIOUS
<1> QED
  BY <1>1, <1>2 DEF Copied

(* resize keeps the bytes between the indices.                             *)
LEMMA ExtendedKeeps ==
    ASSUME NEW n, NEW d, NEW r, NEW w, IsVector(n, d, r, w),
           NEW m \in Nat, n <= m
    PROVE  /\ IsVector(m, Extended(d, n, m), r, w)
           /\ Between(Extended(d, n, m), r, w) = Between(d, r, w)
<1>1. 0 \in Byte /\ kCheapPrepend \in Nat
  BY BufferAssumption DEF Byte
<1>2. \A i \in 0 .. (m - 1) : (IF i < n THEN d[i] ELSE 0) \in Byte
  BY <1>1 DEF IsVector
<1>3. Extended(d, n, m) \in [0 .. m - 1 -> Byte]
  BY <1>2 DEF Extended
<1>4. \A i \in 1 .. (w - r) : Extended(d, n, m)[r + i - 1] = d[r + i - 1]
  BY DEF Extended, IsVector
<1>5. IsVector(m, Extended(d, n, m), r, w)
  BY <1>1, <1>3 DEF IsVector
<1> QED
  BY <1>4, <1>5 DEF Between

(* Moving the content to the position p keeps it.                          *)
LEMMA MovedKeeps ==
    ASSUME NEW n, NEW d, NEW r, NEW w, IsVector(n, d, r, w),
           NEW p \in Nat, p <= r
    PROVE  LET c == Copied(d, p, Between(d, r, w))
           IN  /\ IsVector(n, c, p, p + (w - r))
               /\ Between(c, p, p + (w - r)) = Between(d, r, w)
<1> DEFINE s == Between(d, r, w)
           c == Copied(d, p, s)
           q == p + (w - r)
<1>1. /\ s \in Seq(Byte) /\ Len(s) = w - r /\ w - r \in Nat
      /\ n \in Nat /\ d \in [0 .. n - 1 -> Byte] /\ p + Len(s) <= n
  <2>1. s \in Seq(Byte) /\ Len(s) = w - r /\ w - r \in Nat
    BY BetweenIsBytes
  <2> QED
    BY <2>1 DEF IsVector
<1> HIDE DEF s
<1>2. /\ c \in [0 .. n - 1 -> Byte]
      /\ \A i \in 1 .. Len(s) : c[p + i - 1] = s[i]
  BY <1>1, CopiedBytes
<1> HIDE DEF c
<1>3. IsVector(n, c, p, q)
  BY <1>1, <1>2 DEF IsVector
<1>4. q - p = Len(s)
  BY <1>1
<1>5. /\ Between(c, p, q) \in Seq(Byte) /\ Len(Between(c, p, q)) = Len(s)
      /\ \A i \in 1 .. Len(s) : Between(c, p, q)[i] = c[p + i - 1]
  <2> HIDE DEF q
  <2> QED
    BY <1>3, <1>4, BetweenIsBytes
<1>6. Between(c, p, q) = s
  BY <1>1, <1>2, <1>5, SameBytes, Zenon
<1> QED
  BY <1>3, <1>6 DEF s, c

(* Bytes copied behind the content extend it.                              *)
LEMMA WrittenExtends ==
    ASSUME NEW n, NEW d, NEW r, NEW w, IsVector(n, d, r, w),
           NEW s \in Seq(Byte), w + Len(s) <= n
    PROVE  LET c == Copied(d, w, s)
           IN  /\ IsVector(n, c, r, w + Len(s))
               /\ Between(c, r, w + Len(s)) = Between(d, r, w) \o s
<1> DEFINE c == Copied(d, w, s)
           q == w + Len(s)
           t == Between(d, r, w)
           u == Between(c, r, q)
<1>1. /\ n \in Nat /\ w \in Nat /\ r \in Nat /\ r <= w
      /\ d \in [0 .. n - 1 -> Byte] /\ Len(s) \in Nat /\ kCheapPrepend <= n
  BY DEF IsVector
<1>2. /\ c \in [0 .. n - 1 -> Byte]
      /\ \A i \in 1 .. Len(s) : c[w + i - 1] = s[i]
      /\ \A j \in 0 .. n - 1 : j < w => c[j] = d[j]
  BY <1>1, CopiedBytes, SMTT(30)
<1> HIDE DEF c
<1>3. IsVector(n, c, r, q)
  BY <1>1, <1>2 DEF IsVector
<1>4. /\ t \in Seq(Byte) /\ Len(t) = w - r /\ w - r \in Nat
      /\ \A i \in 1 .. (w - r) : t[i] = d[r + i - 1]
  BY BetweenIsBytes
<1>5. /\ u \in Seq(Byte) /\ Len(u) = q - r
      /\ \A i \in 1 .. (q - r) : u[i] = c[r + i - 1]
  <2> HIDE DEF q
  <2> QED
    BY <1>3, BetweenIsBytes
<1> HIDE DEF t, u
<1>6. /\ t \o s \in Seq(Byte) /\ Len(t \o s) = Len(t) + Len(s)
      /\ \A i \in 1 .. Len(t) : (t \o s)[i] = t[i]
      /\ \A i \in 1 .. Len(s) : (t \o s)[Len(t) + i] = s[i]
  BY <1>4, ConcatBytes, Zenon
<1>7. Len(u) = Len(t \o s)
  BY <1>1, <1>4, <1>5, <1>6
<1>8. ASSUME NEW i \in 1 .. Len(u)
      PROVE  u[i] = (t \o s)[i]
  <2>1. CASE i <= Len(t)
    BY <1>1, <1>2, <1>4, <1>5, <1>6, <2>1
  <2>2. CASE ~(i <= Len(t))
    <3> DEFINE k == i - Len(t)
    <3>1. k \in 1 .. Len(s) /\ i = Len(t) + k /\ r + i - 1 = w + k - 1
      BY <1>1, <1>4, <1>5, <2>2, SMTT(30)
    <3>2. u[i] = c[r + i - 1]
      BY <1>5
    <3> HIDE DEF k
    <3>3. c[w + k - 1] = s[k]
      BY <1>2, <3>1
    <3>4. (t \o s)[Len(t) + k] = s[k]
      BY <1>6, <3>1
    <3> QED
      BY <3>1, <3>2, <3>3, <3>4
  <2> QED
    BY <2>1, <2>2, Zenon
<1>9. u = t \o s
  BY <1>5, <1>6, <1>7, <1>8, SameBytes, Zenon
<1> QED
  BY <1>3, <1>9 DEF c, t, u

(* Bytes copied in front of the content extend it in front.                *)
LEMMA PrependedExtends ==
    ASSUME NEW n, NEW d, NEW r, NEW w, IsVector(n, d, r, w),
           NEW s \in Seq(Byte), Len(s) <= r
    PROVE  LET c == Copied(d, r - Len(s), s)
           IN  /\ IsVector(n, c, r - Len(s), w)
               /\ Between(c, r - Len(s), w) = s \o Between(d, r, w)
<1> DEFINE p == r - Len(s)
           c == Copied(d, p, s)
           t == Between(d, r, w)
           u == Between(c, p, w)
<1>1. /\ n \in Nat /\ w \in Nat /\ r \in Nat /\ r <= w /\ w <= n
      /\ d \in [0 .. n - 1 -> Byte] /\ Len(s) \in Nat /\ kCheapPrepend <= n
  BY DEF IsVector
<1>2. p \in Nat /\ p + Len(s) = r
  BY <1>1
<1> HIDE DEF p
<1>3. /\ c \in [0 .. n - 1 -> Byte]
      /\ \A i \in 1 .. Len(s) : c[p + i - 1] = s[i]
      /\ \A j \in 0 .. n - 1 : j >= r => c[j] = d[j]
  <2>1. p + Len(s) <= n
    BY <1>1, <1>2
  <2>2. /\ c \in [0 .. n - 1 -> Byte]
        /\ \A i \in 1 .. Len(s) : c[p + i - 1] = s[i]
        /\ \A j \in 0 .. n - 1 :
              j < p \/ j >= p + Len(s) => c[j] = d[j]
    BY <1>1, <1>2, <2>1, CopiedBytes, SMTT(30)
  <2> QED
    BY <1>2, <2>2
<1> HIDE DEF c
<1>4. IsVector(n, c, p, w)
  BY <1>1, <1>2, <1>3 DEF IsVector
<1>5. /\ t \in Seq(Byte) /\ Len(t) = w - r /\ w - r \in Nat
      /\ \A i \in 1 .. (w - r) : t[i] = d[r + i - 1]
  BY BetweenIsBytes
<1>6. /\ u \in Seq(Byte) /\ Len(u) = w - p
      /\ \A i \in 1 .. (w - p) : u[i] = c[p + i - 1]
  BY <1>4, BetweenIsBytes
<1> HIDE DEF t, u
<1>7. /\ s \o t \in Seq(Byte) /\ Len(s \o t) = Len(s) + Len(t)
      /\ \A i \in 1 .. Len(s) : (s \o t)[i] = s[i]
      /\ \A i \in 1 .. Len(t) : (s \o t)[Len(s) + i] = t[i]
  BY <1>5, ConcatBytes, Zenon
<1>8. Len(u) = Len(s \o t)
  <2>1. w - p = Len(s) + (w - r)
    BY <1>1, <1>2
  <2> QED
    BY <1>5, <1>6, <1>7, <2>1
<1>9. ASSUME NEW i \in 1 .. Len(u)
      PROVE  u[i] = (s \o t)[i]
  <2>1. CASE i <= Len(s)
    <3>1. i \in 1 .. Len(s) /\ i \in 1 .. (w - p)
      BY <1>1, <1>6, <2>1
    <3>2. u[i] = c[p + i - 1] /\ c[p + i - 1] = s[i]
      BY <1>3, <1>6, <3>1, Zenon
    <3>3. (s \o t)[i] = s[i]
      BY <1>7, <3>1, Zenon
    <3> QED
      BY <3>2, <3>3, Zenon
  <2>2. CASE ~(i <= Len(s))
    <3> DEFINE k == i - Len(s)
    <3>1. /\ k \in 1 .. Len(t) /\ i = Len(s) + k /\ p + i - 1 = r + k - 1
          /\ r + k - 1 \in 0 .. n - 1 /\ r + k - 1 >= r
      <4>1. i \in 1 .. (Len(s) + (w - r))
        BY <1>5, <1>7, <1>8
      <4>2. i > Len(s) /\ i - Len(s) <= w - r
        BY <1>1, <2>2, <4>1
      <4>3. p = r - Len(s) /\ w - 1 <= n - 1
        BY <1>1, <1>2
      <4>4. k \in 1 .. (w - r) /\ i = Len(s) + k
        BY <1>1, <4>1, <4>2
      <4>5. p + i - 1 = r + k - 1
        BY <1>1, <4>1, <4>3
      <4> HIDE DEF k
      <4>6. r + k - 1 \in 0 .. n - 1 /\ r + k - 1 >= r
        BY <1>1, <1>5, <4>3, <4>4
      <4> QED
        BY <1>5, <4>4, <4>5, <4>6
    <3>2. u[i] = c[p + i - 1]
      BY <1>6
    <3> HIDE DEF k
    <3>3. c[r + k - 1] = d[r + k - 1] /\ t[k] = d[r + k - 1]
      BY <1>3, <1>5, <3>1
    <3>4. (s \o t)[Len(s) + k] = t[k]
      BY <1>7, <3>1, SMTT(30)
    <3> QED
      BY <3>1, <3>2, <3>3, <3>4
  <2> QED
    BY <2>1, <2>2, Zenon
<1>10. u = s \o t
  BY <1>6, <1>7, <1>8, <1>9, SameBytes, Zenon
<1> QED
  BY <1>4, <1>10 DEF c, t, u, p

(* Moving an index inwards drops bytes at that end.                        *)
LEMMA IndexMoved ==
    ASSUME NEW n, NEW d, NEW r, NEW w, IsVector(n, d, r, w),
           NEW p, NEW q, p \in Nat, q \in Nat, r <= p, p <= q, q <= w,
           NEW first, NEW last, first = p - r + 1, last = q - r
    PROVE  /\ IsVector(n, d, p, q)
           /\ Between(d, p, q) = SubSeq(Between(d, r, w), first, last)
<1> DEFINE t == Between(d, r, w)
           u == Between(d, p, q)
           v == SubSeq(t, (p - r) + 1, q - r)
<1>1. n \in Nat /\ r \in Nat /\ w \in Nat
  BY DEF IsVector
<1>2. IsVector(n, d, p, q)
  BY DEF IsVector
<1>3. /\ t \in Seq(Byte) /\ Len(t) = w - r
      /\ \A i \in 1 .. (w - r) : t[i] = d[r + i - 1]
  BY BetweenIsBytes
<1> HIDE DEF t
<1>4. /\ u \in Seq(Byte) /\ Len(u) = q - p
      /\ \A i \in 1 .. (q - p) : u[i] = d[p + i - 1]
  <2>1. /\ Between(d, p, q) \in Seq(Byte)
        /\ Len(Between(d, p, q)) = q - p
    BY <1>2, BetweenIsBytes, Zenon
  <2>2. \A i \in 1 .. (q - p) : Between(d, p, q)[i] = d[p + i - 1]
    BY DEF Between
  <2> QED
    BY <2>1, <2>2
<1> HIDE DEF u
<1>5. /\ v \in Seq(Byte) /\ Len(v) = q - p
      /\ \A i \in 1 .. (q - p) : v[i] = t[p - r + i]
  <2>1. /\ p - r \in Nat /\ q - r \in Nat /\ p - r <= q - r
        /\ q - r <= Len(t) /\ (q - r) - (p - r) = q - p
    BY <1>1, <1>3
  <2> DEFINE a == p - r
             z == q - r
  <2> HIDE DEF a, z
  <2>2. /\ SubSeq(t, a + 1, z) \in Seq(Byte)
        /\ Len(SubSeq(t, a + 1, z)) = z - a
        /\ \A i \in 1 .. (z - a) : SubSeq(t, a + 1, z)[i] = t[a + i]
    BY <1>3, <2>1, SubSeqBytes, Zenon DEF a, z
  <2> QED
    BY <2>1, <2>2, Zenon DEF a, z
<1> HIDE DEF v
<1>6. ASSUME NEW i \in 1 .. (q - p)
      PROVE  u[i] = v[i]
  <2>1. p - r + i \in 1 .. (w - r) /\ r + (p - r + i) - 1 = p + i - 1
    BY <1>1
  <2>2. t[p - r + i] = d[r + (p - r + i) - 1]
    BY <1>3, <2>1
  <2> QED
    BY <1>4, <1>5, <2>1, <2>2
<1>7. u = v
  BY <1>4, <1>5, <1>6, SameBytes
<1> QED
  BY <1>2, <1>7 DEF t, u, v

(* k bytes dropped at the front, and at the back.                          *)
LEMMA ReadIndexMoved ==
    ASSUME NEW n, NEW d, NEW r, NEW w, IsVector(n, d, r, w),
           NEW k \in Nat, k <= w - r
    PROVE  /\ IsVector(n, d, r + k, w)
           /\ Between(d, r + k, w) = SubSeq(Between(d, r, w), k + 1, w - r)
<1> DEFINE p == r + k
           first == k + 1
           last == w - r
<1>1. /\ p \in Nat /\ w \in Nat /\ r <= p /\ p <= w /\ w <= w
      /\ first = p - r + 1 /\ last = w - r
  BY DEF IsVector
<1> HIDE DEF p, first, last
<1>2. IsVector(n, d, p, w) /\ Between(d, p, w)
                                = SubSeq(Between(d, r, w), first, last)
  BY <1>1, IndexMoved, SMTT(30)
<1> QED
  BY <1>2 DEF p, first, last

\* Moving the write index back drops the end of the content.
LEMMA WriteIndexMoved ==
    ASSUME NEW n, NEW d, NEW r, NEW w, IsVector(n, d, r, w),
           NEW k \in Nat, k <= w - r
    PROVE  /\ IsVector(n, d, r, w - k)
           /\ Between(d, r, w - k) = SubSeq(Between(d, r, w), 1, (w - r) - k)
<1> DEFINE p == r
           q == w - k
           first == 1
           last == (w - r) - k
<1>1. /\ p \in Nat /\ q \in Nat /\ r <= p /\ p <= q /\ q <= w
      /\ first = p - r + 1 /\ last = q - r
  BY DEF IsVector
<1> HIDE DEF p, q, first, last
<1>2. IsVector(n, d, p, q) /\ Between(d, p, q)
                                = SubSeq(Between(d, r, w), first, last)
  BY <1>1, IndexMoved, SMTT(30)
<1> QED
  BY <1>2 DEF p, q, first, last

-----------------------------------------------------------------------------
(* Buffers                                                                 *)

(* The fields of the record are what it was built from.                    *)
LEMMA FieldsOf ==
    ASSUME NEW n, NEW d, NEW r, NEW w
    PROVE  /\ TheBuffer(n, d, r, w).size = n
           /\ TheBuffer(n, d, r, w).data = d
           /\ TheBuffer(n, d, r, w).read = r
           /\ TheBuffer(n, d, r, w).write = w
  BY DEF TheBuffer

(* as_string is the bytes between the indices.                             *)
LEMMA AsString ==
    ASSUME NEW b
    PROVE  as_string(b) = Between(b.data, b.read, b.write)
  BY DEF as_string, Between, content_bytes_len

\* The vector of a Buffer, as the lemmas about vectors want it.
LEMMA VectorOf ==
    ASSUME NEW n, NEW d, NEW r, NEW w
    PROVE  /\ IsBuffer(TheBuffer(n, d, r, w)) <=> IsVector(n, d, r, w)
           /\ as_string(TheBuffer(n, d, r, w)) = Between(d, r, w)
  BY FieldsOf, AsString DEF IsBuffer

(* The indices of a Buffer and the length of its content.                  *)
LEMMA IndicesOf ==
    ASSUME NEW b, IsBuffer(b)
    PROVE  /\ b.size \in Nat /\ b.read \in Nat /\ b.write \in Nat
           /\ b.read <= b.write /\ b.write <= b.size
           /\ kCheapPrepend <= b.size /\ kCheapPrepend \in Nat
           /\ as_string(b) \in Seq(Byte)
           /\ Len(as_string(b)) = b.write - b.read
<1>1. IsVector(b.size, b.data, b.read, b.write)
  BY DEF IsBuffer
<1>2. /\ Between(b.data, b.read, b.write) \in Seq(Byte)
      /\ Len(Between(b.data, b.read, b.write)) = b.write - b.read
  BY <1>1, BetweenIsBytes
<1> QED
  BY <1>1, <1>2, AsString, BufferAssumption DEF IsVector

(* A new Buffer is empty.                                                  *)
LEMMA NewIsEmpty ==
    ASSUME NEW n \in Nat
    PROVE  /\ IsBuffer(NewBuffer(n))
           /\ as_string(NewBuffer(n)) = <<>>
           /\ NewBuffer(n).size = kCheapPrepend + n
           /\ NewBuffer(n).read = kCheapPrepend
           /\ NewBuffer(n).write = kCheapPrepend
<1> DEFINE d == [i \in 0 .. (kCheapPrepend + n - 1) |-> 0]
<1>1. kCheapPrepend \in Nat /\ 0 \in Byte
  BY BufferAssumption DEF Byte
<1>2. d \in [0 .. (kCheapPrepend + n) - 1 -> Byte]
  BY <1>1
<1> HIDE DEF d
<1>3. NewBuffer(n)
        = TheBuffer(kCheapPrepend + n, d, kCheapPrepend, kCheapPrepend)
  BY DEF NewBuffer, d
<1>4. IsVector(kCheapPrepend + n, d, kCheapPrepend, kCheapPrepend)
  BY <1>1, <1>2 DEF IsVector
<1>5. /\ Between(d, kCheapPrepend, kCheapPrepend) \in Seq(Byte)
      /\ Len(Between(d, kCheapPrepend, kCheapPrepend)) = 0
  BY <1>1, <1>4, BetweenIsBytes
<1>6. Between(d, kCheapPrepend, kCheapPrepend) = <<>>
  BY <1>5
<1> QED
  BY <1>3, <1>4, <1>6, VectorOf, FieldsOf

(* make_space, called when the writable room is too small, keeps the       *)
(* content and makes the room; it grows the vector only when the free room *)
(* on both sides together would not do.                                    *)
LEMMA MakeSpaceMakesSpace ==
    ASSUME NEW b, IsBuffer(b), NEW len \in Nat, writable_bytes_len(b) < len
    PROVE  LET m == make_space(b, len)
           IN  /\ IsBuffer(m)
               /\ as_string(m) = as_string(b)
               /\ m.size - m.write >= len
               /\ \/ m.size = b.size /\ m.read = kCheapPrepend
                  \/ /\ m.size = b.write + len
                     /\ m.read = b.read
                     /\ b.read < len + kCheapPrepend
                     /\ b.size < m.size
<1> DEFINE m == make_space(b, len)
           grows == writable_bytes_len(b) + prependable_bytes_len(b)
                      < len + kCheapPrepend
<1>1. /\ b.size \in Nat /\ b.read \in Nat /\ b.write \in Nat
      /\ b.read <= b.write /\ b.write <= b.size /\ kCheapPrepend \in Nat
  BY IndicesOf
<1>2. IsVector(b.size, b.data, b.read, b.write)
  BY DEF IsBuffer
<1>3. b.size - b.write < len
  BY DEF writable_bytes_len
<1>4. CASE grows
  <2> DEFINE n == b.write + len
  <2>1. n \in Nat /\ b.size < n /\ b.size <= n /\ n - b.write >= len
    BY <1>1, <1>3
  <2>2. b.read < len + kCheapPrepend
    BY <1>1, <1>4 DEF writable_bytes_len, prependable_bytes_len
  <2>3. m = TheBuffer(n, Extended(b.data, b.size, n), b.read, b.write)
    BY <1>4 DEF make_space, Resized
  <2> HIDE DEF n, m
  <2>4. /\ IsVector(n, Extended(b.data, b.size, n), b.read, b.write)
        /\ Between(Extended(b.data, b.size, n), b.read, b.write)
             = Between(b.data, b.read, b.write)
    BY <1>2, <2>1, ExtendedKeeps
  <2>5. m.size = n /\ m.read = b.read /\ m.write = b.write
    BY <2>3, FieldsOf
  <2>6. IsBuffer(m) /\ as_string(m) = as_string(b)
    BY <2>3, <2>4, VectorOf, AsString
  <2> QED
    BY <2>1, <2>2, <2>5, <2>6 DEF n, m
<1>5. CASE ~grows
  <2> DEFINE w == kCheapPrepend + (b.write - b.read)
             s == Between(b.data, b.read, b.write)
  <2>1. kCheapPrepend <= b.read /\ b.size - w >= len
    BY <1>1, <1>3, <1>5 DEF writable_bytes_len, prependable_bytes_len
  <2>2. m = TheBuffer(b.size, Copied(b.data, kCheapPrepend, s),
                      kCheapPrepend, w)
    BY <1>5, AsString DEF make_space, MovedToFront, content_bytes_len
  <2> HIDE DEF m
  <2>3. /\ IsVector(b.size, Copied(b.data, kCheapPrepend, s), kCheapPrepend, w)
        /\ Between(Copied(b.data, kCheapPrepend, s), kCheapPrepend, w) = s
    BY <1>1, <1>2, <2>1, MovedKeeps
  <2> HIDE DEF s, w
  <2>4. m.size = b.size /\ m.read = kCheapPrepend /\ m.write = w
    BY <2>2, FieldsOf
  <2>5. IsBuffer(m) /\ as_string(m) = as_string(b)
    BY <2>2, <2>3, VectorOf, AsString DEF s
  <2> QED
    BY <2>1, <2>4, <2>5 DEF m
<1> QED
  BY <1>4, <1>5

(* ensure_writable_len does this when the room is too small and nothing    *)
(* otherwise.  When it grows the vector, at most the bytes asked for are   *)
(* wasted in front.                                                        *)
LEMMA EnsureMakesSpace ==
    ASSUME NEW b, IsBuffer(b), NEW len \in Nat
    PROVE  LET e == ensure_writable_len(b, len)
           IN  /\ IsBuffer(e)
               /\ as_string(e) = as_string(b)
               /\ e.size - e.write >= len
               /\ b.size - b.write >= len => e = b
               /\ e.size = b.size => e = b \/ e.read = kCheapPrepend
               /\ e.size = b.size \/ e.size = b.write + len
               /\ \/ e.size = b.size
                  \/ e.size <= kCheapPrepend + (b.write - b.read) + 2 * len
<1> DEFINE e == ensure_writable_len(b, len)
<1>1. /\ b.size \in Nat /\ b.read \in Nat /\ b.write \in Nat
      /\ b.read <= b.write /\ kCheapPrepend \in Nat
  BY IndicesOf
<1>2. CASE b.size - b.write < len
  <2>1. e = make_space(b, len) /\ writable_bytes_len(b) < len
    BY <1>2 DEF ensure_writable_len, writable_bytes_len
  <2> HIDE DEF e
  <2>2. /\ IsBuffer(e)
        /\ as_string(e) = as_string(b)
        /\ e.size - e.write >= len
        /\ \/ e.size = b.size /\ e.read = kCheapPrepend
           \/ /\ e.size = b.write + len
              /\ b.read < len + kCheapPrepend
              /\ b.size < e.size
    BY <2>1, MakeSpaceMakesSpace
  <2>3. \/ e.size = b.size
        \/ e.size <= kCheapPrepend + (b.write - b.read) + 2 * len
    BY <1>1, <2>2
  <2>4. ~(b.size - b.write >= len)
    BY <1>1, <1>2
  <2>5. e.size = b.size => e.read = kCheapPrepend
    BY <1>1, <2>2
  <2> QED
    BY <2>2, <2>3, <2>4, <2>5 DEF e
<1>3. CASE ~(b.size - b.write < len)
  <2>1. e = b
    BY <1>3 DEF ensure_writable_len, writable_bytes_len
  <2>2. b.size - b.write >= len
    BY <1>1, <1>3
  <2> HIDE DEF e
  <2> QED
    BY <2>1, <2>2 DEF e
<1> QED
  BY <1>2, <1>3

(* Bytes written where there is room extend the content.                   *)
LEMMA WrittenBehind ==
    ASSUME NEW b, IsBuffer(b), NEW s \in Seq(Byte),
           b.write + Len(s) <= b.size
    PROVE  LET w == Written(b, s)
           IN  /\ IsBuffer(w)
               /\ as_string(w) = as_string(b) \o s
               /\ w.size = b.size /\ w.read = b.read
               /\ w.write = b.write + Len(s)
<1> DEFINE w == Written(b, s)
           c == Copied(b.data, b.write, s)
           q == b.write + Len(s)
<1>1. w = TheBuffer(b.size, c, b.read, q)
  BY DEF Written
<1>2. IsVector(b.size, b.data, b.read, b.write)
  BY DEF IsBuffer
<1>3. /\ IsVector(b.size, c, b.read, q)
      /\ Between(c, b.read, q) = Between(b.data, b.read, b.write) \o s
  BY <1>2, WrittenExtends
<1> HIDE DEF w, c, q
<1>4. w.size = b.size /\ w.read = b.read /\ w.write = q
  BY <1>1, FieldsOf
<1>5. IsBuffer(w) /\ as_string(w) = as_string(b) \o s
  BY <1>1, <1>3, VectorOf, AsString, SMTT(30)
<1> QED
  BY <1>4, <1>5 DEF w, q

(* append extends the content by the bytes.                                *)
LEMMA AppendExtends ==
    ASSUME NEW b, IsBuffer(b), NEW s \in Seq(Byte)
    PROVE  LET a == append(b, s)
           IN  /\ IsBuffer(a)
               /\ as_string(a) = as_string(b) \o s
               /\ b.size - b.write >= Len(s) => a.size = b.size
               /\ \/ a.size = b.size
                  \/ a.size <= kCheapPrepend + (b.write - b.read) + 2 * Len(s)
<1> DEFINE e == ensure_writable_len(b, Len(s))
           a == append(b, s)
<1>1. Len(s) \in Nat
  OBVIOUS
<1>2. a = Written(e, s)
  BY DEF append
<1>3. /\ IsBuffer(e)
      /\ as_string(e) = as_string(b)
      /\ e.size - e.write >= Len(s)
      /\ b.size - b.write >= Len(s) => e = b
      /\ \/ e.size = b.size
         \/ e.size <= kCheapPrepend + (b.write - b.read) + 2 * Len(s)
  BY <1>1, EnsureMakesSpace
<1> HIDE DEF e, a
<1>4. e.write + Len(s) <= e.size
  <2>1. e.size \in Nat /\ e.write \in Nat
    BY <1>3, IndicesOf
  <2> QED
    BY <1>1, <1>3, <2>1
<1>5. /\ IsBuffer(a)
      /\ as_string(a) = as_string(e) \o s
      /\ a.size = e.size
  BY <1>2, <1>3, <1>4, WrittenBehind, Zenon
<1> QED
  BY <1>3, <1>5 DEF a

(* prepend, within the prependable room, extends the content in front.     *)
LEMMA PrependExtends ==
    ASSUME NEW b, IsBuffer(b), NEW s \in Seq(Byte), Len(s) <= b.read
    PROVE  LET p == prepend(b, s)
           IN  /\ IsBuffer(p)
               /\ as_string(p) = s \o as_string(b)
               /\ p.size = b.size
<1> DEFINE p == prepend(b, s)
           c == Copied(b.data, b.read - Len(s), s)
<1>1. p = TheBuffer(b.size, c, b.read - Len(s), b.write)
  BY DEF prepend
<1>2. IsVector(b.size, b.data, b.read, b.write)
  BY DEF IsBuffer
<1>3. /\ IsVector(b.size, c, b.read - Len(s), b.write)
      /\ Between(c, b.read - Len(s), b.write)
           = s \o Between(b.data, b.read, b.write)
  BY <1>2, PrependedExtends
<1> HIDE DEF p, c
<1>4. p.size = b.size
  BY <1>1, FieldsOf
<1>5. IsBuffer(p) /\ as_string(p) = s \o as_string(b)
  BY <1>1, <1>3, VectorOf, AsString, SMTT(30)
<1> QED
  BY <1>4, <1>5 DEF p

(* retrieve, within the content, drops its first bytes.                    *)
LEMMA RetrieveDrops ==
    ASSUME NEW b, IsBuffer(b), NEW len \in Nat, len <= b.write - b.read
    PROVE  LET r == retrieve(b, len)
           IN  /\ IsBuffer(r)
               /\ as_string(r)
                    = SubSeq(as_string(b), len + 1, Len(as_string(b)))
               /\ r.size = b.size
<1> DEFINE r == retrieve(b, len)
           k == kCheapPrepend
<1>1. /\ b.size \in Nat /\ b.read \in Nat /\ b.write \in Nat
      /\ b.read <= b.write /\ b.write <= b.size
      /\ k <= b.size /\ k \in Nat
      /\ as_string(b) \in Seq(Byte)
      /\ Len(as_string(b)) = b.write - b.read
  BY IndicesOf
<1>2. IsVector(b.size, b.data, b.read, b.write)
  BY DEF IsBuffer
<1>3. CASE len < b.write - b.read
  <2> DEFINE p == b.read + len
             first == len + 1
             last == b.write - b.read
  <2>1. /\ IsVector(b.size, b.data, p, b.write)
        /\ Between(b.data, p, b.write)
             = SubSeq(Between(b.data, b.read, b.write), first, last)
    BY <1>2, ReadIndexMoved
  <2>2. r = TheBuffer(b.size, b.data, p, b.write)
    BY <1>3 DEF retrieve, content_bytes_len
  <2> HIDE DEF p, r, first, last
  <2>3. IsBuffer(r) /\ as_string(r) = Between(b.data, p, b.write)
    BY <2>1, <2>2, VectorOf
  <2>4. r.size = b.size
    BY <2>2, FieldsOf
  <2> QED
    BY <1>1, <2>1, <2>3, <2>4, AsString, Zenon DEF r, first, last
<1>4. CASE ~(len < b.write - b.read)
  <2>1. r = TheBuffer(b.size, b.data, k, k)
    BY <1>4 DEF retrieve, retrieve_all, content_bytes_len
  <2> HIDE DEF r
  <2>2. IsVector(b.size, b.data, k, k)
    BY <1>1, <1>2 DEF IsVector
  <2>3. IsBuffer(r) /\ r.size = b.size /\ r.read = k /\ r.write = k
    BY <2>1, <2>2, VectorOf, FieldsOf
  <2>4. as_string(r) \in Seq(Byte) /\ Len(as_string(r)) = 0
    BY <1>1, <2>3, IndicesOf
  <2>5. as_string(r) = <<>>
    BY <2>4
  <2>6. Len(as_string(b)) \in Int /\ Len(as_string(b)) < len + 1
    BY <1>1, <1>4
  <2>7. SubSeq(as_string(b), len + 1, Len(as_string(b))) = <<>>
    BY <2>6, SubSeqEmpty
  <2> QED
    BY <2>3, <2>5, <2>7, Zenon DEF r
<1> QED
  BY <1>3, <1>4

(* unwrite, within the content, drops its last bytes.                      *)
LEMMA UnwriteDrops ==
    ASSUME NEW b, IsBuffer(b), NEW len \in Nat, len <= b.write - b.read
    PROVE  LET u == unwrite(b, len)
           IN  /\ IsBuffer(u)
               /\ as_string(u)
                    = SubSeq(as_string(b), 1, Len(as_string(b)) - len)
               /\ u.size = b.size
<1> DEFINE u == unwrite(b, len)
           q == b.write - len
           last == (b.write - b.read) - len
<1>1. Len(as_string(b)) = b.write - b.read
  BY IndicesOf
<1>2. IsVector(b.size, b.data, b.read, b.write)
  BY DEF IsBuffer
<1>3. /\ IsVector(b.size, b.data, b.read, q)
      /\ Between(b.data, b.read, q)
           = SubSeq(Between(b.data, b.read, b.write), 1, last)
  BY <1>2, WriteIndexMoved
<1>4. u = TheBuffer(b.size, b.data, b.read, q)
  BY DEF unwrite
<1> HIDE DEF u, q, last
<1>5. IsBuffer(u) /\ as_string(u) = Between(b.data, b.read, q)
  BY <1>3, <1>4, VectorOf
<1>6. u.size = b.size
  BY <1>4, FieldsOf
<1> QED
  BY <1>1, <1>3, <1>5, <1>6, AsString DEF u, last

(* shrink keeps the content in a Buffer with the reserve and no more.      *)
LEMMA ShrinkKeeps ==
    ASSUME NEW b, IsBuffer(b), NEW reserve \in Nat
    PROVE  LET t == shrink(b, reserve)
           IN  /\ IsBuffer(t)
               /\ as_string(t) = as_string(b)
               /\ \/ t.size = kCheapPrepend + kInitialSize
                  \/ t.size = kCheapPrepend + (b.write - b.read) + reserve
<1> DEFINE new == NewBuffer(kInitialSize)
           len == b.write - b.read + reserve
           e == ensure_writable_len(new, len)
           t == shrink(b, reserve)
<1>1. /\ b.read \in Nat /\ b.write \in Nat /\ b.read <= b.write
      /\ kCheapPrepend \in Nat
      /\ as_string(b) \in Seq(Byte) /\ Len(as_string(b)) = b.write - b.read
  BY IndicesOf
<1>2. len \in Nat /\ Len(as_string(b)) <= len /\ kInitialSize \in Nat
  BY <1>1, BufferAssumption
<1>3. t = append(e, as_string(b))
  BY DEF shrink, content_bytes_len
<1>4. /\ IsBuffer(new) /\ as_string(new) = <<>>
      /\ new.size = kCheapPrepend + kInitialSize
      /\ new.write = kCheapPrepend
  BY <1>2, NewIsEmpty
<1> HIDE DEF new
<1>5. /\ IsBuffer(e) /\ as_string(e) = as_string(new)
      /\ e.size - e.write >= len
      /\ e.size = new.size \/ e.size = new.write + len
  <2> HIDE DEF len
  <2> QED
    BY <1>2, <1>4, EnsureMakesSpace, Zenon
<1> HIDE DEF e, t
<1>6. e.size - e.write >= Len(as_string(b))
  <2>1. e.size \in Nat /\ e.write \in Nat
    BY <1>5, IndicesOf
  <2> QED
    BY <1>1, <1>2, <1>5, <2>1
<1>7. /\ IsBuffer(t) /\ as_string(t) = as_string(e) \o as_string(b)
      /\ t.size = e.size
  BY <1>1, <1>3, <1>5, <1>6, AppendExtends, Zenon
<1>8. as_string(t) = as_string(b)
  <2>1. <<>> \o as_string(b) = as_string(b)
    BY <1>1, ConcatEmptySeq
  <2> QED
    BY <1>4, <1>5, <1>7, <2>1
<1>9. kCheapPrepend + len = kCheapPrepend + (b.write - b.read) + reserve
  BY <1>1
<1> QED
  BY <1>4, <1>5, <1>7, <1>8, <1>9 DEF t

(* readv, the writable room first and the rest appended, extends the       *)
(* content by all the bytes read.                                          *)
LEMMA ReadAllExtends ==
    ASSUME NEW b, IsBuffer(b), NEW s \in Seq(Byte)
    PROVE  LET a == read_all_from(b, s)
           IN  /\ IsBuffer(a)
               /\ as_string(a) = as_string(b) \o s
               /\ \/ a.size = b.size
                  \/ a.size <= kCheapPrepend + (b.write - b.read) + 2 * Len(s)
<1> DEFINE a == read_all_from(b, s)
           room == b.size - b.write
           s1 == SubSeq(s, 1, room)
           s2 == SubSeq(s, room + 1, Len(s))
           full == Written(b, s1)
<1>1. /\ b.size \in Nat /\ b.read \in Nat /\ b.write \in Nat
      /\ b.read <= b.write /\ b.write <= b.size /\ kCheapPrepend \in Nat
      /\ as_string(b) \in Seq(Byte) /\ Len(s) \in Nat /\ room \in Nat
  BY IndicesOf
<1>2. CASE Len(s) <= room
  <2>1. a = Written(b, s)
    BY <1>2 DEF read_all_from, writable_bytes_len
  <2>2. b.write + Len(s) <= b.size
    BY <1>1, <1>2
  <2> HIDE DEF a
  <2>3. IsBuffer(a) /\ as_string(a) = as_string(b) \o s /\ a.size = b.size
    BY <2>1, <2>2, WrittenBehind
  <2> QED
    BY <2>3 DEF a
<1>3. CASE ~(Len(s) <= room)
  <2>1. a = append(full, s2)
    BY <1>3 DEF read_all_from, writable_bytes_len
  <2>2. /\ s1 \in Seq(Byte) /\ Len(s1) = room
        /\ \A i \in 1 .. room : s1[i] = s[i]
    <3> DEFINE zero == 0
    <3> HIDE DEF room, zero
    <3>1. zero \in Nat /\ zero <= room /\ room <= Len(s)
      BY <1>1, <1>3 DEF zero
    <3>2. /\ SubSeq(s, zero + 1, room) \in Seq(Byte)
          /\ Len(SubSeq(s, zero + 1, room)) = room - zero
          /\ \A i \in 1 .. (room - zero) :
                SubSeq(s, zero + 1, room)[i] = s[zero + i]
      BY <1>1, <3>1, SubSeqBytes
    <3>3. zero + 1 = 1 /\ room - zero = room
      BY <1>1 DEF zero
    <3>4. \A i \in 1 .. room : zero + i = i
      BY <1>1 DEF zero
    <3> QED
      BY <3>2, <3>3, <3>4
  <2>3. /\ s2 \in Seq(Byte) /\ Len(s2) = Len(s) - room
        /\ \A i \in 1 .. (Len(s) - room) : s2[i] = s[room + i]
    <3> HIDE DEF room
    <3>1. room <= Len(s) /\ Len(s) <= Len(s)
      BY <1>1, <1>3
    <3> QED
      BY <1>1, <3>1, SubSeqBytes
  <2>4. s1 \o s2 = s
    <3> HIDE DEF s1, s2, room
    <3>1. /\ s1 \o s2 \in Seq(Byte) /\ Len(s1 \o s2) = Len(s)
          /\ \A i \in 1 .. room : (s1 \o s2)[i] = s[i]
          /\ \A i \in 1 .. (Len(s) - room) : (s1 \o s2)[room + i] = s[room + i]
      <4>1. /\ s1 \o s2 \in Seq(Byte) /\ Len(s1 \o s2) = Len(s1) + Len(s2)
            /\ \A i \in 1 .. Len(s1) : (s1 \o s2)[i] = s1[i]
            /\ \A i \in 1 .. Len(s2) : (s1 \o s2)[Len(s1) + i] = s2[i]
        BY <2>2, <2>3, ConcatBytes
      <4>2. room + (Len(s) - room) = Len(s)
        BY <1>1
      <4> QED
        BY <2>2, <2>3, <4>1, <4>2, SMTT(30)
    <3>2. ASSUME NEW i \in 1 .. Len(s)
          PROVE  (s1 \o s2)[i] = s[i]
      <4>1. CASE i <= room
        BY <1>1, <3>1, <4>1
      <4>2. CASE ~(i <= room)
        <5> DEFINE j == i - room
        <5>1. j \in 1 .. (Len(s) - room) /\ room + j = i
          BY <1>1, <4>2
        <5> HIDE DEF j
        <5> QED
          BY <3>1, <5>1
      <4> QED
        BY <4>1, <4>2, Zenon
    <3> QED
      BY <3>1, <3>2, SameBytes, Zenon
  <2>5. b.write + Len(s1) <= b.size
    BY <1>1, <2>2
  <2> HIDE DEF s1, s2
  <2>6. /\ IsBuffer(full) /\ as_string(full) = as_string(b) \o s1
        /\ full.size = b.size /\ full.read = b.read
        /\ full.write = b.write + Len(s1)
    BY <2>2, <2>5, WrittenBehind
  <2> HIDE DEF full, a
  <2>7. /\ IsBuffer(a) /\ as_string(a) = as_string(full) \o s2
        /\ \/ a.size = full.size
           \/ a.size <= kCheapPrepend + (full.write - full.read) + 2 * Len(s2)
    BY <2>1, <2>3, <2>6, AppendExtends, Zenon
  <2>8. as_string(a) = as_string(b) \o s
    <3>1. (as_string(b) \o s1) \o s2 = as_string(b) \o (s1 \o s2)
      BY <1>1, <2>2, <2>3, ConcatBytesAssociative, Zenon
    <3> QED
      BY <2>4, <2>6, <2>7, <3>1
  <2> DEFINE x == kCheapPrepend + (full.write - full.read) + 2 * Len(s2)
             y == kCheapPrepend + (b.write - b.read) + 2 * Len(s)
  <2>9. x \in Int /\ y \in Int /\ x <= y
    <3> HIDE DEF room
    <3>1. full.write = b.write + room /\ full.read = b.read
      BY <2>2, <2>6
    <3>2. x = kCheapPrepend + (b.write + room - b.read)
                + 2 * (Len(s) - room)
      BY <1>1, <2>3, <3>1, SMTT(30)
    <3> HIDE DEF x
    <3> QED
      <4> DEFINE g == b.write - b.read
      <4>1. g \in Int /\ Len(s) \in Int /\ room \in Nat /\ kCheapPrepend \in Int
        BY <1>1
      <4>2. /\ x = kCheapPrepend + (g + room) + 2 * (Len(s) - room)
            /\ y = kCheapPrepend + g + 2 * Len(s)
        BY <1>1, <3>2
      <4> HIDE DEF g, y
      <4> QED
        BY <4>1, <4>2
  <2>10. a.size = full.size \/ a.size <= x
    BY <2>7
  <2> HIDE DEF x, y
  <2>11. a.size \in Nat
    BY <2>7, IndicesOf
  <2>12. a.size = b.size \/ a.size <= y
    BY <2>6, <2>9, <2>10, <2>11
  <2> QED
    BY <2>7, <2>8, <2>12 DEF a, y
<1> QED
  BY <1>2, <1>3

(* An integer in network order is as many bytes as its width.              *)
LEMMA IntegersAreBytes ==
    ASSUME NEW width \in Widths, NEW x \in IntsOf(width)
    PROVE  /\ host_to_net(x, width) \in Seq(Byte)
           /\ Len(host_to_net(x, width)) = width
           /\ width \in Nat
<1>1. width \in Nat /\ Base \in Nat \ {0}
  BY BufferAssumption
<1>2. \A i \in 0 .. width : Base ^ i \in Nat \ {0}
  BY PowersAssumption
<1>3. x \in Int
  <2> DEFINE h == (Base ^ width) \div 2
  <2>1. Base ^ width \in Nat
    BY <1>1, <1>2
  <2>2. h \in Int
    BY <2>1
  <2> QED
    BY <2>2 DEF IntsOf
<1>4. ASSUME NEW i \in 1 .. width
      PROVE  (x \div Base ^ (width - i)) % Base \in Byte
  <2> DEFINE b == Base ^ (width - i)
  <2>1. b \in Nat \ {0}
    BY <1>1, <1>2
  <2> HIDE DEF b
  <2>2. x \div b \in Int
    BY <1>3, <2>1
  <2> DEFINE y == x \div b
  <2> HIDE DEF y
  <2>3. y % Base \in 0 .. Base - 1
    BY <1>1, <2>2 DEF y
  <2> QED
    BY <2>3 DEF b, y, Byte
<1>5. host_to_net(x, width) \in [1 .. width -> Byte]
  BY <1>4 DEF host_to_net
<1> QED
  BY <1>1, <1>5

-----------------------------------------------------------------------------
(* The program using a Buffer                                              *)

(* The inductive invariant: the parts of BufferTypeOK with the size at     *)
(* least the prepend room, the content, and the bound on the vector.       *)
BufferInv ==
    /\ IsBuffer(buf)
    /\ as_string(buf) = content
    /\ peak \in Nat
    /\ buf.size <= kCheapPrepend + Larger(kInitialSize, 2 * peak)

(* The bound carries over a step that asked for k more bytes on top of c.  *)
LEMMA StillBounded ==
    ASSUME NEW n \in Nat, NEW m \in Nat, NEW p \in Nat, NEW c \in Nat,
           NEW k \in Nat,
           n <= kCheapPrepend + Larger(kInitialSize, 2 * p),
           \/ m = n
           \/ m = kCheapPrepend + kInitialSize
           \/ m <= kCheapPrepend + c + 2 * k
    PROVE  /\ Larger(p, c + k) \in Nat
           /\ m <= kCheapPrepend + Larger(kInitialSize, 2 * Larger(p, c + k))
<1>1. kCheapPrepend \in Nat /\ kInitialSize \in Nat
  BY BufferAssumption
<1>2. Larger(p, c + k) \in Nat /\ p <= Larger(p, c + k)
        /\ c + k <= Larger(p, c + k)
  BY DEF Larger
<1> DEFINE q == Larger(p, c + k)
<1> HIDE DEF q
<1>3. m <= kCheapPrepend + Larger(kInitialSize, 2 * q)
  BY <1>1, <1>2 DEF q, Larger
<1> QED
  BY <1>2, <1>3 DEF q

(* A step that asked for k more bytes and left a Buffer with the right     *)
(* content keeps the invariant.                                            *)
LEMMA WantsKeeps ==
    ASSUME BufferInv, NEW k \in Nat, Wants(k), IsBuffer(buf'),
           as_string(buf') = content',
           \/ buf'.size = buf.size
           \/ buf'.size = kCheapPrepend + kInitialSize
           \/ buf'.size <= kCheapPrepend + (buf.write - buf.read) + 2 * k
    PROVE  BufferInv'
<1>1. /\ buf.size \in Nat /\ buf'.size \in Nat /\ peak \in Nat
      /\ Len(content) = buf.write - buf.read /\ buf.write - buf.read \in Nat
  BY IndicesOf DEF BufferInv
<1> DEFINE c == Len(content)
<1>2. /\ buf.size <= kCheapPrepend + Larger(kInitialSize, 2 * peak)
      /\ peak' = Larger(peak, c + k)
  BY DEF BufferInv, Wants
<1>3. /\ c \in Nat
      /\ \/ buf'.size = buf.size
         \/ buf'.size = kCheapPrepend + kInitialSize
         \/ buf'.size <= kCheapPrepend + c + 2 * k
  BY <1>1
<1> HIDE DEF c
<1>4. /\ Larger(peak, c + k) \in Nat
      /\ buf'.size <= kCheapPrepend
                        + Larger(kInitialSize, 2 * Larger(peak, c + k))
  BY <1>1, <1>2, <1>3, StillBounded, Zenon
<1> QED
  BY <1>2, <1>4 DEF BufferInv, as_string, content_bytes_len, IsBuffer

\* A new Buffer satisfies the invariant.
LEMMA InitEstablishes == BufferInit => BufferInv
<1> SUFFICES ASSUME BufferInit PROVE BufferInv
  OBVIOUS
<1>1. PICK n \in 0 .. kInitialSize : buf = NewBuffer(n)
  BY DEF BufferInit
<1>2. n \in Nat /\ kInitialSize \in Nat /\ kCheapPrepend \in Nat
      /\ n <= kInitialSize
  BY BufferAssumption
<1>3. /\ IsBuffer(buf) /\ as_string(buf) = <<>>
      /\ buf.size = kCheapPrepend + n
  BY <1>1, <1>2, NewIsEmpty
<1>4. content = <<>> /\ peak = 0
  BY DEF BufferInit
<1>5. kCheapPrepend + n <= kCheapPrepend + Larger(kInitialSize, 2 * 0)
  BY <1>2 DEF Larger
<1> QED
  BY <1>3, <1>4, <1>5 DEF BufferInv

(* Every operation keeps the invariant.                                    *)
LEMMA NextKeeps == BufferInv /\ [BufferNext]_bufferVars => BufferInv'
<1> SUFFICES ASSUME BufferInv, [BufferNext]_bufferVars PROVE BufferInv'
  OBVIOUS
<1>0. /\ IsBuffer(buf) /\ as_string(buf) = content /\ peak \in Nat
      /\ buf.size <= kCheapPrepend + Larger(kInitialSize, 2 * peak)
      /\ Len(content) = buf.write - buf.read
  BY IndicesOf DEF BufferInv
<1>1. ASSUME NEW s \in Chunks PROVE s \in Seq(Byte) /\ Len(s) \in Nat
  BY DEF Chunks
<1>2. ASSUME NEW s \in Chunks, AppendBytes(s) PROVE BufferInv'
  <2>1. /\ buf' = append(buf, s) /\ content' = content \o s /\ Wants(Len(s))
    BY <1>2 DEF AppendBytes
  <2>2. /\ IsBuffer(buf') /\ as_string(buf') = content'
        /\ \/ buf'.size = buf.size
           \/ buf'.size <= kCheapPrepend + (buf.write - buf.read) + 2 * Len(s)
    BY <1>0, <1>1, <2>1, AppendExtends, Zenon
  <2> QED
    BY <1>1, <2>1, <2>2, WantsKeeps
<1>3. ASSUME NEW s \in Chunks, ReadAllFrom(s) PROVE BufferInv'
  <2>1. /\ buf' = read_all_from(buf, s) /\ content' = content \o s
        /\ Wants(Len(s))
    BY <1>3 DEF ReadAllFrom
  <2>2. /\ IsBuffer(buf') /\ as_string(buf') = content'
        /\ \/ buf'.size = buf.size
           \/ buf'.size <= kCheapPrepend + (buf.write - buf.read) + 2 * Len(s)
    BY <1>0, <1>1, <2>1, ReadAllExtends, Zenon
  <2> QED
    BY <1>1, <2>1, <2>2, WantsKeeps
<1>4. ASSUME NEW n \in 0 .. MaxChunk, EnsureWritable(n) PROVE BufferInv'
  <2>1. /\ buf' = ensure_writable_len(buf, n) /\ content' = content
        /\ Wants(n) /\ n \in Nat
    BY <1>4 DEF EnsureWritable
  <2>2. /\ IsBuffer(buf') /\ as_string(buf') = content'
        /\ \/ buf'.size = buf.size
           \/ buf'.size <= kCheapPrepend + (buf.write - buf.read) + 2 * n
    BY <1>0, <2>1, EnsureMakesSpace, Zenon
  <2> QED
    BY <2>1, <2>2, WantsKeeps
<1>5. ASSUME NEW n \in 0 .. MaxChunk, Shrink(n) PROVE BufferInv'
  <2>1. /\ buf' = shrink(buf, n) /\ content' = content /\ Wants(n) /\ n \in Nat
    BY <1>5 DEF Shrink
  <2>2. /\ IsBuffer(buf') /\ as_string(buf') = content'
        /\ \/ buf'.size = kCheapPrepend + kInitialSize
           \/ buf'.size = kCheapPrepend + (buf.write - buf.read) + n
    BY <1>0, <2>1, ShrinkKeeps, Zenon
  <2>3. kCheapPrepend + (buf.write - buf.read) + n
          <= kCheapPrepend + (buf.write - buf.read) + 2 * n
    BY <1>0, <2>1, IndicesOf
  <2>4. \/ buf'.size = buf.size
        \/ buf'.size = kCheapPrepend + kInitialSize
        \/ buf'.size <= kCheapPrepend + (buf.write - buf.read) + 2 * n
    BY <2>2, <2>3
  <2> QED
    BY <2>1, <2>2, <2>4, WantsKeeps
<1>6. ASSUME NEW width \in Widths, NEW x \in IntsOf(width),
             AppendInt(width, x)
      PROVE  BufferInv'
  <2> DEFINE s == host_to_net(x, width)
  <2>1. s \in Seq(Byte) /\ Len(s) = width /\ width \in Nat
    BY IntegersAreBytes
  <2>2. /\ buf' = append(buf, s) /\ content' = content \o s /\ Wants(width)
    BY <1>6 DEF AppendInt
  <2> HIDE DEF s
  <2>3. /\ IsBuffer(buf') /\ as_string(buf') = content'
        /\ \/ buf'.size = buf.size
           \/ buf'.size <= kCheapPrepend + (buf.write - buf.read) + 2 * width
    BY <1>0, <2>1, <2>2, AppendExtends, Zenon
  <2> QED
    BY <2>1, <2>2, <2>3, WantsKeeps
<1>7. ASSUME NEW width \in Widths, NEW x \in IntsOf(width),
             PrependInt(width, x)
      PROVE  BufferInv'
  <2> DEFINE s == host_to_net(x, width)
  <2>1. s \in Seq(Byte) /\ Len(s) = width /\ width \in Nat
    BY IntegersAreBytes
  <2>2. /\ buf' = prepend(buf, s) /\ content' = s \o content
        /\ Wants(width) /\ width <= buf.read
    BY <1>7 DEF PrependInt, prependable_bytes_len
  <2> HIDE DEF s
  <2>3. IsBuffer(buf') /\ as_string(buf') = content' /\ buf'.size = buf.size
    BY <1>0, <2>1, <2>2, PrependExtends, SMTT(30)
  <2> QED
    BY <2>1, <2>2, <2>3, WantsKeeps
<1>8. ASSUME NEW n \in 0 .. MaxContent, Retrieve(n) PROVE BufferInv'
  <2>1. /\ buf' = retrieve(buf, n) /\ n <= buf.write - buf.read
        /\ content' = SubSeq(content, n + 1, Len(content))
        /\ peak' = peak /\ n \in Nat
    BY <1>8 DEF Retrieve, content_bytes_len
  <2>2. IsBuffer(buf') /\ as_string(buf') = content' /\ buf'.size = buf.size
    BY <1>0, <2>1, RetrieveDrops, Zenon
  <2> QED
    BY <1>0, <2>1, <2>2 DEF BufferInv, as_string, content_bytes_len, IsBuffer
<1>9. ASSUME NEW n \in 0 .. MaxContent, Unwrite(n) PROVE BufferInv'
  <2>1. /\ buf' = unwrite(buf, n) /\ n <= buf.write - buf.read
        /\ content' = SubSeq(content, 1, Len(content) - n)
        /\ peak' = peak /\ n \in Nat
    BY <1>9 DEF Unwrite, content_bytes_len
  <2>2. IsBuffer(buf') /\ as_string(buf') = content' /\ buf'.size = buf.size
    BY <1>0, <2>1, UnwriteDrops, Zenon
  <2> QED
    BY <1>0, <2>1, <2>2, Zenon DEF BufferInv, as_string, content_bytes_len, IsBuffer
<1>10. CASE UNCHANGED bufferVars
  BY <1>10 DEF bufferVars, BufferInv, as_string, content_bytes_len, IsBuffer
<1> QED
  BY <1>2, <1>3, <1>4, <1>5, <1>6, <1>7, <1>8, <1>9, <1>10 DEF BufferNext

\* BufferInv holds in every state of every program that uses a Buffer.
LEMMA BufferInvariant == BufferSpec => []BufferInv
  BY InitEstablishes, NextKeeps, PTL DEF BufferSpec

(* The indices of a Buffer stay in the order its class comment draws, in a *)
(* vector of bytes, whatever is appended, read, prepended and retrieved.   *)
THEOREM BufferTypeCorrect == BufferSpec => []BufferTypeOK
<1>1. BufferInv => BufferTypeOK
  <2> SUFFICES ASSUME BufferInv PROVE BufferTypeOK
    OBVIOUS
  <2>1. content \in Seq(Byte)
    BY IndicesOf DEF BufferInv
  <2> QED
    BY <2>1 DEF BufferInv, IsBuffer, IsVector, BufferTypeOK
<1> QED
  BY <1>1, BufferInvariant, PTL

(* The bytes between the indices are the bytes put in and not yet taken    *)
(* out, for every sequence of operations.                                  *)
THEOREM ContentIsKept == BufferSpec => []ContentKept
<1>1. BufferInv => ContentKept
  BY DEF BufferInv, ContentKept
<1> QED
  BY <1>1, BufferInvariant, PTL

(* ensure_writable_len makes the room it asserts, and restores the prepend *)
(* room when it moves the content.                                         *)
THEOREM SpaceIsAlwaysMade == BufferSpec => []SpaceIsMade
<1>1. BufferInv => SpaceIsMade
  <2> SUFFICES ASSUME BufferInv, NEW len \in 0 .. MaxChunk
               PROVE  LET b == ensure_writable_len(buf, len)
                      IN  /\ writable_bytes_len(b) >= len
                          /\ b.size = buf.size /\ b # buf
                               => b.read = kCheapPrepend
    BY DEF SpaceIsMade
  <2>1. IsBuffer(buf) /\ len \in Nat
    BY DEF BufferInv
  <2> QED
    BY <2>1, EnsureMakesSpace DEF writable_bytes_len
<1> QED
  BY <1>1, BufferInvariant, PTL

(* The vector never exceeds twice the most it was asked to hold, or its    *)
(* first size.                                                             *)
THEOREM MemoryIsBounded == BufferSpec => []MemoryBounded
<1>1. BufferInv => MemoryBounded
  BY DEF BufferInv, MemoryBounded
<1> QED
  BY <1>1, BufferInvariant, PTL

=============================================================================
