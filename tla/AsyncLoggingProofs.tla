------------------------- MODULE AsyncLoggingProofs -------------------------
(***************************************************************************)
(* Proofs about AsyncLogging and its LogFile, for any size of a buffer and *)
(* any number of lines: no line is lost, repeated or reordered but those   *)
(* the backend gives up, stop() leaves behind only newer ones, the backend *)
(* finds its spare buffers, and a file is over its size with a reason.     *)
(***************************************************************************)
EXTENDS AsyncLogging, TLAPS

Bufs == Seq(Seq(Nat))

(***************************************************************************)
(* Lines in a file and in a sequence of buffers.                           *)
(***************************************************************************)

\* File l and buffers B hold the lines of L, in order.
Kept(l, B, L) ==
  /\ Ascends(l)
  /\ \A k \in DOMAIN B : Ascends(B[k]) /\ Before(l, B[k])
  /\ \A j, k \in DOMAIN B : j < k => Before(B[j], B[k])
  /\ \A x : x \in L <=> (x # 0 /\ x \in ToSet(l)) \/ \E k \in DOMAIN B : x \in ToSet(B[k])

\* LinesKept in these terms.
LEMMA KeptIsLinesKept == LinesKept <=> Kept(log, Buffered, (1..total) \ dropped)
  BY DEF LinesKept, Kept

\* The lines of a buffer are lines that are kept.
LEMMA KeptMember ==
  ASSUME NEW l, NEW B, NEW L, Kept(l, B, L)
  PROVE  /\ \A k \in DOMAIN B : \A i \in DOMAIN B[k] : B[k][i] \in L
         /\ \A i \in DOMAIN l : l[i] # 0 => l[i] \in L
         /\ \A x \in L : (\E i \in DOMAIN l : l[i] = x) \/ \E k \in DOMAIN B : x \in ToSet(B[k])
  BY DEF Kept, ToSet

\* A new line behind the lines of a buffer.
LEMMA NewLine ==
  ASSUME NEW b \in Seq(Nat), NEW n \in Nat, \A i \in DOMAIN b : b[i] \in 1..n
  PROVE  /\ Append(b, n + 1) \in Seq(Nat) /\ Len(Append(b, n + 1)) = Len(b) + 1
         /\ Ascends(b) => Ascends(Append(b, n + 1))
         /\ ToSet(Append(b, n + 1)) = ToSet(b) \cup {n + 1}
<1> DEFINE c == Append(b, n + 1)
<1>1. /\ c \in Seq(Nat) /\ Len(c) = Len(b) + 1 /\ DOMAIN c = 1..(Len(b) + 1) /\ DOMAIN b = 1..Len(b) /\ Len(b) \in Nat
      /\ \A i \in 1..Len(b) : c[i] = b[i]
      /\ c[Len(b) + 1] = n + 1
    OBVIOUS
<1> HIDE DEF c
<1>2. ASSUME Ascends(b), NEW i \in DOMAIN c, NEW j \in DOMAIN c, i < j, c[i] # 0, c[j] # 0 PROVE c[i] < c[j]
  <2>1. i \in 1..Len(b) /\ c[i] = b[i] /\ c[i] \in 1..n
    <3>1. i \in 1..Len(b)
        BY <1>1, <1>2
    <3> QED
        BY <1>1, <3>1
  <2>2. CASE j = Len(b) + 1
      BY <1>1, <2>1, <2>2
  <2>3. CASE j # Len(b) + 1
    <3>1. j \in 1..Len(b) /\ c[j] = b[j]
        BY <1>1, <2>3
    <3> QED
        BY <1>1, <1>2, <2>1, <3>1 DEF Ascends
  <2> QED
      BY <2>2, <2>3
<1>3. ToSet(c) = ToSet(b) \cup {n + 1}
    BY <1>1, SMTT(30) DEF ToSet
<1> QED
    BY <1>1, <1>2, <1>3, Zenon DEF Ascends, c

\* A new line comes behind all there are.
LEMMA NewLineBehind ==
  ASSUME NEW s, NEW b \in Seq(Nat), NEW n \in Nat, \A i \in DOMAIN s : s[i] \in 0..n, Before(s, b)
  PROVE  Before(s, Append(b, n + 1))
<1> DEFINE c == Append(b, n + 1)
<1>1. /\ DOMAIN c = 1..(Len(b) + 1) /\ DOMAIN b = 1..Len(b) /\ Len(b) \in Nat
      /\ \A i \in 1..Len(b) : c[i] = b[i]
      /\ c[Len(b) + 1] = n + 1
    OBVIOUS
<1> HIDE DEF c
<1>2. ASSUME NEW i \in DOMAIN s, NEW j \in DOMAIN c PROVE s[i] < c[j]
  <2>1. CASE j = Len(b) + 1
      BY <1>1, <2>1
  <2>2. CASE j # Len(b) + 1
    <3>1. j \in DOMAIN b /\ c[j] = b[j]
        BY <1>1, <2>2
    <3> QED
        BY <3>1 DEF Before
  <2> QED
      BY <2>1, <2>2
<1> QED
    BY <1>2 DEF Before, c

\* append() to a current buffer that has room.
LEMMA KeptAppend ==
  ASSUME NEW l \in Seq(Nat), NEW B \in Bufs, NEW n \in Nat, NEW L \in SUBSET (1..n), Kept(l, B, L),
         NEW m \in Nat \ {0}, Len(B) = m, NEW C \in Bufs, Len(C) = m,
         \A k \in 1..m : k # m => C[k] = B[k],
         C[m] = Append(B[m], n + 1)
  PROVE  Kept(l, C, L \cup {n + 1})
<1>1. m \in 1..m /\ DOMAIN B = 1..m /\ DOMAIN C = 1..m /\ \A k \in 1..m : B[k] \in Seq(Nat)
    BY DEF Bufs
<1>2. /\ \A k \in 1..m : \A i \in DOMAIN B[k] : B[k][i] \in 1..n
      /\ \A i \in DOMAIN l : l[i] # 0 => l[i] \in 1..n
    BY <1>1, KeptMember, Zenon
<1>3. /\ Ascends(l) /\ \A k \in 1..m : Ascends(B[k]) /\ Before(l, B[k])
      /\ \A j, k \in 1..m : j < k => Before(B[j], B[k])
      /\ \A x : x \in L <=> (x # 0 /\ x \in ToSet(l)) \/ \E k \in 1..m : x \in ToSet(B[k])
    BY <1>1, Zenon DEF Kept
<1>4. Ascends(C[m]) /\ ToSet(C[m]) = ToSet(B[m]) \cup {n + 1}
    BY <1>1, <1>2, <1>3, NewLine, SMTT(30)
<1>5. Before(l, C[m])
  <2>1. \A i \in DOMAIN l : l[i] \in 0..n
      BY <1>2
  <2> QED
      BY <1>1, <1>3, <2>1, NewLineBehind
<1>6. ASSUME NEW j \in 1..m, j < m PROVE Before(B[j], C[m])
  <2>1. \A i \in DOMAIN B[j] : B[j][i] \in 0..n
      BY <1>2
  <2>2. Before(B[j], B[m]) /\ B[m] \in Seq(Nat)
      BY <1>1, <1>3, <1>6
  <2> QED
      BY <2>1, <2>2, NewLineBehind, Zenon
<1>7. ASSUME NEW x
      PROVE  x \in L \cup {n + 1} <=> (x # 0 /\ x \in ToSet(l)) \/ \E k \in 1..m : x \in ToSet(C[k])
    BY <1>1, <1>3, <1>4, Zenon
<1>8. \A k \in 1..m : Ascends(C[k]) /\ Before(l, C[k])
    BY <1>3, <1>4, <1>5, Zenon
<1>9. ASSUME NEW j \in 1..m, NEW k \in 1..m, j < k PROVE Before(C[j], C[k])
  <2>1. j # m /\ j < m /\ C[j] = B[j]
      BY <1>9
  <2> QED
      BY <1>3, <1>6, <1>9, <2>1, Zenon
<1> QED
    BY <1>1, <1>3, <1>7, <1>8, <1>9, Zenon DEF Kept

\* An empty buffer behind the others holds nothing.
LEMMA KeptEmpty ==
  ASSUME NEW l \in Seq(Nat), NEW B \in Bufs, NEW L, Kept(l, B, L),
         NEW m \in Nat, Len(B) = m, NEW C \in Bufs, Len(C) = m + 1,
         \A k \in 1..m : C[k] = B[k], C[m + 1] = <<>>
  PROVE  Kept(l, C, L)
<1>1. DOMAIN B = 1..m /\ DOMAIN C = 1..(m + 1) /\ m + 1 \in 1..(m + 1)
    BY DEF Bufs
<1>2. \A k \in 1..(m + 1) : k = m + 1 \/ (k \in 1..m /\ C[k] = B[k])
    OBVIOUS
<1>3. /\ Ascends(l) /\ \A k \in 1..m : Ascends(B[k]) /\ Before(l, B[k])
      /\ \A j, k \in 1..m : j < k => Before(B[j], B[k])
      /\ \A x : x \in L <=> (x # 0 /\ x \in ToSet(l)) \/ \E k \in 1..m : x \in ToSet(B[k])
    BY <1>1 DEF Kept
<1>4. Ascends(<<>>) /\ ToSet(<<>>) = {} /\ \A s : Before(s, <<>>)
    BY DEF Ascends, Before, ToSet
<1>5. \A k \in 1..(m + 1) : Ascends(C[k]) /\ Before(l, C[k])
    BY <1>2, <1>3, <1>4
<1>6. ASSUME NEW j \in 1..(m + 1), NEW k \in 1..(m + 1), j < k PROVE Before(C[j], C[k])
  <2>1. CASE k = m + 1
      BY <1>4, <2>1
  <2>2. CASE k # m + 1
    <3>1. j \in 1..m /\ k \in 1..m
        BY <1>6, <2>2
    <3> QED
        BY <1>3, <1>6, <3>1
  <2> QED
      BY <2>1, <2>2
<1>7. ASSUME NEW x PROVE (\E k \in 1..m : x \in ToSet(B[k])) <=> \E k \in 1..(m + 1) : x \in ToSet(C[k])
    BY <1>2, <1>4
<1> QED
    BY <1>1, <1>3, <1>5, <1>6, <1>7, Zenon DEF Kept

\* append() that puts a new buffer in place of the full one.
LEMMA KeptNewBuffer ==
  ASSUME NEW l \in Seq(Nat), NEW B \in Bufs, NEW n \in Nat, NEW L \in SUBSET (1..n), Kept(l, B, L),
         NEW m \in Nat, Len(B) = m, NEW C \in Bufs, Len(C) = m + 1,
         \A k \in 1..m : C[k] = B[k], C[m + 1] = <<n + 1>>
  PROVE  Kept(l, C, L \cup {n + 1})
<1> DEFINE D == Append(B, <<>>)
<1>1. /\ D \in Bufs /\ Len(D) = m + 1 /\ D[m + 1] = <<>> /\ m + 1 \in Nat \ {0}
      /\ \A k \in 1..m : D[k] = B[k]
  <2>1. <<>> \in Seq(Nat) /\ B \in Seq(Seq(Nat))
      BY DEF Bufs
  <2>2. D \in Seq(Seq(Nat)) /\ Len(D) = m + 1
      BY <2>1
  <2>3. D[m + 1] = <<>> /\ \A k \in 1..m : D[k] = B[k]
      BY <2>1
  <2> QED
      BY <2>2, <2>3 DEF Bufs
<1> HIDE DEF D
<1>2. Kept(l, D, L)
    BY <1>1, KeptEmpty
<1>3. C[m + 1] = Append(D[m + 1], n + 1)
    BY <1>1
<1>4. \A k \in 1..(m + 1) : k # m + 1 => C[k] = D[k]
    BY <1>1
<1> QED
    BY <1>1, <1>2, <1>3, <1>4, KeptAppend, Zenon

\* Buffers a+1 to a+d are given up, and a notice may be written.
LEMMA KeptCut ==
  ASSUME NEW l \in Seq(Nat), NEW B \in Bufs, NEW L, Kept(l, B, L),
         NEW m \in Nat, Len(B) = m, NEW a \in Nat, NEW d \in Nat, a + d <= m,
         NEW C \in Bufs, Len(C) = m - d, \A k \in 1..(m - d) : C[k] = IF k <= a THEN B[k] ELSE B[k + d],
         \A k \in DOMAIN B : \A i \in DOMAIN B[k] : B[k][i] \in Nat \ {0},
         NEW l2 \in Seq(Nat), l2 = l \/ l2 = l \o << 0 >>,
         NEW G, \A x : x \in G <=> \E k \in (a + 1)..(a + d) : x \in ToSet(B[k])
  PROVE  Kept(l2, C, L \ G)
<1>1. DOMAIN B = 1..m /\ DOMAIN C = 1..(m - d) /\ \A k \in 1..m : B[k] \in Seq(Nat)
    BY DEF Bufs
<1> DEFINE at(k) == IF k <= a THEN k ELSE k + d
<1>2. \A k \in 1..(m - d) : at(k) \in 1..m /\ at(k) \notin (a + 1)..(a + d) /\ C[k] = B[at(k)]
    OBVIOUS
<1>3. \A j, k \in 1..(m - d) : j < k => at(j) < at(k)
    OBVIOUS
<1>4. \A k \in 1..m : k \in (a + 1)..(a + d) \/ \E j \in 1..(m - d) : at(j) = k
  <2> SUFFICES ASSUME NEW k \in 1..m, k \notin (a + 1)..(a + d) PROVE \E j \in 1..(m - d) : at(j) = k
      BY Zenon
  <2>1. CASE k <= a
    <3>1. k \in 1..(m - d) /\ at(k) = k
        BY <2>1
    <3> QED
        BY <3>1
  <2>2. CASE k > a + d
    <3>1. k - d \in 1..(m - d) /\ at(k - d) = k
        BY <2>2
    <3> QED
        BY <3>1, Zenon
  <2> QED
      BY <2>1, <2>2
<1> HIDE DEF at
<1>5. /\ Ascends(l) /\ \A k \in 1..m : Ascends(B[k]) /\ Before(l, B[k])
      /\ \A j, k \in 1..m : j < k => Before(B[j], B[k])
      /\ \A x : x \in L <=> (x # 0 /\ x \in ToSet(l)) \/ \E k \in 1..m : x \in ToSet(B[k])
    BY <1>1, Zenon DEF Kept
<1>6. /\ \A i \in DOMAIN l : i \in DOMAIN l2 /\ l2[i] = l[i]
      /\ \A i \in DOMAIN l2 : l2[i] # 0 => i \in DOMAIN l /\ l2[i] = l[i]
  <2>1. CASE l2 = l
      BY <2>1
  <2>2. CASE l2 = l \o <<0>>
    <3>1. /\ Len(l) \in Nat /\ DOMAIN l = 1..Len(l) /\ DOMAIN l2 = 1..(Len(l) + 1) /\ l2[Len(l) + 1] = 0
          /\ \A i \in 1..Len(l) : l2[i] = l[i]
        BY <2>2
    <3>2. \A i \in 1..(Len(l) + 1) : i \in 1..Len(l) \/ i = Len(l) + 1
        BY <3>1
    <3> QED
        BY <3>1, <3>2
  <2> QED
      BY <2>1, <2>2
<1>7. Ascends(l2)
    BY <1>5, <1>6 DEF Ascends
<1>8. ASSUME NEW k \in 1..m PROVE Before(l2, B[k])
  <2>1. ASSUME NEW i \in DOMAIN l2, NEW j \in DOMAIN B[k] PROVE l2[i] < B[k][j]
    <3>1. B[k][j] \in Nat \ {0}
        BY <1>1
    <3>2. CASE l2[i] = 0
        BY <3>1, <3>2
    <3>3. CASE l2[i] # 0
        BY <1>5, <1>6, <3>3 DEF Before
    <3> QED
        BY <3>2, <3>3
  <2> QED
      BY <2>1 DEF Before
<1>9. \A k \in 1..(m - d) : Ascends(C[k]) /\ Before(l2, C[k])
    BY <1>2, <1>5, <1>8
<1>10. \A j, k \in 1..(m - d) : j < k => Before(C[j], C[k])
    BY <1>2, <1>3, <1>5
<1>11. ASSUME NEW x, x # 0 PROVE x \in ToSet(l2) <=> x \in ToSet(l)
  <2>1. ASSUME x \in ToSet(l2) PROVE x \in ToSet(l)
    <3>1. PICK i \in DOMAIN l2 : x = l2[i]
        BY <2>1 DEF ToSet
    <3>2. i \in DOMAIN l /\ l[i] = x
        BY <1>6, <1>11, <3>1
    <3> QED
        BY <3>2 DEF ToSet
  <2>2. ASSUME x \in ToSet(l) PROVE x \in ToSet(l2)
    <3>1. PICK i \in DOMAIN l : x = l[i]
        BY <2>2 DEF ToSet
    <3>2. i \in DOMAIN l2 /\ l2[i] = x
        BY <1>6, <3>1
    <3> QED
        BY <3>2 DEF ToSet
  <2> QED
      BY <2>1, <2>2
<1>12. ASSUME NEW x, NEW j \in 1..m, x \in ToSet(B[j])
       PROVE  /\ x \notin ToSet(l)
              /\ \A k \in 1..m : x \in ToSet(B[k]) => k = j
  <2>1. PICK i \in DOMAIN B[j] : x = B[j][i]
      BY <1>12 DEF ToSet
  <2>2. x \in Nat
      BY <1>1, <2>1
  <2>3. x \notin ToSet(l)
      BY <1>5, <2>1, <2>2 DEF Before, ToSet
  <2>4. ASSUME NEW k \in 1..m, x \in ToSet(B[k]), k # j PROVE FALSE
    <3>1. PICK h \in DOMAIN B[k] : x = B[k][h]
        BY <2>4 DEF ToSet
    <3>2. Before(B[j], B[k]) \/ Before(B[k], B[j])
        BY <1>5, <2>4
    <3>3. B[j][i] < B[k][h] \/ B[k][h] < B[j][i]
        BY <2>1, <3>1, <3>2, Zenon DEF Before
    <3> QED
        BY <2>1, <2>2, <3>1, <3>3
  <2> QED
      BY <2>3, <2>4
<1>13. ASSUME NEW x
       PROVE  x \in L \ G <=> (x # 0 /\ x \in ToSet(l2)) \/ \E k \in 1..(m - d) : x \in ToSet(C[k])
  <2>1. ASSUME x \in L \ G PROVE (x # 0 /\ x \in ToSet(l2)) \/ \E k \in 1..(m - d) : x \in ToSet(C[k])
    <3>1. CASE x # 0 /\ x \in ToSet(l)
        BY <1>11, <3>1
    <3>2. CASE \E k \in 1..m : x \in ToSet(B[k])
      <4>1. PICK k \in 1..m : x \in ToSet(B[k])
          BY <3>2
      <4>2. k \notin (a + 1)..(a + d)
          BY <2>1, <4>1
      <4>3. PICK j \in 1..(m - d) : at(j) = k
          BY <1>4, <4>2
      <4> QED
          BY <1>2, <4>1, <4>3
    <3> QED
        BY <1>5, <2>1, <3>1, <3>2
  <2>2. ASSUME x # 0, x \in ToSet(l2) PROVE x \in L \ G
    <3>1. x \in ToSet(l) /\ x \in L
        BY <1>5, <1>11, <2>2
    <3>2. \A k \in 1..m : x \notin ToSet(B[k])
        BY <1>12, <3>1
    <3>3. \A k \in (a + 1)..(a + d) : k \in 1..m
        OBVIOUS
    <3> QED
        BY <3>1, <3>2, <3>3
  <2>3. ASSUME NEW k \in 1..(m - d), x \in ToSet(C[k]) PROVE x \in L \ G
    <3>1. at(k) \in 1..m /\ at(k) \notin (a + 1)..(a + d) /\ x \in ToSet(B[at(k)])
        BY <1>2, <2>3
    <3>2. x \in L
        BY <1>5, <3>1
    <3>3. \A h \in (a + 1)..(a + d) : h \in 1..m
        OBVIOUS
    <3>4. \A h \in (a + 1)..(a + d) : x \notin ToSet(B[h])
        BY <1>12, <3>1, <3>3
    <3> QED
        BY <3>2, <3>4
  <2> QED
      BY <2>1, <2>2, <2>3
<1> QED
    BY <1>1, <1>7, <1>9, <1>10, <1>13, Zenon DEF Kept

\* The first buffer is written.
LEMMA KeptWrite ==
  ASSUME NEW l \in Seq(Nat), NEW B \in Bufs, NEW L, Kept(l, B, L),
         NEW m \in Nat \ {0}, Len(B) = m, NEW C \in Bufs, Len(C) = m - 1, \A k \in 1..(m - 1) : C[k] = B[k + 1],
         \A k \in DOMAIN B : \A i \in DOMAIN B[k] : B[k][i] \in Nat \ {0}
  PROVE  l \o B[1] \in Seq(Nat) /\ Kept(l \o B[1], C, L)
<1>1. DOMAIN B = 1..m /\ DOMAIN C = 1..(m - 1) /\ \A k \in 1..m : B[k] \in Seq(Nat)
    BY DEF Bufs
<1>2. /\ Ascends(l) /\ \A k \in 1..m : Ascends(B[k]) /\ Before(l, B[k])
      /\ \A j, k \in 1..m : j < k => Before(B[j], B[k])
      /\ \A x : x \in L <=> (x # 0 /\ x \in ToSet(l)) \/ \E k \in 1..m : x \in ToSet(B[k])
    BY <1>1, Zenon DEF Kept
<1> DEFINE b == B[1]
           l2 == l \o b
<1>3. b \in Seq(Nat) /\ Ascends(b) /\ Before(l, b) /\ \A i \in DOMAIN b : b[i] \in Nat \ {0}
  <2>1. 1 \in 1..m
      OBVIOUS
  <2> QED
      BY <1>1, <1>2, <2>1, Zenon
<1>4. /\ l2 \in Seq(Nat) /\ DOMAIN l2 = 1..(Len(l) + Len(b)) /\ Len(l) \in Nat /\ Len(b) \in Nat
      /\ DOMAIN l = 1..Len(l)
      /\ \A i \in 1..Len(l) : l2[i] = l[i]
      /\ \A i \in (Len(l) + 1)..(Len(l) + Len(b)) : i - Len(l) \in DOMAIN b /\ l2[i] = b[i - Len(l)]
    BY <1>3
<1>5. \A i \in DOMAIN b : Len(l) + i \in DOMAIN l2 /\ l2[Len(l) + i] = b[i]
    BY <1>3
<1> HIDE DEF b, l2
<1>6. ASSUME NEW i \in DOMAIN l2
      PROVE  \/ i \in DOMAIN l /\ l2[i] = l[i]
             \/ i > Len(l) /\ i - Len(l) \in DOMAIN b /\ l2[i] = b[i - Len(l)]
  <2>1. i \in 1..Len(l) \/ i \in (Len(l) + 1)..(Len(l) + Len(b))
      BY <1>4
  <2>2. CASE i \in 1..Len(l)
      BY <1>4, <2>2
  <2>3. CASE i \in (Len(l) + 1)..(Len(l) + Len(b))
      BY <1>4, <2>3, SMTT(20)
  <2> QED
      BY <2>1, <2>2, <2>3
<1>7. ASSUME NEW i \in DOMAIN l2, NEW j \in DOMAIN l2, i < j, l2[i] # 0, l2[j] # 0 PROVE l2[i] < l2[j]
  <2>1. i \in Nat /\ j \in Nat
      BY <1>4
  <2>2. CASE j \in DOMAIN l /\ l2[j] = l[j]
    <3>1. i \in DOMAIN l /\ l2[i] = l[i]
        BY <1>4, <1>7, <2>1, <2>2
    <3> QED
        BY <1>2, <1>7, <2>2, <3>1 DEF Ascends
  <2>3. CASE j > Len(l) /\ j - Len(l) \in DOMAIN b /\ l2[j] = b[j - Len(l)]
    <3>1. CASE i \in DOMAIN l /\ l2[i] = l[i]
        BY <1>3, <2>3, <3>1 DEF Before
    <3>2. CASE i > Len(l) /\ i - Len(l) \in DOMAIN b /\ l2[i] = b[i - Len(l)]
      <4>1. i - Len(l) < j - Len(l)
          BY <1>4, <1>7, <2>1
      <4> QED
          BY <1>3, <1>7, <2>3, <3>2, <4>1 DEF Ascends
    <3> QED
        BY <1>6, <3>1, <3>2
  <2> QED
      BY <1>6, <2>2, <2>3
<1>8. ASSUME NEW k \in 1..(m - 1) PROVE Ascends(C[k]) /\ Before(l2, C[k])
  <2>1. k + 1 \in 1..m /\ C[k] = B[k + 1] /\ 1 \in 1..m /\ 1 < k + 1
      OBVIOUS
  <2>2. Ascends(C[k]) /\ Before(l, C[k]) /\ Before(b, C[k])
      BY <1>2, <2>1 DEF b
  <2>3. \A i \in DOMAIN l2, j \in DOMAIN C[k] : l2[i] < C[k][j]
      BY <1>6, <2>2, Zenon DEF Before
  <2> QED
      BY <2>2, <2>3 DEF Before
<1>9. ASSUME NEW j \in 1..(m - 1), NEW k \in 1..(m - 1), j < k PROVE Before(C[j], C[k])
  <2>1. j + 1 \in 1..m /\ k + 1 \in 1..m /\ j + 1 < k + 1
      BY <1>9
  <2> QED
      BY <1>2, <2>1, Zenon
<1>10. ASSUME NEW x PROVE x \in ToSet(l2) <=> x \in ToSet(l) \/ x \in ToSet(b)
  <2>1. ASSUME x \in ToSet(l2) PROVE x \in ToSet(l) \/ x \in ToSet(b)
    <3>1. PICK i \in DOMAIN l2 : x = l2[i]
        BY <2>1 DEF ToSet
    <3> QED
        BY <1>6, <3>1 DEF ToSet
  <2>2. ASSUME x \in ToSet(l) PROVE x \in ToSet(l2)
    <3>1. PICK i \in DOMAIN l : x = l[i]
        BY <2>2 DEF ToSet
    <3>2. i \in DOMAIN l2 /\ l2[i] = x
        BY <1>4, <3>1
    <3> QED
        BY <3>2 DEF ToSet
  <2>3. ASSUME x \in ToSet(b) PROVE x \in ToSet(l2)
    <3>1. PICK i \in DOMAIN b : x = b[i]
        BY <2>3 DEF ToSet
    <3> QED
        BY <1>5, <3>1 DEF ToSet
  <2> QED
      BY <2>1, <2>2, <2>3
<1>11. 0 \notin ToSet(b)
    BY <1>3 DEF ToSet
<1>12. ASSUME NEW x
       PROVE  x \in L <=> (x # 0 /\ x \in ToSet(l2)) \/ \E k \in 1..(m - 1) : x \in ToSet(C[k])
  <2>1. (\E k \in 1..m : x \in ToSet(B[k])) <=> x \in ToSet(b) \/ \E k \in 1..(m - 1) : x \in ToSet(C[k])
    <3>1. ASSUME NEW k \in 1..m, x \in ToSet(B[k])
          PROVE  x \in ToSet(b) \/ \E h \in 1..(m - 1) : x \in ToSet(C[h])
      <4>1. CASE k = 1
          BY <3>1, <4>1 DEF b
      <4>2. CASE k # 1
        <5>1. k - 1 \in 1..(m - 1) /\ C[k - 1] = B[k]
            BY <4>2
        <5> QED
            BY <3>1, <5>1
      <4> QED
          BY <4>1, <4>2
    <3>2. ASSUME NEW k \in 1..(m - 1), x \in ToSet(C[k]) PROVE \E h \in 1..m : x \in ToSet(B[h])
      <4>1. k + 1 \in 1..m /\ C[k] = B[k + 1]
          OBVIOUS
      <4> QED
          BY <3>2, <4>1
    <3>3. 1 \in 1..m
        OBVIOUS
    <3> QED
        BY <3>1, <3>2, <3>3 DEF b
  <2> QED
      BY <1>2, <1>10, <1>11, <2>1
<1>13. Kept(l2, C, L)
    BY <1>1, <1>7, <1>8, <1>9, <1>12, Zenon DEF Kept, Ascends
<1> QED
    BY <1>4, <1>13 DEF b, l2

(***************************************************************************)
(* The state, in parts.                                                    *)
(***************************************************************************)
FileType ==
  /\ now \in 1..MaxTime /\ log \in Seq(Nat) /\ written \in Nat /\ m_count \in 0..(m_check_every_n_appends - 1)
  /\ m_last_roll \in 1..MaxTime /\ last_append \in 1..MaxTime

ControlType ==
  /\ owner \in {"constructed", "starting", "started", "joining", "stopped"}
  /\ pc \in {"none", "begin", "test", "lock", "wait", "write", "exited"}
  /\ m_is_running \in BOOLEAN /\ reserved \in BOOLEAN /\ new1 \in BOOLEAN /\ new2 \in BOOLEAN

LinesType ==
  /\ total \in Nat /\ caught \in Nat /\ dropped \subseteq 1..total
  /\ cur \in Seq(Nat) /\ Len(cur) < BufferSize
  /\ used \in Bufs /\ \A i \in DOMAIN used : Len(used[i]) < BufferSize
  /\ to_write \in Bufs /\ next \in 1..(Len(to_write) + 1)

\* TypeOK in parts.
LEMMA TypeParts == TypeOK <=> FileType /\ ControlType /\ LinesType
<1>1. {m_last_roll, last_append} \subseteq 1..MaxTime <=> m_last_roll \in 1..MaxTime /\ last_append \in 1..MaxTime
    OBVIOUS
<1>2. {m_is_running, reserved, new1, new2} \subseteq BOOLEAN
      <=> m_is_running \in BOOLEAN /\ reserved \in BOOLEAN /\ new1 \in BOOLEAN /\ new2 \in BOOLEAN
    BY Zenon
<1>3. {total, caught} \subseteq Nat <=> total \in Nat /\ caught \in Nat
    OBVIOUS
<1> QED
    BY <1>1, <1>2, <1>3, Zenon DEF TypeOK, FileType, ControlType, LinesType, Bufs

\* append_unlocked: what it was given is behind what the file had, and a file
\* that stays over the size could not be replaced.
LEMMA AppendFile ==
  ASSUME FileType, NEW lines \in Seq(Nat), NEW taken \in Seq(Nat), append(lines, taken), now' = now
  PROVE  FileType' /\ log' = log \o taken /\ OversizeHasAReason'
<1>1. /\ m_rollsize \in Nat /\ m_check_every_n_appends \in Nat \ {0} /\ MaxTime \in Nat
    BY LogFileAssumption
<1>2. /\ now \in Nat /\ m_last_roll \in Nat /\ written \in Nat /\ written + Len(lines) \in Nat
      /\ m_count \in 0..(m_check_every_n_appends - 1) /\ now \in 1..MaxTime /\ m_last_roll \in 1..MaxTime
    BY <1>1 DEF FileType
<1>3. log' = log \o taken /\ last_append' = now /\ log' \in Seq(Nat)
    BY DEF append, FileType
<1>4. /\ m_last_roll' \in 1..MaxTime
      /\ written' \in Nat
      /\ written' > m_rollsize => now <= m_last_roll'
    BY <1>1, <1>2 DEF append, TooLong, roll_file, MayRoll
<1>5. m_count' \in 0..(m_check_every_n_appends - 1)
    BY <1>1, <1>2 DEF append
<1> QED
    BY <1>2, <1>3, <1>4, <1>5 DEF FileType, OversizeHasAReason

\* r is s, and t behind it.
Concat(s, t, r) ==
  /\ Len(s) \in Nat /\ Len(t) \in Nat /\ Len(r) = Len(s) + Len(t)
  /\ \A k \in 1..Len(s) : r[k] = s[k]
  /\ \A k \in 1..Len(t) : r[Len(s) + k] = t[k]

\* Where the elements of a concatenation are.
LEMMA ConcatAt ==
  ASSUME NEW S, NEW s \in Seq(S), NEW t \in Seq(S)
  PROVE  s \o t \in Seq(S) /\ Concat(s, t, s \o t)
  BY DEF Concat

\* B has h buffers of w, the first of them at n, then those of u, then c.
Layout(B, h, w, n, u, c) ==
  /\ B \in Bufs /\ h \in Nat /\ Len(u) \in Nat /\ Len(B) = h + Len(u) + 1
  /\ \A k \in 1..h : B[k] = w[n + k - 1]
  /\ \A k \in 1..Len(u) : B[h + k] = u[k]
  /\ B[h + Len(u) + 1] = c

\* The buffers that are still to be written, one by one.
LEMMA BuffersAt ==
  ASSUME NEW w \in Bufs, NEW n \in 1..(Len(w) + 1), NEW u \in Bufs, NEW c \in Seq(Nat), NEW B,
         B = SubSeq(w, n, Len(w)) \o u \o <<c>>, NEW h, h = Len(w) - n + 1
  PROVE  Layout(B, h, w, n, u, c)
<1> DEFINE v == SubSeq(w, n, Len(w))
           vu == v \o u
<1>1. /\ v \in Bufs /\ h \in Nat /\ Len(v) = h
      /\ \A k \in 1..h : v[k] = w[n + k - 1]
    BY DEF Bufs
<1> HIDE DEF v
<1>2. /\ vu \in Bufs /\ Len(vu) = h + Len(u) /\ Len(u) \in Nat
      /\ \A k \in 1..h : vu[k] = v[k]
      /\ \A k \in 1..Len(u) : vu[h + k] = u[k]
  <2>1. vu \in Bufs /\ Concat(v, u, vu)
      BY <1>1, ConcatAt, Zenon DEF Bufs
  <2> QED
      BY <1>1, <2>1, Zenon DEF Concat
<1> HIDE DEF vu
<1>3. B = vu \o <<c>>
    BY DEF v, vu
<1>4. /\ B \in Bufs /\ Len(B) = h + Len(u) + 1 /\ B[h + Len(u) + 1] = c
      /\ \A k \in 1..(h + Len(u)) : B[k] = vu[k]
  <2>1. <<c>> \in Seq(Seq(Nat)) /\ Len(<<c>>) = 1 /\ <<c>>[1] = c /\ 1 \in 1..1
      OBVIOUS
  <2>2. B \in Bufs /\ Concat(vu, <<c>>, B)
      BY <1>2, <1>3, <2>1, ConcatAt, ZenonT(30) DEF Bufs
  <2> QED
      BY <1>1, <1>2, <2>1, <2>2, Zenon DEF Concat
<1>5. \A k \in 1..Len(u) : h + k \in 1..(h + Len(u))
    BY <1>1, <1>2
<1>6. \A k \in 1..h : k \in 1..(h + Len(u))
    BY <1>1, <1>2
<1> QED
    BY <1>1, <1>2, <1>4, <1>5, <1>6, ZenonT(30) DEF Layout

\* What the proofs are about: LoggingInv without what follows from the rest.
Core == FileType /\ ControlType /\ LinesType /\ LinesKept /\ StopMeetsTheSwap /\ SparesCanBeRefilled

\* When the backend has exited it has nothing in hand.
LEMMA CoreIsInv == Core <=> LoggingInv
<1>1. ASSUME Core PROVE StopWritesWhatWasThere
  <2>1. SUFFICES ASSUME pc = "exited", NEW k \in DOMAIN Buffered, NEW line \in ToSet(Buffered[k]) PROVE line > caught
      BY DEF StopWritesWhatWasThere
  <2>2. /\ to_write = <<>> /\ next = 1
        /\ \A x \in ToSet(cur) : x > caught
        /\ \A j \in DOMAIN used : \A x \in ToSet(used[j]) : x > caught
      BY <1>1, <2>1 DEF Core, StopMeetsTheSwap
  <2>3. to_write \in Bufs /\ next \in 1..(Len(to_write) + 1) /\ used \in Bufs /\ cur \in Seq(Nat)
      BY <1>1 DEF Core, LinesType
  <2>4. Len(to_write) - next + 1 = 0
      BY <2>2
  <2>5. /\ Buffered \in Bufs /\ Len(used) \in Nat /\ Len(Buffered) = Len(used) + 1
        /\ \A j \in 1..Len(used) : Buffered[j] = used[j]
        /\ Buffered[Len(used) + 1] = cur
    <3>1. Layout(Buffered, 0, to_write, next, used, cur)
        BY <2>3, <2>4, BuffersAt, Zenon DEF Buffered
    <3> QED
        BY <3>1 DEF Layout
  <2>6. k \in 1..(Len(used) + 1)
      BY <2>5 DEF Bufs
  <2>7. CASE k = Len(used) + 1
      BY <2>2, <2>5, <2>7
  <2>8. CASE k # Len(used) + 1
    <3>1. k \in 1..Len(used) /\ Buffered[k] = used[k]
        BY <2>5, <2>6, <2>8
    <3>2. k \in DOMAIN used
        BY <2>3, <3>1 DEF Bufs
    <3> QED
        BY <2>2, <3>1, <3>2
  <2> QED
      BY <2>7, <2>8
<1> QED
    BY <1>1, TypeParts DEF Core, LoggingInv

\* The buffers behind each other, and the lines they hold.
LEMMA BufferFacts ==
  ASSUME LinesType, LinesKept
  PROVE  /\ Buffered \in Bufs
         /\ Kept(log, Buffered, (1..total) \ dropped)
         /\ \A k \in DOMAIN Buffered : \A i \in DOMAIN Buffered[k] : Buffered[k][i] \in Nat \ {0}
<1>1. Buffered \in Bufs
  <2>1. Layout(Buffered, Len(to_write) - next + 1, to_write, next, used, cur)
      BY BuffersAt, Zenon DEF LinesType, Buffered
  <2> QED
      BY <2>1 DEF Layout
<1>2. Kept(log, Buffered, (1..total) \ dropped)
    BY KeptIsLinesKept
<1>3. \A k \in DOMAIN Buffered : \A i \in DOMAIN Buffered[k] : Buffered[k][i] \in (1..total) \ dropped
    BY <1>2, KeptMember
<1>4. \A x \in (1..total) \ dropped : x \in Nat \ {0}
    BY DEF LinesType
<1> QED
    BY <1>1, <1>2, <1>3, <1>4

\* The lines after a step.
LEMMA KeptAfter ==
  ASSUME Kept(log', Buffered', (1..total') \ dropped')
  PROVE  LinesKept'
  BY DEF LinesKept, Kept

\* The constructor.
LEMMA InitCore == Init => Core /\ OversizeHasAReason
<1> SUFFICES ASSUME Init PROVE Core /\ OversizeHasAReason
    OBVIOUS
<1>1. /\ m_rollsize \in Nat /\ m_check_every_n_appends \in Nat \ {0} /\ MaxTime \in Nat
      /\ BufferSize \in Nat /\ BufferSize > 1
    BY LogFileAssumption, AsyncLoggingAssumption
<1>2. FileType /\ OversizeHasAReason
    BY <1>1 DEF Init, LogFileInit, FileType, OversizeHasAReason
<1>3. ControlType
    BY Zenon DEF Init, ControlType
<1>4. LinesType
    BY <1>1 DEF Init, LinesType, Bufs
<1>5. LinesKept
  <2>1. to_write = <<>> /\ used = <<>> /\ cur = <<>> /\ next = 1 /\ Len(to_write) - next + 1 = 0
      BY DEF Init
  <2>2. Layout(Buffered, 0, to_write, next, used, cur)
      BY <1>4, <2>1, BuffersAt, Zenon DEF LinesType, Buffered
  <2>3. Buffered \in Bufs /\ Len(Buffered) = 1 /\ Buffered[1] = <<>>
      BY <2>1, <2>2 DEF Layout
  <2>4. DOMAIN Buffered = {1}
      BY <2>3 DEF Bufs
  <2>5. log = <<>> /\ (1..total) \ dropped = {}
      BY DEF Init, LogFileInit
  <2>6. Kept(log, Buffered, {})
      BY <2>3, <2>4, <2>5 DEF Kept, Ascends, Before, ToSet
  <2> QED
      BY <2>5, <2>6, KeptIsLinesKept
<1>6. StopMeetsTheSwap
    BY <1>1 DEF Init, StopMeetsTheSwap, ToSet
<1>7. SparesCanBeRefilled
    BY DEF Init, SparesCanBeRefilled
<1> QED
    BY <1>2, <1>3, <1>4, <1>5, <1>6, <1>7 DEF Core

(***************************************************************************)
(* The steps.                                                              *)
(***************************************************************************)

\* Steps that leave the buffers alone.
LEMMA SameLines ==
  ASSUME Core, UNCHANGED <<front, to_write, next, total, dropped, log>>
  PROVE  LinesKept' /\ (caught' \in Nat => LinesType')
<1>1. UNCHANGED <<cur, used, reserved, to_write, next, total, dropped, log>>
    BY DEF front
<1>2. LinesType /\ LinesKept
    BY DEF Core
<1>3. Buffered' = Buffered
    BY <1>1 DEF Buffered
<1>4. LinesKept'
    BY <1>1, <1>2, <1>3 DEF LinesKept
<1>5. caught' \in Nat => LinesType'
    BY <1>1, <1>2 DEF LinesType
<1> QED
    BY <1>4, <1>5

\* Steps that leave the file alone.
LEMMA SameFile ==
  ASSUME FileType, UNCHANGED <<now, logfile>>
  PROVE FileType'
  BY DEF FileType, logfile

\* start() creates the backend.
LEMMA StartKeeps ==
  ASSUME Core, Start
  PROVE Core'
<1>1. /\ owner = "constructed" /\ owner' = "starting" /\ m_is_running' = TRUE /\ pc' = "begin"
      /\ UNCHANGED <<now, logfile>> /\ UNCHANGED <<front, to_write, next, total, dropped, log>>
      /\ UNCHANGED <<cur, used, reserved, new1, new2, to_write, next, total, caught>>
    BY DEF Start, front, logfile
<1>2. FileType /\ ControlType /\ LinesType /\ StopMeetsTheSwap /\ SparesCanBeRefilled
    BY DEF Core
<1>3. FileType'
    BY <1>1, <1>2, SameFile
<1>4. ControlType'
    BY <1>1, <1>2, Zenon DEF ControlType
<1>5. LinesKept' /\ LinesType'
    BY <1>1, <1>2, SameLines DEF LinesType
<1>6. pc = "none" /\ caught = 0
    BY <1>1, <1>2 DEF StopMeetsTheSwap, LinesType
<1>7. StopMeetsTheSwap'
    BY <1>1, <1>2, <1>6 DEF StopMeetsTheSwap
<1>8. SparesCanBeRefilled'
    BY <1>1, <1>2, <1>6, ZenonT(30) DEF SparesCanBeRefilled
<1> QED
    BY <1>3, <1>4, <1>5, <1>7, <1>8, SMTT(20) DEF Core

\* start() has waited for the latch.
LEMMA StartedKeeps ==
  ASSUME Core, Started
  PROVE Core'
<1>1. /\ owner = "starting" /\ owner' = "started"
      /\ UNCHANGED <<now, logfile>> /\ UNCHANGED <<front, to_write, next, total, dropped, log>>
      /\ UNCHANGED <<m_is_running, pc, cur, used, reserved, new1, new2, to_write, next, total, caught>>
    BY DEF Started, front, back, logfile
<1>2. FileType /\ ControlType /\ LinesType /\ StopMeetsTheSwap /\ SparesCanBeRefilled
    BY DEF Core
<1>3. FileType'
    BY <1>1, <1>2, SameFile
<1>4. ControlType'
    BY <1>1, <1>2, Zenon DEF ControlType
<1>5. LinesKept' /\ LinesType'
    BY <1>1, <1>2, SameLines DEF LinesType
<1>6. StopMeetsTheSwap'
    BY <1>1, <1>2 DEF StopMeetsTheSwap
<1>7. SparesCanBeRefilled'
    BY <1>1, <1>2, SMTT(20) DEF SparesCanBeRefilled, Missing
<1> QED
    BY <1>3, <1>4, <1>5, <1>6, <1>7 DEF Core

\* stop() has joined the backend.
LEMMA JoinedKeeps ==
  ASSUME Core, Joined
  PROVE Core'
<1>1. /\ owner = "joining" /\ owner' = "stopped"
      /\ UNCHANGED <<now, logfile>> /\ UNCHANGED <<front, to_write, next, total, dropped, log>>
      /\ UNCHANGED <<m_is_running, pc, cur, used, reserved, new1, new2, to_write, next, total, caught>>
    BY DEF Joined, front, back, logfile
<1>2. FileType /\ ControlType /\ LinesType /\ StopMeetsTheSwap /\ SparesCanBeRefilled
    BY DEF Core
<1>3. FileType'
    BY <1>1, <1>2, SameFile
<1>4. ControlType'
    BY <1>1, <1>2, Zenon DEF ControlType
<1>5. LinesKept' /\ LinesType'
    BY <1>1, <1>2, SameLines DEF LinesType
<1>6. StopMeetsTheSwap'
    BY <1>1, <1>2 DEF StopMeetsTheSwap
<1>7. SparesCanBeRefilled'
    BY <1>1, <1>2 DEF SparesCanBeRefilled, Missing
<1> QED
    BY <1>3, <1>4, <1>5, <1>6, <1>7 DEF Core

\* Every line in the buffers has a number above 0.
LEMMA LinesPositive ==
  ASSUME Core
  PROVE  /\ \A i \in DOMAIN cur : cur[i] \in 1..total
         /\ \A line \in ToSet(cur) : line > 0 /\ line <= total
         /\ \A k \in DOMAIN used : \A line \in ToSet(used[k]) : line > 0 /\ line <= total
<1> DEFINE h == Len(to_write) - next + 1
<1>1. LinesType /\ LinesKept
    BY DEF Core
<1>2. Layout(Buffered, h, to_write, next, used, cur)
    BY <1>1, BuffersAt, Zenon DEF LinesType, Buffered
<1>3. /\ Buffered \in Bufs /\ h \in Nat /\ Len(used) \in Nat /\ Len(Buffered) = h + Len(used) + 1
      /\ \A k \in 1..Len(used) : Buffered[h + k] = used[k]
      /\ Buffered[h + Len(used) + 1] = cur
    BY <1>2 DEF Layout
<1> HIDE DEF h
<1>4. \A k \in DOMAIN Buffered : \A i \in DOMAIN Buffered[k] : Buffered[k][i] \in 1..total
    BY <1>1, BufferFacts, KeptMember
<1>5. DOMAIN Buffered = 1..(h + Len(used) + 1) /\ DOMAIN used = 1..Len(used)
    BY <1>1, <1>3 DEF Bufs, LinesType
<1>6. \A i \in DOMAIN cur : cur[i] \in 1..total
    BY <1>3, <1>4, <1>5
<1>7. \A k \in DOMAIN used : \A i \in DOMAIN used[k] : used[k][i] \in 1..total
  <2>1. \A k \in 1..Len(used) : h + k \in DOMAIN Buffered /\ Buffered[h + k] = used[k]
      BY <1>3, <1>5, SMTT(20)
  <2> QED
      BY <1>4, <1>5, <2>1
<1> QED
    BY <1>1, <1>6, <1>7 DEF ToSet, LinesType

\* stop() meets the backend anywhere.
LEMMA StopKeeps ==
  ASSUME Core, Stop
  PROVE Core'
<1>1. /\ owner = "started" /\ owner' = "joining" /\ m_is_running' = FALSE
      /\ caught' = IF pc \in {"lock", "wait"} THEN total ELSE 0
      /\ UNCHANGED <<now, logfile>> /\ UNCHANGED <<front, to_write, next, total, dropped, log>>
      /\ UNCHANGED <<pc, cur, used, reserved, new1, new2, to_write, next, total>>
    BY DEF Stop, front, back, logfile
<1>2. FileType /\ ControlType /\ LinesType /\ StopMeetsTheSwap /\ SparesCanBeRefilled
    BY DEF Core
<1>3. FileType'
    BY <1>1, <1>2, SameFile
<1>4. ControlType'
    BY <1>1, <1>2, Zenon DEF ControlType
<1>5. total \in Nat /\ caught' \in Nat /\ caught' <= total
    BY <1>1, <1>2 DEF LinesType
<1>6. LinesKept' /\ LinesType'
    BY <1>1, <1>5, SameLines, SMTT(20)
<1>7. StopMeetsTheSwap'
    BY <1>1, <1>2, <1>5, LinesPositive, SMTT(20) DEF StopMeetsTheSwap
<1>8. SparesCanBeRefilled'
    BY <1>1, <1>2, SMTT(20) DEF SparesCanBeRefilled, Missing
<1> QED
    BY <1>3, <1>4, <1>6, <1>7, <1>8 DEF Core

\* The clock is set.
LEMMA TimePassesKeeps ==
  ASSUME Core, TimePasses
  PROVE Core'
<1>1. /\ now' \in 1..MaxTime
      /\ UNCHANGED <<log, written, m_count, m_last_roll, last_append>>
      /\ UNCHANGED <<front, to_write, next, total, dropped, log>>
      /\ UNCHANGED <<owner, m_is_running, pc, cur, used, reserved, new1, new2, to_write, next, total, caught>>
    BY DEF TimePasses, ClockChanges, front, back, logfile
<1>2. FileType /\ ControlType /\ LinesType /\ StopMeetsTheSwap /\ SparesCanBeRefilled
    BY DEF Core
<1>3. FileType'
    BY <1>1, <1>2 DEF FileType
<1>4. ControlType'
    BY <1>1, <1>2, Zenon DEF ControlType
<1>5. LinesKept' /\ LinesType'
    BY <1>1, <1>2, SameLines DEF LinesType
<1>6. StopMeetsTheSwap'
    BY <1>1, <1>2 DEF StopMeetsTheSwap
<1>7. SparesCanBeRefilled'
    BY <1>1, <1>2 DEF SparesCanBeRefilled, Missing
<1> QED
    BY <1>3, <1>4, <1>5, <1>6, <1>7 DEF Core

\* flush() changes nothing of what is known about the file.
LEMMA FlushKeeps ==
  ASSUME FileType, flush, now' = now PROVE FileType' /\ UNCHANGED <<log, written, m_last_roll, last_append>>
  BY DEF FileType, flush

\* The backend moves on, with the buffers as they were.
LEMMA BackendMoves ==
  ASSUME Core, FileType', NEW v \in {"test", "lock", "wait", "exited"}, pc' = v, pc \in {"begin", "test", "lock"},
         v \in {"lock", "wait"} => pc # "begin", pc = "lock" => v = "wait",
         UNCHANGED <<owner, m_is_running, total, caught, dropped, log>>,
         UNCHANGED <<front, new1, new2, to_write, next>>
  PROVE  Core'
<1>1. /\ UNCHANGED <<front, to_write, next, total, dropped, log>>
      /\ UNCHANGED <<owner, m_is_running, cur, used, reserved, new1, new2, to_write, next, total, caught>>
    BY DEF front
<1>2. ControlType /\ LinesType /\ StopMeetsTheSwap /\ SparesCanBeRefilled
    BY DEF Core
<1>3. ControlType'
    BY <1>1, <1>2, ZenonT(30) DEF ControlType
<1>4. LinesKept' /\ LinesType'
    BY <1>1, <1>2, SameLines, SMTT(20) DEF LinesType
<1>5. StopMeetsTheSwap'
    BY <1>1, <1>2 DEF StopMeetsTheSwap
<1>6. SparesCanBeRefilled'
  <2>1. pc # "write" /\ pc' # "write"
      OBVIOUS
  <2>2. (reserved \/ used # <<>>) /\ new1 /\ new2
      BY <1>2, <2>1 DEF SparesCanBeRefilled
  <2>3. reserved' = reserved /\ used' = used /\ new1' = new1 /\ new2' = new2
      BY <1>1
  <2>4. reserved' \/ used' # <<>>
      BY <2>2, <2>3
  <2>5. new1' /\ new2'
      BY <2>2, <2>3
  <2> QED
      BY <2>1, <2>4, <2>5 DEF SparesCanBeRefilled
<1> QED
    BY <1>3, <1>4, <1>5, <1>6, SMTT(20) DEF Core

\* The backend starts.
LEMMA BeginKeeps ==
  ASSUME Core, Begin
  PROVE Core'
<1>1. /\ pc = "begin" /\ pc' = "test" /\ UNCHANGED <<now, logfile>> /\ UNCHANGED log
      /\ UNCHANGED <<owner, m_is_running, total, caught, dropped, front, new1, new2, to_write, next>>
    BY DEF Begin, Backend, logfile
<1>2. FileType'
    BY <1>1, SameFile DEF Core
<1> QED
    BY <1>1, <1>2, BackendMoves

\* It tests m_is_running.
LEMMA TestRunningKeeps ==
  ASSUME Core, TestRunning
  PROVE Core'
<1>1. /\ pc = "test" /\ now' = now
      /\ UNCHANGED <<owner, m_is_running, total, caught, dropped, front, new1, new2, to_write, next>>
    BY DEF TestRunning, Backend
<1>2. FileType
    BY DEF Core
<1>3. CASE pc' = "lock" /\ UNCHANGED logfile
  <2>1. FileType' /\ UNCHANGED log
      BY <1>1, <1>2, <1>3, SameFile DEF logfile
  <2> QED
      BY <1>1, <1>3, <2>1, BackendMoves
<1>4. CASE pc' = "exited" /\ flush
  <2>1. FileType' /\ UNCHANGED log
      BY <1>1, <1>2, <1>4, FlushKeeps
  <2> QED
      BY <1>1, <1>4, <2>1, BackendMoves
<1> QED
    BY <1>3, <1>4 DEF TestRunning

\* The exchange of buffers under the lock: all that is in the buffers is the
\* backend's, and the current buffer is empty.
LEMMA SwapKeeps ==
  ASSUME Core, pc \in {"lock", "wait"}, pc' = "write", Swap, UNCHANGED next,
         UNCHANGED <<now, logfile>>, UNCHANGED <<owner, m_is_running, total, caught, dropped>>
  PROVE  Core'
<1>1. FileType /\ ControlType /\ LinesType /\ LinesKept /\ StopMeetsTheSwap /\ SparesCanBeRefilled
    BY DEF Core
<1>2. /\ to_write' = Append(used, cur) /\ used' = <<>> /\ cur' = <<>> /\ next' = next
      /\ new1' = FALSE /\ new2' = (new2 /\ reserved) /\ reserved' = (reserved \/ new2)
    BY DEF Swap
<1>3. FileType' /\ UNCHANGED log
    BY <1>1, SameFile DEF logfile
<1>4. ControlType'
    BY <1>1, <1>2, Zenon DEF ControlType
<1>5. /\ to_write = <<>> /\ next = 1 /\ used \in Bufs /\ cur \in Seq(Nat) /\ to_write \in Bufs
      /\ next \in 1..(Len(to_write) + 1) /\ total \in Nat /\ caught \in Nat
    BY <1>1 DEF StopMeetsTheSwap, LinesType
<1>6. /\ to_write' \in Bufs /\ Len(to_write') = Len(used) + 1 /\ Len(used) \in Nat
      /\ to_write'[Len(used) + 1] = cur /\ \A k \in 1..Len(used) : to_write'[k] = used[k]
    BY <1>2, <1>5 DEF Bufs
<1>7. used' \in Bufs /\ cur' \in Seq(Nat) /\ Len(cur') = 0 /\ Len(used') = 0 /\ DOMAIN used' = {} /\ DOMAIN cur' = {}
    BY <1>2 DEF Bufs
<1>8. LinesType'
  <2>1. next' \in 1..(Len(to_write') + 1)
      BY <1>2, <1>5, <1>6
  <2> QED
      BY <1>1, <1>6, <1>7, <2>1, AsyncLoggingAssumption, SMTT(20) DEF LinesType
<1>9. LinesKept'
  <2> DEFINE m == Len(used) + 1
  <2>1. Layout(Buffered, 0, to_write, next, used, cur)
    <3>1. 0 = Len(to_write) - next + 1
        BY <1>5
    <3> QED
        BY <1>5, <3>1, BuffersAt, Zenon DEF Buffered
  <2>2. Layout(Buffered', m, to_write', next', used', cur')
    <3>1. m = Len(to_write') - next' + 1 /\ next' \in 1..(Len(to_write') + 1)
        BY <1>2, <1>5, <1>6
    <3>2. Buffered' = SubSeq(to_write', next', Len(to_write')) \o used' \o <<cur'>>
        BY DEF Buffered
    <3> QED
        BY <1>6, <1>7, <3>1, <3>2, BuffersAt, ZenonT(30)
  <2>3. /\ Buffered \in Bufs /\ Len(Buffered) = m /\ Buffered[m] = cur
        /\ \A k \in 1..Len(used) : Buffered[k] = used[k]
      BY <2>1 DEF Layout
  <2>4. /\ Buffered' \in Bufs /\ Len(Buffered') = m + 1 /\ Buffered'[m + 1] = <<>>
        /\ \A k \in 1..m : Buffered'[k] = to_write'[k]
      BY <1>2, <1>5, <1>7, <2>2, SMTT(20) DEF Layout
  <2>5. \A k \in 1..m : Buffered'[k] = Buffered[k]
      BY <1>6, <2>3, <2>4, SMTT(20)
  <2>6. m \in Nat /\ log \in Seq(Nat)
      BY <1>1, <1>6 DEF FileType
  <2> HIDE DEF m
  <2>7. Kept(log, Buffered, (1..total) \ dropped)
      BY <1>1, BufferFacts, SMTT(20)
  <2>8. Kept(log, Buffered', (1..total) \ dropped)
      BY <2>3, <2>4, <2>5, <2>6, <2>7, KeptEmpty, SMTT(20)
  <2> QED
      BY <1>3, <2>8, KeptAfter
<1>10. StopMeetsTheSwap'
    BY <1>1, <1>2, <1>5, <1>7, SMTT(20) DEF StopMeetsTheSwap, ToSet
<1>11. SparesCanBeRefilled'
  <2>1. new2 = TRUE /\ (reserved \/ Len(used) > 0)
      BY <1>1, <1>5 DEF SparesCanBeRefilled, Bufs, ControlType
  <2>2. reserved' = TRUE
      BY <1>2, <2>1, Zenon
  <2>3. Missing' <= Len(to_write')
    <3>1. CASE reserved
      <4>1. new1' = FALSE /\ new2' = TRUE
          BY <1>2, <2>1, <3>1, ZenonT(30)
      <4> QED
          BY <1>6, <4>1 DEF Missing
    <3>2. CASE ~reserved
      <4>1. new1' = FALSE /\ new2' = FALSE /\ Len(used) > 0
          BY <1>2, <2>1, <3>2, Zenon
      <4> QED
          BY <1>6, <4>1 DEF Missing
    <3> QED
        BY <3>1, <3>2
  <2> QED
      BY <2>2, <2>3 DEF SparesCanBeRefilled
<1> QED
    BY <1>3, <1>4, <1>8, <1>9, <1>10, <1>11, SMTT(20) DEF Core

\* The backend has the lock: it waits, or exchanges the buffers.
LEMMA LockBuffersKeeps ==
  ASSUME Core, LockBuffers
  PROVE Core'
<1>1. /\ pc = "lock" /\ UNCHANGED <<now, logfile>> /\ UNCHANGED log /\ next' = next
      /\ UNCHANGED <<owner, m_is_running, total, caught, dropped>>
    BY DEF LockBuffers, Backend, logfile
<1>2. CASE pc' = "wait" /\ UNCHANGED <<front, new1, new2, to_write>>
  <2>1. FileType'
      BY <1>1, SameFile DEF Core
  <2> QED
      BY <1>1, <1>2, <2>1, BackendMoves, SMTT(20)
<1>3. CASE pc' = "write" /\ Swap
    BY <1>1, <1>3, SwapKeeps
<1> QED
    BY <1>2, <1>3 DEF LockBuffers

\* The wait is over.
LEMMA WaitReturnsKeeps ==
  ASSUME Core, WaitReturns
  PROVE Core'
<1>1. /\ pc = "wait" /\ pc' = "write" /\ Swap /\ UNCHANGED <<now, logfile>> /\ next' = next
      /\ UNCHANGED <<owner, m_is_running, total, caught, dropped>>
    BY DEF WaitReturns, Backend
<1> QED
    BY <1>1, SwapKeeps

\* The backend gives up the buffers behind the first two.
LEMMA DropBuffersKeeps ==
  ASSUME Core, DropBuffers
  PROVE Core'
<1>1. FileType /\ ControlType /\ LinesType /\ LinesKept /\ StopMeetsTheSwap /\ SparesCanBeRefilled
    BY DEF Core
<1> DEFINE d == Len(to_write) - 2
           G == UNION {ToSet(to_write[i]) : i \in 3..Len(to_write)}
<1>2. /\ pc = "write" /\ next = 1 /\ Len(to_write) > 2 /\ append(<<0>>, <<0>>)
      /\ dropped' = dropped \cup G /\ to_write' = SubSeq(to_write, 1, 2)
      /\ UNCHANGED <<now, owner, m_is_running, total, caught, front, pc, new1, new2, next>>
      /\ UNCHANGED <<cur, used, reserved>>
    BY DEF DropBuffers, Backend, kKeep, front
<1>3. FileType' /\ log' = log \o <<0>>
  <2>1. <<0>> \in Seq(Nat)
      OBVIOUS
  <2> QED
      BY <1>1, <1>2, <2>1, AppendFile, ZenonT(30)
<1>4. ControlType'
    BY <1>1, <1>2, Zenon DEF ControlType
<1>5. /\ to_write \in Bufs /\ Len(to_write) \in Nat /\ used \in Bufs /\ cur \in Seq(Nat)
      /\ next \in 1..(Len(to_write) + 1) /\ total \in Nat
    BY <1>1 DEF LinesType, Bufs
<1>6. /\ to_write' \in Bufs /\ Len(to_write') = 2 /\ \A k \in 1..2 : to_write'[k] = to_write[k]
    BY <1>2, <1>5 DEF Bufs
<1>7. Layout(Buffered, Len(to_write), to_write, next, used, cur)
  <2>1. Len(to_write) = Len(to_write) - next + 1
      BY <1>2, <1>5
  <2> QED
      BY <1>5, <2>1, BuffersAt, Zenon DEF Buffered
<1>8. Layout(Buffered', 2, to_write', next, used, cur)
  <2>1. 2 = Len(to_write') - next + 1 /\ next \in 1..(Len(to_write') + 1)
      BY <1>2, <1>6
  <2>2. Buffered' = SubSeq(to_write', next, Len(to_write')) \o used \o <<cur>>
      BY <1>2 DEF Buffered
  <2> QED
      BY <1>5, <1>6, <2>1, <2>2, BuffersAt, ZenonT(30)
<1> DEFINE m == Len(to_write) + Len(used) + 1
<1>9. /\ Buffered \in Bufs /\ Len(used) \in Nat /\ Len(Buffered) = m
      /\ \A k \in 1..Len(to_write) : Buffered[k] = to_write[k]
      /\ \A k \in 1..Len(used) : Buffered[Len(to_write) + k] = used[k]
      /\ Buffered[m] = cur
    BY <1>2, <1>5, <1>7, SMTT(30) DEF Layout
<1>10. /\ Buffered' \in Bufs /\ Len(Buffered') = 2 + Len(used) + 1
       /\ \A k \in 1..2 : Buffered'[k] = to_write'[k]
       /\ \A k \in 1..Len(used) : Buffered'[2 + k] = used[k]
       /\ Buffered'[2 + Len(used) + 1] = cur
    BY <1>2, <1>8 DEF Layout
<1>11. d \in Nat /\ m \in Nat /\ 2 + d <= m /\ m - d = 2 + Len(used) + 1 /\ 2 + d = Len(to_write)
    BY <1>2, <1>5, <1>9, SMTT(30)
<1>12. ASSUME NEW k \in 1..(m - d) PROVE Buffered'[k] = IF k <= 2 THEN Buffered[k] ELSE Buffered[k + d]
  <2>1. CASE k <= 2
    <3>1. k \in 1..2 /\ k \in 1..Len(to_write)
        BY <1>2, <1>5, <1>11, <2>1, SMTT(20)
    <3> QED
        BY <1>6, <1>9, <1>10, <2>1, <3>1, SMTT(20)
  <2>2. CASE k = 2 + Len(used) + 1
      BY <1>2, <1>5, <1>9, <1>10, <2>2, SMTT(30)
  <2>3. CASE k > 2 /\ k # 2 + Len(used) + 1
    <3>1. k - 2 \in 1..Len(used) /\ 2 + (k - 2) = k /\ Len(to_write) + (k - 2) = k + d
        BY <1>9, <1>11, <2>3
    <3> QED
        BY <1>9, <1>10, <2>3, <3>1, SMTT(20)
  <2> QED
      BY <1>11, <2>1, <2>2, <2>3, SMTT(20)
<1>13. \A x : x \in G <=> \E k \in (2 + 1)..(2 + d) : x \in ToSet(Buffered[k])
  <2>1. (2 + 1)..(2 + d) = 3..Len(to_write)
      BY <1>11
  <2>2. \A k \in 3..Len(to_write) : Buffered[k] = to_write[k]
      BY <1>5, <1>9
  <2> QED
      BY <2>1, <2>2
<1>14. LinesKept'
  <2>1. /\ Kept(log, Buffered, (1..total) \ dropped)
        /\ \A k \in DOMAIN Buffered : \A i \in DOMAIN Buffered[k] : Buffered[k][i] \in Nat \ {0}
      BY <1>1, BufferFacts
  <2>2. log \in Seq(Nat) /\ log' \in Seq(Nat)
      BY <1>1, <1>3 DEF FileType
  <2> HIDE DEF d, G, m
  <2>3. Kept(log', Buffered', ((1..total) \ dropped) \ G)
    <3>1. /\ Buffered \in Bufs /\ Len(Buffered) = m /\ Buffered' \in Bufs /\ Len(Buffered') = m - d
          /\ 2 \in Nat /\ d \in Nat /\ m \in Nat /\ 2 + d <= m
        BY <1>9, <1>10, <1>11
    <3> QED
        BY <1>3, <1>12, <1>13, <2>1, <2>2, <3>1, KeptCut, ZenonT(30)
  <2>4. (1..total') \ dropped' = ((1..total) \ dropped) \ G
      BY <1>2
  <2>5. Kept(log', Buffered', (1..total') \ dropped')
      BY <2>3, <2>4, ZenonT(30)
  <2> QED
      BY <2>5, KeptAfter
<1>15. LinesType'
  <2>1. G \subseteq 1..total
    <3>1. \A k \in DOMAIN Buffered : \A i \in DOMAIN Buffered[k] : Buffered[k][i] \in 1..total
        BY <1>1, BufferFacts, KeptMember, SMTT(20)
    <3>2. \A k \in 3..Len(to_write) : k \in DOMAIN Buffered /\ Buffered[k] = to_write[k]
        BY <1>5, <1>9, SMTT(20) DEF Bufs
    <3>3. \A k \in 3..Len(to_write) : \A i \in DOMAIN to_write[k] : to_write[k][i] \in 1..total
        BY <3>1, <3>2, SMTT(20)
    <3> QED
        BY <3>3 DEF ToSet
  <2>2. next' \in 1..(Len(to_write') + 1)
      BY <1>2, <1>6
  <2> HIDE DEF G
  <2> QED
      BY <1>1, <1>2, <1>6, <2>1, <2>2, SMTT(20) DEF LinesType
<1>16. StopMeetsTheSwap'
    BY <1>1, <1>2, SMTT(20) DEF StopMeetsTheSwap
<1>17. SparesCanBeRefilled'
  <2>1. Missing' <= 2
      BY DEF Missing
  <2>2. reserved' \/ used' # <<>>
      BY <1>1, <1>2 DEF SparesCanBeRefilled
  <2> QED
      BY <1>2, <1>6, <2>1, <2>2 DEF SparesCanBeRefilled
<1> QED
    BY <1>3, <1>4, <1>14, <1>15, <1>16, <1>17, SMTT(20) DEF Core

\* The two ways a buffer is written: all of it, or nothing.
LEMMA WrittenPart ==
  ASSUME NEW b \in Seq(Nat)
  PROVE  /\ SubSeq(b, 1, Len(b)) = b /\ ToSet(SubSeq(b, Len(b) + 1, Len(b))) = {}
         /\ SubSeq(b, 1, 0) = <<>> /\ SubSeq(b, 0 + 1, Len(b)) = b
<1>1. SubSeq(b, 1, Len(b)) = b /\ SubSeq(b, 1, 0) = <<>> /\ 0 + 1 = 1
    OBVIOUS
<1>2. SubSeq(b, Len(b) + 1, Len(b)) = <<>>
    OBVIOUS
<1> QED
    BY <1>1, <1>2 DEF ToSet

\* The backend writes its next buffer.
LEMMA WriteBufferKeeps ==
  ASSUME Core, WriteBuffer
  PROVE Core'
<1>1. FileType /\ ControlType /\ LinesType /\ LinesKept /\ StopMeetsTheSwap /\ SparesCanBeRefilled
    BY DEF Core
<1> DEFINE b == to_write[next]
<1>2. /\ pc = "write" /\ next <= Len(to_write) /\ next' = next + 1
      /\ UNCHANGED <<now, owner, m_is_running, total, caught, front, pc, new1, new2, to_write>>
      /\ UNCHANGED <<cur, used, reserved>>
    BY DEF WriteBuffer, Backend, front
<1>3. /\ to_write \in Bufs /\ Len(to_write) \in Nat /\ used \in Bufs /\ cur \in Seq(Nat)
      /\ next \in 1..(Len(to_write) + 1) /\ total \in Nat /\ next' \in 1..(Len(to_write) + 1)
    BY <1>1, <1>2 DEF LinesType, Bufs
<1>4. b \in Seq(Nat)
    BY <1>2, <1>3 DEF Bufs
<1> HIDE DEF b
<1> DEFINE h == Len(to_write) - next + 1
           m == h + Len(used) + 1
<1>5. Layout(Buffered, h, to_write, next, used, cur)
    BY <1>3, BuffersAt, Zenon DEF Buffered
<1>6. Layout(Buffered', h - 1, to_write, next', used, cur)
  <2>1. h - 1 = Len(to_write) - next' + 1
      BY <1>2, <1>3
  <2>2. Buffered' = SubSeq(to_write, next', Len(to_write)) \o used \o <<cur>>
      BY <1>2 DEF Buffered
  <2> QED
      BY <1>3, <2>1, <2>2, BuffersAt, ZenonT(30)
<1>7. /\ Buffered \in Bufs /\ h \in Nat \ {0} /\ Len(used) \in Nat /\ Len(Buffered) = m /\ m \in Nat \ {0}
      /\ \A k \in 1..h : Buffered[k] = to_write[next + k - 1]
      /\ \A k \in 1..Len(used) : Buffered[h + k] = used[k]
      /\ Buffered[h + Len(used) + 1] = cur
    BY <1>2, <1>3, <1>5, SMTT(30) DEF Layout
<1>8. /\ Buffered' \in Bufs /\ Len(Buffered') = m - 1
      /\ \A k \in 1..(h - 1) : Buffered'[k] = to_write[next' + k - 1]
      /\ \A k \in 1..Len(used) : Buffered'[(h - 1) + k] = used[k]
      /\ Buffered'[(h - 1) + Len(used) + 1] = cur
    BY <1>3, <1>6, <1>7 DEF Layout
<1> HIDE DEF h
<1>9. Buffered[1] = b
    BY <1>3, <1>7 DEF b
<1>10. ASSUME NEW k \in 1..(m - 1) PROVE Buffered'[k] = Buffered[k + 1]
  <2>1. CASE k <= h - 1
      BY <1>2, <1>3, <1>7, <1>8, <2>1, SMTT(20)
  <2>2. CASE k = m - 1
      BY <1>7, <1>8, <2>2, SMTT(30)
  <2>3. CASE k > h - 1 /\ k # m - 1
    <3>1. k - (h - 1) \in 1..Len(used) /\ (h - 1) + (k - (h - 1)) = k /\ h + (k - (h - 1)) = k + 1
        BY <1>7, <2>3
    <3> QED
        BY <1>7, <1>8, <3>1, ZenonT(30)
  <2>4. k \in Int /\ h \in Int /\ m \in Int
      BY <1>7
  <2>5. k <= h - 1 \/ k > h - 1
      BY <2>4
  <2> QED
      BY <2>1, <2>2, <2>3, <2>5, SMTT(20)
<1> HIDE DEF m
<1>11. /\ Kept(log, Buffered, (1..total) \ dropped)
       /\ \A k \in DOMAIN Buffered : \A i \in DOMAIN Buffered[k] : Buffered[k][i] \in Nat \ {0}
    BY <1>1, BufferFacts
<1>12. log \in Seq(Nat) /\ now' = now /\ dropped \subseteq 1..total
    BY <1>1, <1>2 DEF FileType, LinesType
<1>13. FileType' /\ LinesKept' /\ dropped' \subseteq 1..total
  <2>1. PICK n \in {0, Len(b)} : /\ append(b, SubSeq(b, 1, n))
                                 /\ dropped' = dropped \cup ToSet(SubSeq(b, n + 1, Len(b)))
      BY DEF WriteBuffer, b
  <2>2. CASE n = Len(b)
    <3>1. append(b, b) /\ dropped' = dropped
        BY <1>4, <2>1, <2>2, WrittenPart, ZenonT(30)
    <3>2. FileType' /\ log' = log \o b
        BY <1>1, <1>4, <1>12, <3>1, AppendFile, SMTT(20)
    <3>3. Kept(log \o b, Buffered', (1..total) \ dropped)
        BY <1>7, <1>8, <1>9, <1>10, <1>11, <1>12, KeptWrite, ZenonT(30)
    <3>4. Kept(log', Buffered', (1..total') \ dropped')
        BY <1>2, <3>1, <3>2, <3>3, SMTT(20)
    <3> QED
        BY <1>12, <3>1, <3>2, <3>4, KeptAfter, SMTT(20)
  <2>3. CASE n = 0
    <3>1. append(b, <<>>) /\ dropped' = dropped \cup ToSet(b)
        BY <1>4, <2>1, <2>3, WrittenPart, Zenon
    <3>2. FileType' /\ log' = log \o <<>>
      <4>1. <<>> \in Seq(Nat)
          OBVIOUS
      <4> QED
          BY <1>1, <1>4, <1>12, <3>1, <4>1, AppendFile, ZenonT(30)
    <3>3. log' = log
        BY <1>12, <3>2, SMTT(30)
    <3>4. Kept(log, Buffered', ((1..total) \ dropped) \ ToSet(b))
      <4>1. \A x : x \in ToSet(b) <=> \E k \in (0 + 1)..(0 + 1) : x \in ToSet(Buffered[k])
          BY <1>9
      <4>2. 0 + 1 <= m /\ Len(Buffered') = m - 1
          BY <1>7, <1>8
      <4>3. \A k \in 1..(m - 1) : Buffered'[k] = IF k <= 0 THEN Buffered[k] ELSE Buffered[k + 1]
          BY <1>10
      <4> QED
          BY <1>7, <1>8, <1>11, <1>12, <4>1, <4>2, <4>3, KeptCut, ZenonT(60)
    <3>5. (1..total') \ dropped' = ((1..total) \ dropped) \ ToSet(b)
        BY <1>2, <3>1
    <3>6. Kept(log', Buffered', (1..total') \ dropped')
        BY <3>3, <3>4, <3>5, ZenonT(30)
    <3>7. ToSet(b) \subseteq 1..total
      <4>1. \A k \in DOMAIN Buffered : \A i \in DOMAIN Buffered[k] : Buffered[k][i] \in 1..total
          BY <1>11, KeptMember
      <4>2. 1 \in DOMAIN Buffered
          BY <1>7 DEF Bufs
      <4> QED
          BY <1>9, <4>1, <4>2, SMTT(30) DEF ToSet
    <3> QED
        BY <1>12, <3>1, <3>2, <3>6, <3>7, KeptAfter, ZenonT(30)
  <2> QED
      BY <2>2, <2>3
<1>14. ControlType'
    BY <1>1, <1>2, ZenonT(30) DEF ControlType
<1>15. LinesType'
    BY <1>1, <1>2, <1>3, <1>13, SMTT(20) DEF LinesType
<1>16. StopMeetsTheSwap'
    BY <1>1, <1>2 DEF StopMeetsTheSwap
<1>17. SparesCanBeRefilled'
  <2>1. Missing' = Missing /\ reserved' = reserved /\ used' = used
      BY <1>2 DEF Missing
  <2> QED
      BY <1>1, <1>2, <2>1 DEF SparesCanBeRefilled
<1> QED
    BY <1>13, <1>14, <1>15, <1>16, <1>17, SMTT(20) DEF Core

\* The backend has written all of its buffers and takes two of them back.
LEMMA RefillKeeps ==
  ASSUME Core, Refill
  PROVE Core'
<1>1. FileType /\ ControlType /\ LinesType /\ LinesKept /\ StopMeetsTheSwap /\ SparesCanBeRefilled
    BY DEF Core
<1>2. /\ pc = "write" /\ pc' = "test" /\ next > Len(to_write) /\ to_write' = <<>> /\ next' = 1 /\ flush
      /\ new1' = TRUE /\ new2' = TRUE
      /\ UNCHANGED <<now, owner, m_is_running, total, caught, dropped, cur, used, reserved>>
    BY DEF Refill, Backend, front
<1>3. FileType' /\ log' = log
    BY <1>1, <1>2, FlushKeeps
<1>4. ControlType'
    BY <1>1, <1>2, ZenonT(30) DEF ControlType
<1>5. LinesType'
    BY <1>1, <1>2 DEF LinesType, Bufs
<1>6. LinesKept'
  <2>1. to_write \in Seq(Seq(Nat)) /\ next \in Nat
      BY <1>1 DEF LinesType, Bufs
  <2>2. SubSeq(to_write, next, Len(to_write)) = <<>> /\ SubSeq(to_write', next', Len(to_write')) = <<>>
      BY <1>2, <2>1
  <2>3. Buffered' = Buffered
      BY <1>2, <2>2 DEF Buffered
  <2> QED
      BY <1>1, <1>2, <1>3, <2>3 DEF LinesKept
<1>7. StopMeetsTheSwap'
    BY <1>1, <1>2 DEF StopMeetsTheSwap
<1>8. SparesCanBeRefilled'
  <2>1. reserved' \/ used' # <<>>
      BY <1>1, <1>2 DEF SparesCanBeRefilled
  <2> QED
      BY <1>2, <2>1 DEF SparesCanBeRefilled
<1> QED
    BY <1>3, <1>4, <1>5, <1>6, <1>7, <1>8, SMTT(20) DEF Core

\* A thread appends a line.
LEMMA LogKeeps ==
  ASSUME Core, Log
  PROVE Core'
<1>1. FileType /\ ControlType /\ LinesType /\ LinesKept /\ StopMeetsTheSwap /\ SparesCanBeRefilled
    BY DEF Core
<1>2. /\ total' = total + 1 /\ append_line
      /\ UNCHANGED <<now, logfile>> /\ UNCHANGED log
      /\ UNCHANGED <<owner, m_is_running, pc, new1, new2, to_write, next, dropped, caught>>
    BY DEF Log, back, logfile
<1>3. FileType'
    BY <1>1, <1>2, SameFile, SMTT(20)
<1>4. /\ total \in Nat /\ dropped \subseteq 1..total /\ cur \in Seq(Nat) /\ Len(cur) \in Nat /\ Len(cur) < BufferSize
      /\ used \in Bufs /\ to_write \in Bufs /\ next \in 1..(Len(to_write) + 1) /\ caught \in Nat /\ caught <= total
      /\ BufferSize \in Nat /\ BufferSize > 1 /\ log \in Seq(Nat)
    BY <1>1, AsyncLoggingAssumption DEF LinesType, FileType, StopMeetsTheSwap
<1> DEFINE h == Len(to_write) - next + 1
           m == h + Len(used) + 1
           L == (1..total) \ dropped
<1>5. Layout(Buffered, h, to_write, next, used, cur)
    BY <1>4, BuffersAt, ZenonT(30) DEF Buffered
<1>6. /\ Buffered \in Bufs /\ h \in Nat /\ Len(used) \in Nat /\ Len(Buffered) = m /\ m \in Nat \ {0}
      /\ \A k \in 1..h : Buffered[k] = to_write[next + k - 1]
      /\ \A k \in 1..Len(used) : Buffered[h + k] = used[k]
      /\ Buffered[m] = cur
    BY <1>5 DEF Layout
<1>7. Kept(log, Buffered, L) /\ L \in SUBSET (1..total) /\ (1..total') \ dropped' = L \cup {total + 1}
  <2>1. (1..total') \ dropped' = L \cup {total + 1}
      BY <1>2, <1>4
  <2> QED
      BY <1>1, <2>1, BufferFacts
<1> HIDE DEF h, L
<1>8. CASE avail(cur) > 1
  <2>1. cur' = Append(cur, total + 1) /\ UNCHANGED <<used, reserved>>
      BY <1>2, <1>8 DEF append_line
  <2>2. cur' \in Seq(Nat) /\ Len(cur') < BufferSize /\ ToSet(cur') = ToSet(cur) \cup {total + 1}
    <3>1. cur' \in Seq(Nat) /\ Len(cur') = Len(cur) + 1
        BY <1>4, <2>1
    <3>2. ToSet(cur') = ToSet(cur) \cup {total + 1}
      <4>1. \A i \in DOMAIN cur : cur[i] \in 1..total
          BY LinesPositive, Zenon
      <4>2. ToSet(Append(cur, total + 1)) = ToSet(cur) \cup {total + 1}
          BY <1>4, <4>1, NewLine, ZenonT(30)
      <4> QED
          BY <2>1, <4>2
    <3> QED
        BY <1>4, <1>8, <3>1, <3>2 DEF avail
  <2>3. LinesType'
      BY <1>1, <1>2, <1>4, <2>1, <2>2, SMTT(20) DEF LinesType
  <2>4. Layout(Buffered', h, to_write, next, used, cur')
    <3>1. Buffered' = SubSeq(to_write, next, Len(to_write)) \o used \o <<cur'>>
        BY <1>2, <2>1 DEF Buffered
    <3> QED
        BY <1>4, <2>2, <3>1, BuffersAt, ZenonT(30) DEF h
  <2>5. /\ Buffered' \in Bufs /\ Len(Buffered') = m /\ Buffered'[m] = cur'
        /\ \A k \in 1..h : Buffered'[k] = to_write[next + k - 1]
        /\ \A k \in 1..Len(used) : Buffered'[h + k] = used[k]
      BY <2>4 DEF Layout
  <2>6. ASSUME NEW k \in 1..m, k # m PROVE Buffered'[k] = Buffered[k]
    <3>1. CASE k <= h
        BY <1>6, <2>5, <3>1, SMTT(30)
    <3>2. CASE k > h
      <4>1. k - h \in 1..Len(used) /\ h + (k - h) = k
          BY <1>6, <2>6, <3>2
      <4> QED
          BY <1>6, <2>5, <4>1, ZenonT(30)
    <3> QED
        BY <1>6, <3>1, <3>2, SMTT(30)
  <2> HIDE DEF m
  <2>7. Kept(log, Buffered', L \cup {total + 1})
    <3>1. Buffered'[m] = Append(Buffered[m], total + 1)
        BY <1>6, <2>1, <2>5, SMTT(20)
    <3> QED
        BY <1>4, <1>6, <1>7, <2>5, <2>6, <3>1, KeptAppend, ZenonT(30)
  <2>8. LinesKept'
    <3>1. Kept(log', Buffered', (1..total') \ dropped')
        BY <1>2, <1>7, <2>7, ZenonT(30)
    <3> QED
        BY <3>1, KeptAfter
  <2>9. ControlType'
      BY <1>1, <1>2, <2>1, ZenonT(30) DEF ControlType
  <2>10. StopMeetsTheSwap'
      BY <1>1, <1>2, <1>4, <2>1, <2>2, SMTT(20) DEF StopMeetsTheSwap
  <2>11. SparesCanBeRefilled'
      BY <1>1, <1>2, <2>1, SMTT(20) DEF SparesCanBeRefilled, Missing
  <2> QED
      BY <1>3, <2>3, <2>8, <2>9, <2>10, <2>11, SMTT(20) DEF Core
<1>9. CASE ~(avail(cur) > 1)
  <2>1. used' = Append(used, cur) /\ cur' = <<total + 1>> /\ reserved' = FALSE
      BY <1>2, <1>9 DEF append_line
  <2>2. cur' \in Seq(Nat) /\ Len(cur') = 1 /\ ToSet(cur') = {total + 1}
      BY <1>4, <2>1 DEF ToSet
  <2>3. /\ used' \in Bufs /\ Len(used') = Len(used) + 1 /\ used'[Len(used) + 1] = cur
        /\ \A k \in 1..Len(used) : used'[k] = used[k]
        /\ DOMAIN used' = 1..(Len(used) + 1) /\ DOMAIN used = 1..Len(used)
      BY <1>4, <2>1 DEF Bufs
  <2>4. LinesType'
    <3>1. \A k \in DOMAIN used : Len(used[k]) < BufferSize
        BY <1>1 DEF LinesType
    <3>2. ASSUME NEW k \in DOMAIN used' PROVE Len(used'[k]) < BufferSize
      <4>1. k = Len(used) + 1 \/ (k \in 1..Len(used) /\ k \in DOMAIN used)
          BY <1>6, <2>3
      <4> QED
          BY <1>4, <2>3, <3>1, <4>1, SMTT(20)
    <3>3. total' \in Nat /\ dropped' \subseteq 1..total'
        BY <1>2, <1>4
    <3> QED
        BY <1>2, <1>4, <2>2, <2>3, <3>2, <3>3, SMTT(20) DEF LinesType
  <2>5. Layout(Buffered', h, to_write, next, used', cur')
    <3>1. Buffered' = SubSeq(to_write, next, Len(to_write)) \o used' \o <<cur'>>
        BY <1>2 DEF Buffered
    <3> QED
        BY <1>4, <2>2, <2>3, <3>1, BuffersAt, ZenonT(30) DEF h
  <2>6. /\ Buffered' \in Bufs /\ Len(Buffered') = m + 1 /\ Buffered'[m + 1] = cur'
        /\ \A k \in 1..h : Buffered'[k] = to_write[next + k - 1]
        /\ \A k \in 1..(Len(used) + 1) : Buffered'[h + k] = used'[k]
      BY <1>6, <2>3, <2>5 DEF Layout
  <2>7. ASSUME NEW k \in 1..m PROVE Buffered'[k] = Buffered[k]
    <3>1. CASE k <= h
        BY <1>6, <2>6, <3>1, SMTT(20)
    <3>2. CASE k = m
      <4>1. Len(used) + 1 \in 1..(Len(used) + 1) /\ h + (Len(used) + 1) = m
          BY <1>6
      <4> QED
          BY <1>6, <2>3, <2>6, <3>2, <4>1, SMTT(20)
    <3>3. CASE k > h /\ k # m
      <4>1. k - h \in 1..Len(used) /\ k - h \in 1..(Len(used) + 1) /\ h + (k - h) = k
          BY <1>6, <3>3
      <4> QED
          BY <1>6, <2>3, <2>6, <4>1, ZenonT(30)
    <3>4. k <= h \/ k > h
        BY <1>6
    <3> QED
        BY <3>1, <3>2, <3>3, <3>4, SMTT(20)
  <2> HIDE DEF m
  <2>8. Kept(log, Buffered', L \cup {total + 1})
    <3>1. m \in Nat /\ Buffered'[m + 1] = <<total + 1>>
        BY <1>6, <2>1, <2>6
    <3> QED
        BY <1>4, <1>6, <1>7, <2>6, <2>7, <3>1, KeptNewBuffer, ZenonT(60)
  <2>9. LinesKept'
    <3>1. Kept(log', Buffered', (1..total') \ dropped')
        BY <1>2, <1>7, <2>8, Zenon
    <3> QED
        BY <3>1, KeptAfter
  <2>10. ControlType'
      BY <1>1, <1>2, <2>1, ZenonT(30) DEF ControlType
  <2>11. StopMeetsTheSwap'
    <3>1. SUFFICES ASSUME pc' \notin {"lock", "wait"}, NEW k \in DOMAIN used', NEW line \in ToSet(used'[k])
                   PROVE  line > caught
        BY <1>1, <1>2, <1>4, <2>2, SMTT(20) DEF StopMeetsTheSwap
    <3>2. k = Len(used) + 1 \/ (k \in 1..Len(used) /\ k \in DOMAIN used)
        BY <1>6, <2>3
    <3> QED
        BY <1>1, <1>2, <2>3, <3>1, <3>2, SMTT(20) DEF StopMeetsTheSwap
  <2>12. SparesCanBeRefilled'
    <3>1. used' # <<>>
        BY <1>6, <2>3
    <3> QED
        BY <1>1, <1>2, <3>1 DEF SparesCanBeRefilled, Missing
  <2> QED
      BY <1>3, <2>4, <2>9, <2>10, <2>11, <2>12 DEF Core
<1> QED
    BY <1>8, <1>9

(***************************************************************************)
(* The theorems.                                                           *)
(***************************************************************************)

\* LoggingInv is inductive.
LEMMA NextCore == Core /\ [Next]_vars => Core'
<1> SUFFICES ASSUME Core, [Next]_vars PROVE Core'
    OBVIOUS
<1>1. CASE Log \/ Start \/ Started \/ Stop \/ Joined \/ TimePasses
    BY <1>1, LogKeeps, StartKeeps, StartedKeeps, StopKeeps, JoinedKeeps, TimePassesKeeps, SMTT(20)
<1>2. CASE BackendStep
    BY <1>2, BeginKeeps, TestRunningKeeps, LockBuffersKeeps, WaitReturnsKeeps, DropBuffersKeeps, WriteBufferKeeps,
       RefillKeeps DEF BackendStep
<1>3. CASE UNCHANGED vars
  <2>1. /\ UNCHANGED <<now, logfile>> /\ UNCHANGED <<front, to_write, next, total, dropped, log>>
        /\ UNCHANGED <<owner, m_is_running, pc, cur, used, reserved, new1, new2, to_write, next, total, caught>>
      BY <1>3 DEF vars, front, back, logfile
  <2>2. FileType /\ ControlType /\ LinesType /\ StopMeetsTheSwap /\ SparesCanBeRefilled
      BY DEF Core
  <2>3. FileType'
      BY <2>1, <2>2, SameFile
  <2>4. ControlType'
      BY <2>1, <2>2, Zenon DEF ControlType
  <2>5. LinesKept' /\ LinesType'
      BY <2>1, <2>2, SameLines DEF LinesType
  <2>6. StopMeetsTheSwap'
      BY <2>1, <2>2 DEF StopMeetsTheSwap
  <2>7. SparesCanBeRefilled'
      BY <2>1, <2>2 DEF SparesCanBeRefilled, Missing
  <2> QED
      BY <2>3, <2>4, <2>5, <2>6, <2>7, SMTT(20) DEF Core
<1> QED
    BY <1>1, <1>2, <1>3 DEF Next

\* A file that is over its size after a step was so before, or was just appended to.
LEMMA NextOversize == Core /\ OversizeHasAReason /\ [Next]_vars => OversizeHasAReason'
<1> SUFFICES ASSUME Core, OversizeHasAReason, [Next]_vars PROVE OversizeHasAReason'
    OBVIOUS
<1>1. FileType /\ LinesType
    BY DEF Core
<1>2. CASE DropBuffers
  <2>1. append(<<0>>, <<0>>) /\ now' = now /\ <<0>> \in Seq(Nat)
      BY <1>2 DEF DropBuffers, Backend
  <2> QED
      BY <1>1, <2>1, AppendFile, ZenonT(30)
<1>3. CASE WriteBuffer
  <2>1. PICK n \in {0, Len(to_write[next])} : append(to_write[next], SubSeq(to_write[next], 1, n))
      BY <1>3 DEF WriteBuffer
  <2>2. to_write[next] \in Seq(Nat) /\ now' = now
      BY <1>1, <1>3 DEF WriteBuffer, Backend, LinesType, Bufs
  <2>3. SubSeq(to_write[next], 1, n) \in Seq(Nat)
      BY <2>1, <2>2
  <2> QED
      BY <1>1, <2>1, <2>2, <2>3, AppendFile, ZenonT(30)
<1>4. CASE UNCHANGED <<written, m_last_roll, last_append>>
    BY <1>4, SMTT(20) DEF OversizeHasAReason
<1>5. CASE Log \/ Start \/ Started \/ Stop \/ Joined \/ TimePasses \/ UNCHANGED vars
    BY <1>4, <1>5 DEF Log, Start, Started, Stop, Joined, TimePasses, vars, logfile
<1>6. CASE Begin \/ TestRunning \/ LockBuffers \/ WaitReturns \/ Refill
    BY <1>4, <1>6 DEF Begin, TestRunning, LockBuffers, WaitReturns, Refill, flush, logfile
<1> QED
    BY <1>2, <1>3, <1>5, <1>6 DEF Next, BackendStep

\* No line is lost, repeated or reordered between append() and the file but
\* those the backend gives up, stop() that meets a backend about to swap leaves
\* behind newer lines only, and the backend has a buffer for each spare one it
\* replaces: for any size of a buffer and any interleaving of appending
\* threads, the backend and stop().
THEOREM LinesSafety == Spec => []LoggingInv
<1>1. Init => Core
    BY InitCore
<1> QED
    BY <1>1, NextCore, CoreIsInv, PTL DEF Spec

\* A log file is longer than m_rollsize only if its last append came in the
\* second of the last roll or on a clock set back (append_unlocked, roll_file).
THEOREM FileSizeSafety == Spec => []OversizeHasAReason
<1>1. Init => Core /\ OversizeHasAReason
    BY InitCore
<1> QED
    BY <1>1, NextCore, NextOversize, PTL DEF Spec
=============================================================================
