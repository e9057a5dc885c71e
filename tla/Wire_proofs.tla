----------------------------- MODULE Wire_proofs -----------------------------
(***************************************************************************)
(* Proofs about Wire, for any threads, any messages and any places at      *)
(* which send stops: nobody sends on a closed socket, and the receive      *)
(* thread gets the messages that were sent, whole and in order.  That      *)
(* unpacking a packed message gives it back is proved first, by induction  *)
(* over its components.                                                    *)
(***************************************************************************)
EXTENDS Wire, Integers, SequenceTheorems, WellFoundedInduction, TLAPS

-----------------------------------------------------------------------------
(* Induction over numbers. *)

(* The order of the numbers. *)
Below == {ss \in Nat \X Nat : ss[1] < ss[2]}

(* It is well-founded. *)
LEMMA BelowWF == IsWellFoundedOn(Below, Nat)
  BY NatLessThanWellFounded DEF OpToRel, Below

(* Every set of numbers has a least. *)
LEMMA Least ==
  ASSUME NEW T, T \subseteq Nat, T # {}
  PROVE  \E x \in T : \A y \in T : x <= y
  <1>1. PICK x \in T : \A y \in T : ~(<<y, x>> \in Below)
    BY BelowWF, WFMin
  <1>2. \A y \in T : x <= y
    <2> SUFFICES ASSUME NEW y \in T PROVE x <= y
      OBVIOUS
    <2>1. x \in Nat /\ y \in Nat
      OBVIOUS
    <2>2. ~(y < x)
      BY <1>1, <2>1 DEF Below
    <2> QED
      BY <2>1, <2>2
  <1> QED
    BY <1>2

(* What holds of 0, and of n + 1 if of n, holds of every number. *)
LEMMA Induct ==
  ASSUME NEW T, 0 \in T, \A n \in Nat : n \in T => n + 1 \in T
  PROVE  Nat \subseteq T
  <1> SUFFICES ASSUME ~(Nat \subseteq T) PROVE FALSE
    OBVIOUS
  <1>1. PICK U : U = {n \in Nat : n \notin T}
    OBVIOUS
  <1>2. U \subseteq Nat /\ U # {}
    BY <1>1
  <1>3. PICK x \in U : \A y \in U : x <= y
    BY <1>2, Least
  <1>4. x \in Nat /\ x # 0 /\ x \notin T
    BY <1>1
  <1>5. x - 1 \in Nat /\ ~(x <= x - 1) /\ (x - 1) + 1 = x
    BY <1>4
  <1>6. x - 1 \in T
    BY <1>1, <1>3, <1>5
  <1> QED
    BY <1>4, <1>5, <1>6

(* A recursive function over 0 .. n that begins with x and whose next value in S is that of g. *)
Steps(n, S)     == [(1 .. n) \X S -> S]
Recurs(f, g, x, n) == f[0] = x /\ \A i \in 1 .. n : f[i] = g[<<i, f[i - 1]>>]

(* There is one. *)
LEMMA Recursion ==
  ASSUME NEW S, NEW x \in S, NEW n \in Nat, NEW g \in Steps(n, S)
  PROVE  \E f \in [0 .. n -> S] : Recurs(f, g, x, n)
  <1> USE DEF Recurs, Steps
  <1> DEFINE Solves(f, k) == f[0] = x /\ \A i \in 1 .. k : f[i] = g[<<i, f[i - 1]>>]
             T == {k \in Nat : k <= n => \E f \in [0 .. k -> S] : Solves(f, k)}
  <1>1. 0 \in T
    <2>1. [i \in 0 .. 0 |-> x] \in [0 .. 0 -> S] /\ Solves([i \in 0 .. 0 |-> x], 0)
      OBVIOUS
    <2> QED
      BY <2>1
  <1>2. ASSUME NEW k \in Nat, k \in T
        PROVE  k + 1 \in T
    <2> SUFFICES ASSUME k + 1 <= n PROVE \E f \in [0 .. k + 1 -> S] : Solves(f, k + 1)
      OBVIOUS
    <2>1. PICK f \in [0 .. k -> S] : Solves(f, k)
      BY <1>2
    <2>2. k + 1 \in 1 .. n /\ k \in 0 .. k
      OBVIOUS
    <2>3. PICK y \in S : y = g[<<k + 1, f[k]>>]
      BY <2>2
    <2>4. PICK h : h = [i \in 0 .. k + 1 |-> IF i = k + 1 THEN y ELSE f[i]]
      OBVIOUS
    <2>5. \A i \in 0 .. k + 1 : i = k + 1 \/ i \in 0 .. k
      OBVIOUS
    <2>6. h \in [0 .. k + 1 -> S]
      BY <2>4, <2>5
    <2>7. \A i \in 0 .. k : h[i] = f[i]
      BY <2>4
    <2>8. h[k + 1] = y
      BY <2>4
    <2>9. Solves(h, k + 1)
      <3>1. h[0] = x
        BY <2>1, <2>7
      <3>2. ASSUME NEW i \in 1 .. k PROVE h[i] = g[<<i, h[i - 1]>>]
        <4>1. i \in 0 .. k /\ i - 1 \in 0 .. k
          OBVIOUS
        <4> QED
          BY <2>1, <2>7, <4>1
      <3>3. h[k + 1] = g[<<k + 1, h[(k + 1) - 1]>>]
        <4>1. (k + 1) - 1 = k
          OBVIOUS
        <4> QED
          BY <2>2, <2>3, <2>7, <2>8, <4>1
      <3>4. \A i \in 1 .. k + 1 : i \in 1 .. k \/ i = k + 1
        OBVIOUS
      <3> QED
        BY <3>1, <3>2, <3>3, <3>4
    <2> QED
      BY <2>6, <2>9
  <1>3. Nat \subseteq T
    <2> HIDE DEF T
    <2> QED
      BY <1>1, <1>2, Induct
  <1>4. n \in T
    BY <1>3
  <1> QED
    BY <1>4


(* Two recursive functions with the same equations are the same. *)
StepsAgree(f, g, n) == \A i \in 1 .. n : f[i - 1] = g[i - 1] => f[i] = g[i]

(* Each step does the same, so all of it does. *)
LEMMA SameRecursion ==
  ASSUME NEW n \in Nat, NEW f, NEW g, f[0] = g[0], StepsAgree(f, g, n)
  PROVE  \A i \in 0 .. n : f[i] = g[i]
  <1> USE DEF StepsAgree
  <1>1. PICK T : T = {k \in Nat : k <= n => f[k] = g[k]}
    OBVIOUS
  <1>2. 0 \in T
    BY <1>1
  <1>3. ASSUME NEW k \in Nat, k \in T
        PROVE  k + 1 \in T
    <2> SUFFICES ASSUME k + 1 <= n
                 PROVE  f[k + 1] = g[k + 1]
      BY <1>1
    <2>1. k + 1 \in 1 .. n /\ (k + 1) - 1 = k /\ k <= n
      OBVIOUS
    <2>2. f[k] = g[k]
      BY <1>1, <1>3, <2>1
    <2> QED
      BY <2>1, <2>2
  <1>4. Nat \subseteq T
    BY <1>2, <1>3, Induct
  <1> QED
    BY <1>1, <1>4

-----------------------------------------------------------------------------
(* Packing and unpacking. *)

(* FlattenSeq concatenates one sequence after the other. *)
Concatenates(F, q) == /\ F[0] = << >>
                      /\ \A i \in 1 .. Len(q) : F[i] = F[i - 1] \o q[i]

(* There are the results of the first i, and FlattenSeq is that of all. *)
LEMMA FlattenConcatenates ==
  ASSUME NEW S, NEW q \in Seq(Seq(S))
  PROVE  \E F \in [0 .. Len(q) -> Seq(S)] : Concatenates(F, q) /\ FlattenSeq(q) = F[Len(q)]
  <1>1. PICK n \in Nat : n = Len(q)
    OBVIOUS
  <1>2. PICK Q : Q = Seq(S)
    OBVIOUS
  <1>3. \A i \in 1 .. n : q[i] \in Q
    BY <1>1, <1>2
  <1>4. \A i \in 1 .. n : \A s \in Q : s \o q[i] \in Q
    BY <1>2, <1>3
  <1>5. PICK z \in Q : z = << >>
    BY <1>2, EmptySeq
  <1>6. PICK g \in Steps(n, Q) : g = [y \in (1 .. n) \X Q |-> y[2] \o q[y[1]]]
    <2>1. \A y \in (1 .. n) \X Q : y[2] \o q[y[1]] \in Q
      BY <1>4
    <2> QED
      BY <2>1 DEF Steps
  <1>7. PICK F \in [0 .. n -> Q] : F[0] = z /\ \A i \in 1 .. n : F[i] = g[<<i, F[i - 1]>>]
    <2>1. \E F \in [0 .. n -> Q] : Recurs(F, g, z, n)
      BY Recursion
    <2> QED
      BY <2>1 DEF Recurs
  <1>8. \A i \in 1 .. n : i - 1 \in 0 .. n
    OBVIOUS
  <1>9. \A i \in 1 .. n : F[i] = F[i - 1] \o q[i]
    BY <1>6, <1>7, <1>8
  <1>10. Concatenates(F, q)
    BY <1>1, <1>5, <1>7, <1>9 DEF Concatenates
  <1>11. FlattenSeq(q) = F[n]
    <2>1. CASE n = 0
      <3>1. q = << >>
        BY <1>1, <2>1, EmptySeq
      <3> QED
        BY <1>1, <1>5, <1>7, <2>1, <3>1 DEF FlattenSeq
    <2>2. CASE n # 0
      <3> DEFINE Eq(f) == f = [i \in 1 .. Len(q) |-> IF i = 1 THEN q[i] ELSE f[i - 1] \o q[i]]
      <3>1. PICK h : h = [i \in 1 .. n |-> F[i]]
        OBVIOUS
      <3>2. Eq(h)
        <4>1. F[1] = q[1]
          <5>1. 1 \in 1 .. n /\ 1 - 1 = 0
            BY <2>2
          <5>2. F[1] = z \o q[1]
            BY <1>7, <1>9, <5>1
          <5> QED
            BY <1>2, <1>3, <1>5, <5>1, <5>2
        <4>2. \A i \in 1 .. n : i = 1 \/ i - 1 \in 1 .. n
          OBVIOUS
        <4>3. \A i \in 1 .. n : h[i] = IF i = 1 THEN q[i] ELSE h[i - 1] \o q[i]
          BY <1>9, <3>1, <4>1, <4>2
        <4> QED
          BY <1>1, <3>1, <4>3
      <3>3. FlattenSeq(q) = (CHOOSE f : Eq(f))[n]
        BY <1>1, <2>2 DEF FlattenSeq
      <3>4. Eq(CHOOSE f : Eq(f))
        <4> HIDE DEF Eq
        <4> QED
          BY <3>2, Zenon
      <3>5. PICK f : f = CHOOSE k : Eq(k)
        OBVIOUS
      <3>6. Eq(f)
        <4> HIDE DEF Eq
        <4> QED
          BY <3>4, <3>5, Zenon
      <3>7. \A i \in 1 .. n : f[i] = IF i = 1 THEN q[i] ELSE f[i - 1] \o q[i]
        BY <1>1, <3>6
      <3>8. \A i \in 1 .. n : h[i] = IF i = 1 THEN q[i] ELSE h[i - 1] \o q[i]
        BY <1>1, <3>2
      <3>9. PICK T : T = {k \in Nat : k + 1 <= n => f[k + 1] = h[k + 1]}
        OBVIOUS
      <3>10. 0 \in T
        <4>1. 0 + 1 = 1 /\ 1 \in 1 .. n
          BY <2>2
        <4>2. f[1] = h[1]
          BY <3>7, <3>8, <4>1
        <4> QED
          BY <3>9, <4>1, <4>2
      <3>11. ASSUME NEW k \in Nat, k \in T
             PROVE  k + 1 \in T
        <4> SUFFICES ASSUME k + 1 + 1 <= n
                     PROVE  f[k + 1 + 1] = h[k + 1 + 1]
          BY <3>9
        <4>1. PICK j \in Nat : j = k + 1 + 1
          OBVIOUS
        <4>2. j \in 1 .. n /\ j # 1 /\ j - 1 = k + 1 /\ k + 1 <= n
          BY <4>1
        <4>3. f[j - 1] = h[j - 1]
          BY <3>9, <3>11, <4>2
        <4>4. f[j] = h[j]
          BY <3>7, <3>8, <4>2, <4>3
        <4> QED
          BY <4>1, <4>4
      <3>12. Nat \subseteq T
        BY <3>10, <3>11, Induct
      <3>13. n - 1 \in Nat /\ (n - 1) + 1 = n /\ n \in 1 .. n
        BY <2>2
      <3>14. f[n] = h[n]
        <4>1. PICK k \in Nat : k = n - 1 /\ k + 1 = n /\ k + 1 <= n
          BY <3>13
        <4>2. k \in T
          BY <3>12
        <4> QED
          BY <3>9, <4>1, <4>2
      <3> QED
        BY <3>1, <3>3, <3>5, <3>13, <3>14
    <2> QED
      BY <2>1, <2>2
  <1> QED
    BY <1>1, <1>2, <1>7, <1>10, <1>11

(* Strings c packed one after the other: after i of them, F[i]. *)
PacksTo(F, c) ==
  /\ F \in [0 .. Len(c) -> Seq(Char)] /\ F[0] = << >> /\ PackStrings(c) = F[Len(c)]
  /\ \A i \in 1 .. Len(c) : F[i] = F[i - 1] \o PackString(c[i])

(* There are such cells. *)
LEMMA StringsPacked ==
  ASSUME NEW c \in Seq(Seq(Char))
  PROVE  \E F : PacksTo(F, c)
  <1>1. PICK n \in Nat : n = Len(c)
    OBVIOUS
  <1>2. PICK C : C = Char
    OBVIOUS
  <1>3. c \in Seq(Seq(C)) /\ DOMAIN c = 1 .. n /\ 0 \in C
    BY <1>1, <1>2, WireAssumption DEF Char
  <1>4. \A i \in 1 .. n : PackString(c[i]) \in Seq(C)
    BY <1>1, <1>3 DEF PackString
  <1>5. PICK q : q = [i \in 1 .. n |-> PackString(c[i])]
    OBVIOUS
  <1>6. q \in Seq(Seq(C)) /\ Len(q) = n /\ \A i \in 1 .. n : q[i] = PackString(c[i])
    BY <1>4, <1>5
  <1>7. PICK F \in [0 .. Len(q) -> Seq(C)] : Concatenates(F, q) /\ FlattenSeq(q) = F[Len(q)]
    BY <1>6, FlattenConcatenates
  <1>8. F[0] = << >> /\ \A i \in 1 .. n : F[i] = F[i - 1] \o PackString(c[i])
    BY <1>6, <1>7 DEF Concatenates
  <1>9. PackStrings(c) = F[n]
    BY <1>3, <1>5, <1>6, <1>7 DEF PackStrings
  <1>10. F \in [0 .. n -> Seq(Char)]
    BY <1>2, <1>6, <1>7
  <1> QED
    BY <1>1, <1>8, <1>9, <1>10 DEF PacksTo

(* Where the i-th string is: after the L[i - 1] cells of those before, with its terminator at
   L[i]. *)
Layout(F, c, L) ==
  /\ L \in [0 .. Len(c) -> Nat] /\ L[0] = 0
  /\ \A i \in 0 .. Len(c) : L[i] = Len(F[i])
  /\ \A i \in 1 .. Len(c) : L[i] = L[i - 1] + Len(c[i]) + 1

(* It is so. *)
LEMMA LayoutOfStrings ==
  ASSUME NEW c \in Seq(Seq(Char)), NEW F, PacksTo(F, c)
  PROVE  \E L : Layout(F, c, L)
  <1>1. PICK n \in Nat : n = Len(c)
    OBVIOUS
  <1>2. F \in [0 .. n -> Seq(Char)] /\ F[0] = << >>
        /\ \A i \in 1 .. n : F[i] = F[i - 1] \o PackString(c[i])
    BY <1>1 DEF PacksTo
  <1>3. PICK L : L = [i \in 0 .. n |-> Len(F[i])]
    OBVIOUS
  <1>4. \A i \in 0 .. n : F[i] \in Seq(Char) /\ Len(F[i]) \in Nat
    BY <1>2
  <1>5. L \in [0 .. n -> Nat] /\ L[0] = 0 /\ \A i \in 0 .. n : L[i] = Len(F[i])
    BY <1>2, <1>3, <1>4
  <1>6. ASSUME NEW i \in 1 .. n
        PROVE  L[i] = L[i - 1] + Len(c[i]) + 1
    <2>1. i \in 0 .. n /\ i - 1 \in 0 .. n
      OBVIOUS
    <2>2. PICK s \in Seq(Char) : s = F[i - 1]
      BY <1>4, <2>1
    <2>3. PICK d \in Seq(Char) : d = c[i]
      BY <1>1
    <2>4. 0 \in Char
      BY WireAssumption DEF Char
    <2>5. Append(d, 0) \in Seq(Char) /\ Len(Append(d, 0)) = Len(d) + 1
      BY <2>4
    <2>6. F[i] = s \o Append(d, 0)
      BY <1>2, <2>2, <2>3 DEF PackString
    <2>7. Len(s \o Append(d, 0)) = Len(s) + Len(Append(d, 0))
      BY <2>5
    <2>8. Len(s) \in Nat /\ Len(d) \in Nat
      OBVIOUS
    <2>9. L[i] = Len(s) + (Len(d) + 1) /\ L[i - 1] = Len(s)
      BY <1>5, <2>1, <2>2, <2>5, <2>6, <2>7
    <2> QED
      BY <2>3, <2>8, <2>9
  <1> QED
    BY <1>1, <1>5, <1>6 DEF Layout

(* What is packed stays, and is not as long as all of it. *)
Grown(F, L, i, k) == L[i] + (k - i) <= L[k] /\ \A j \in 1 .. L[i] : F[k][j] = F[i][j]

(* Later strings change nothing. *)
LEMMA PackedStays ==
  ASSUME NEW c \in Seq(Seq(Char)), NEW F, PacksTo(F, c), NEW L, Layout(F, c, L)
  PROVE  \A i, k \in 0 .. Len(c) : i <= k => Grown(F, L, i, k)
  <1>1. PICK n \in Nat : n = Len(c)
    OBVIOUS
  <1>2. SUFFICES ASSUME NEW i \in 0 .. n
                 PROVE  \A k \in 0 .. n : i <= k => Grown(F, L, i, k)
    BY <1>1
  <1>3. PICK T : T = {e \in Nat : i + e <= n => Grown(F, L, i, i + e)}
    OBVIOUS
  <1>4. L \in [0 .. n -> Nat] /\ F \in [0 .. n -> Seq(Char)]
    BY <1>1 DEF Layout, PacksTo
  <1>5. 0 \in T
    <2>1. i + 0 = i /\ L[i] \in Nat /\ L[i] + (i - i) = L[i]
      BY <1>4
    <2>2. Grown(F, L, i, i)
      BY <2>1 DEF Grown
    <2> QED
      BY <1>3, <2>1, <2>2
  <1>6. ASSUME NEW e \in Nat, e \in T
        PROVE  e + 1 \in T
    <2> SUFFICES ASSUME i + (e + 1) <= n
                 PROVE  Grown(F, L, i, i + (e + 1))
      BY <1>3
    <2>1. PICK k \in Nat : k = i + e
      OBVIOUS
    <2>2. PICK l \in Nat : l = i + (e + 1)
      OBVIOUS
    <2>3. k \in 0 .. n /\ l \in 1 .. n /\ l \in 0 .. n /\ l - 1 = k /\ l - i = (k - i) + 1
          /\ k <= n
      BY <2>1, <2>2
    <2>4. Grown(F, L, i, k)
      BY <1>3, <1>6, <2>1, <2>3
    <2>5. PICK s \in Seq(Char) : s = F[k]
      BY <1>4, <2>3
    <2>6. PICK d \in Seq(Char) : d = PackString(c[l])
      <3>1. 0 \in Char
        BY WireAssumption DEF Char
      <3>2. PICK y \in Seq(Char) : y = c[l]
        BY <1>1, <2>3
      <3>3. Append(y, 0) \in Seq(Char)
        BY <3>1
      <3> QED
        BY <3>2, <3>3 DEF PackString
    <2>7. F[l] = s \o d
      <3>1. F[l] = F[l - 1] \o PackString(c[l])
        BY <1>1, <2>3 DEF PacksTo
      <3> QED
        BY <2>3, <2>5, <2>6, <3>1
    <2>8. Len(s) = L[k] /\ L[i] \in Nat /\ L[k] \in Nat /\ L[l] \in Nat
      BY <1>1, <1>4, <2>3, <2>5 DEF Layout
    <2>9. L[i] <= L[k] /\ L[i] + (k - i) <= L[k]
      <3>1. L[i] + (k - i) <= L[k]
        BY <2>4 DEF Grown
      <3>2. PICK a \in Nat : a = L[i]
        BY <2>8
      <3>3. PICK b \in Nat : b = L[k]
        BY <2>8
      <3>4. a + (k - i) <= b /\ k - i = e
        BY <2>1, <3>1, <3>2, <3>3
      <3>5. a <= b
        BY <3>4
      <3> QED
        BY <3>1, <3>2, <3>3, <3>5
    <2>10. \A j \in 1 .. L[i] : j \in 1 .. Len(s)
      BY <2>8, <2>9
    <2>11. \A j \in 1 .. Len(s) : (s \o d)[j] = s[j]
      BY ConcatProperties
    <2>12. \A j \in 1 .. L[i] : F[l][j] = F[i][j]
      BY <2>4, <2>5, <2>7, <2>10, <2>11 DEF Grown
    <2>13. L[k] + 1 <= L[l]
      <3>1. PICK w \in Nat : w = Len(c[l])
        BY <1>1, <2>3
      <3>2. L[l] = L[k] + w + 1
        BY <1>1, <2>3, <3>1 DEF Layout
      <3> QED
        BY <2>8, <3>1, <3>2
    <2>14. L[i] + (l - i) <= L[l]
      <3>1. PICK a \in Nat : a = L[i]
        BY <2>8
      <3>2. PICK b \in Nat : b = L[k]
        BY <2>8
      <3>3. PICK x \in Nat : x = L[l]
        BY <2>8
      <3>4. a + (k - i) <= b /\ b + 1 <= x
        BY <2>9, <2>13, <3>1, <3>2, <3>3
      <3>5. a + (l - i) <= x
        BY <2>3, <3>4
      <3> QED
        BY <3>1, <3>3, <3>5
    <2> QED
      BY <2>2, <2>12, <2>14 DEF Grown
  <1>7. Nat \subseteq T
    BY <1>5, <1>6, Induct
  <1>8. ASSUME NEW k \in 0 .. n, i <= k
        PROVE  Grown(F, L, i, k)
    <2>1. PICK e \in Nat : e = k - i
      BY <1>8
    <2>2. i + e = k /\ i + e <= n
      BY <2>1
    <2>3. e \in T
      BY <1>7
    <2> QED
      BY <1>3, <2>2, <2>3
  <1> QED
    BY <1>8

(* The cells of the i-th string. *)
CellsAt(F, c, L, i) ==
  /\ L[i] <= L[Len(c)]
  /\ \A j \in 1 .. Len(c[i]) : F[Len(c)][L[i - 1] + j] = c[i][j]
  /\ F[Len(c)][L[i]] = 0

(* They are the string's, and its terminator. *)
LEMMA StringCells ==
  ASSUME NEW c \in Seq(Seq(Char)), NEW F, PacksTo(F, c), NEW L, Layout(F, c, L),
         NEW i \in 1 .. Len(c)
  PROVE  CellsAt(F, c, L, i)
  <1>1. PICK n \in Nat : n = Len(c)
    OBVIOUS
  <1>2. i \in 0 .. n /\ i - 1 \in 0 .. n /\ n \in 0 .. n /\ i <= n /\ i \in 1 .. n
    BY <1>1
  <1>3. Grown(F, L, i, n)
    BY <1>1, <1>2, PackedStays
  <1>4. PICK s \in Seq(Char) : s = F[i - 1]
    BY <1>1, <1>2 DEF PacksTo
  <1>5. PICK d \in Seq(Char) : d = c[i]
    OBVIOUS
  <1>6. 0 \in Char
    BY WireAssumption DEF Char
  <1>7. PICK e \in Seq(Char) : e = Append(d, 0)
    BY <1>6, AppendProperties
  <1>8. PICK w \in Nat : w = Len(d)
    OBVIOUS
  <1>9. PICK a \in Nat : a = Len(s)
    OBVIOUS
  <1>10. Len(e) = w + 1 /\ e[w + 1] = 0 /\ \A j \in 1 .. w : e[j] = d[j]
    BY <1>6, <1>7, <1>8, AppendProperties
  <1>11. F[i] = s \o e
    BY <1>1, <1>2, <1>4, <1>5, <1>7 DEF PacksTo, PackString
  <1>12. \A j \in 1 .. w + 1 : (s \o e)[a + j] = e[j]
    <2> SUFFICES ASSUME NEW j \in 1 .. w + 1
                 PROVE  (s \o e)[a + j] = e[j]
      OBVIOUS
    <2>1. a + j \in 1 .. a + (w + 1) /\ ~(a + j <= a) /\ (a + j) - a = j
      OBVIOUS
    <2> QED
      BY <1>9, <1>10, <2>1, ConcatProperties
  <1>13. L[i - 1] = a /\ L[i] = a + w + 1 /\ L[n] \in Nat
    BY <1>1, <1>2, <1>4, <1>5, <1>8, <1>9 DEF Layout
  <1>14. \A j \in 1 .. a + w + 1 : F[n][j] = (s \o e)[j]
    BY <1>3, <1>11, <1>13 DEF Grown
  <1>15. \A j \in 1 .. w + 1 : a + j \in 1 .. a + w + 1 /\ F[n][a + j] = e[j]
    <2> SUFFICES ASSUME NEW j \in 1 .. w + 1
                 PROVE  a + j \in 1 .. a + w + 1 /\ F[n][a + j] = e[j]
      OBVIOUS
    <2>1. PICK k \in Nat : k = a + j
      OBVIOUS
    <2>2. k \in 1 .. a + w + 1
      BY <2>1
    <2>3. F[n][k] = (s \o e)[k]
      BY <1>14, <2>2
    <2> QED
      BY <1>12, <2>1, <2>2, <2>3
  <1>16. a + w + 1 <= L[n]
    BY <1>2, <1>3, <1>13 DEF Grown
  <1>17. \A j \in 1 .. w : j \in 1 .. w + 1
    OBVIOUS
  <1>18. w + 1 \in 1 .. w + 1 /\ a + (w + 1) = a + w + 1
    OBVIOUS
  <1>19. F[n][a + w + 1] = 0
    BY <1>10, <1>15, <1>18
  <1>20. \A j \in 1 .. w : F[n][a + j] = d[j]
    BY <1>10, <1>15, <1>17
  <1> QED
    BY <1>1, <1>5, <1>8, <1>13, <1>16, <1>19, <1>20 DEF CellsAt

(* The sum of the lengths is that of what is packed, if 16 bits can tell it. *)
LEMMA SumIsLength ==
  ASSUME NEW c \in Seq(Seq(Char)), NEW F, PacksTo(F, c), NEW L, Layout(F, c, L),
         L[Len(c)] < Modulus
  PROVE  TotalDataLength(c)[Len(c)] = L[Len(c)]
  <1>1. PICK n \in Nat : n = Len(c)
    OBVIOUS
  <1> DEFINE Sum(f, i) == IF i = 0 THEN 0 ELSE (f[i - 1] + Len(c[i]) + 1) % Modulus
             Eq(f)     == f = [i \in 0 .. Len(c) |-> Sum(f, i)]
  <1>2. L \in [0 .. n -> Nat] /\ L[0] = 0 /\ L[n] < Modulus
    BY <1>1 DEF Layout
  <1>3. ASSUME NEW i \in 1 .. n
        PROVE  L[i] = (L[i - 1] + Len(c[i]) + 1) % Modulus
    <2>1. L[i] = L[i - 1] + Len(c[i]) + 1
      BY <1>1 DEF Layout
    <2>2. PICK x \in Nat : x = L[i]
      BY <1>2
    <2>3. PICK y \in Nat : y = L[n]
      BY <1>2
    <2>4. x <= y
      <3>1. CellsAt(F, c, L, i)
        BY <1>1, StringCells
      <3> QED
        BY <1>1, <2>2, <2>3, <3>1 DEF CellsAt
    <2>5. PICK M \in Nat : M = Modulus
      BY WireAssumption
    <2>6. x < M
      BY <1>2, <2>3, <2>4, <2>5
    <2>7. x % M = x
      BY <2>6
    <2> QED
      BY <2>1, <2>2, <2>5, <2>7
  <1>4. \A i \in 0 .. n : i = 0 \/ i \in 1 .. n
    OBVIOUS
  <1>5. \A i \in 0 .. n : L[i] = Sum(L, i)
    BY <1>2, <1>3, <1>4
  <1>6. Eq(L)
    <2> HIDE DEF Sum
    <2> QED
      BY <1>1, <1>2, <1>5
  <1>7. TotalDataLength(c) = CHOOSE f : Eq(f)
    BY DEF TotalDataLength
  <1>8. PICK f : f = TotalDataLength(c)
    OBVIOUS
  <1>9. Eq(f)
    <2> HIDE DEF Eq
    <2> QED
      BY <1>6, <1>7, <1>8, Zenon
  <1>10. \A i \in 0 .. n : f[i] = Sum(f, i)
    <2> HIDE DEF Sum
    <2> QED
      BY <1>1, <1>9
  <1>11. f[0] = L[0]
    BY <1>2, <1>10
  <1>12. ASSUME NEW i \in 1 .. n, f[i - 1] = L[i - 1]
         PROVE  f[i] = L[i]
    <2>1. i \in 0 .. n /\ i # 0
      OBVIOUS
    <2>2. f[i] = (f[i - 1] + Len(c[i]) + 1) % Modulus
      BY <1>10, <2>1
    <2> QED
      BY <1>3, <1>12, <2>2
  <1>13. \A i \in 0 .. n : f[i] = L[i]
    <2>1. StepsAgree(f, L, n)
      BY <1>12 DEF StepsAgree
    <2> QED
      BY <1>11, <2>1, SameRecursion
  <1> QED
    BY <1>1, <1>8, <1>13

(* A buffer with the packed strings after its header. *)
Buffer(b, F, c) == /\ b \in Seq(Char) /\ Len(b) = Prefix + Len(F[Len(c)])
                   /\ \A j \in 1 .. Len(F[Len(c)]) : b[Prefix + j] = F[Len(c)][j]

(* pack_offset gets from one terminator to the next. *)
LEMMA OffsetsAtTerminators ==
  ASSUME NEW c \in Seq(Seq(Char)), NEW F, PacksTo(F, c), NEW L, Layout(F, c, L),
         \A i \in DOMAIN c : 0 \notin Range(c[i]), NEW b, Buffer(b, F, c)
  PROVE  \A i \in 0 .. Len(c) : PackOffset(b, Len(c))[i] = Prefix + L[i]
  <1>1. PICK n \in Nat : n = Len(c)
    OBVIOUS
  <1> DEFINE Zero(x)   == {j \in x + 1 .. Len(b) : b[j] = 0}
             At(f, i)  == IF i = 0 THEN Prefix ELSE Min(Zero(f[i - 1]))
             Eq(f)     == f = [i \in 0 .. n |-> At(f, i)]
  <1>2. L \in [0 .. n -> Nat] /\ L[0] = 0 /\ L[n] = Len(F[n])
    BY <1>1 DEF Layout
  <1>3. PICK h : h = [i \in 0 .. n |-> Prefix + L[i]]
    OBVIOUS
  <1>4. ASSUME NEW i \in 1 .. n
        PROVE  h[i] = Min(Zero(h[i - 1]))
    <2>1. i \in 0 .. n /\ i - 1 \in 0 .. n /\ n \in 0 .. n
      OBVIOUS
    <2>2. PICK x \in Nat : x = L[i - 1]
      BY <1>2, <2>1
    <2>3. PICK y \in Nat : y = L[i]
      BY <1>2, <2>1
    <2>4. PICK z \in Nat : z = L[n]
      BY <1>2, <2>1
    <2>5. PICK d \in Seq(Char) : d = c[i]
      BY <1>1
    <2>6. PICK w \in Nat : w = Len(d)
      OBVIOUS
    <2>7. y = x + w + 1
      BY <1>1, <2>2, <2>3, <2>5, <2>6 DEF Layout
    <2>8. /\ y <= z /\ F[n][y] = 0
          /\ \A j \in 1 .. w : F[n][x + j] = d[j]
      <3>1. CellsAt(F, c, L, i)
        BY <1>1, StringCells
      <3> QED
        BY <1>1, <2>2, <2>3, <2>4, <2>5, <2>6, <3>1 DEF CellsAt
    <2>9. Len(b) = 4 + z /\ \A j \in 1 .. z : b[4 + j] = F[n][j]
      BY <1>1, <1>2, <2>4 DEF Buffer, Prefix
    <2>10. h[i - 1] = 4 + x /\ h[i] = 4 + y
      BY <1>3, <2>1, <2>2, <2>3 DEF Prefix
    <2>11. PICK Z : Z = {j \in (4 + x) + 1 .. 4 + z : b[j] = 0}
      OBVIOUS
    <2>12. Z = Zero(h[i - 1])
      BY <2>9, <2>10, <2>11
    <2>13. 4 + y \in Z
      <3>1. y \in 1 .. z /\ 4 + y \in (4 + x) + 1 .. 4 + z
        BY <2>7, <2>8
      <3> QED
        BY <2>8, <2>9, <2>11, <3>1
    <2>14. ASSUME NEW j \in Z
           PROVE  4 + y <= j
      <3>1. j \in (4 + x) + 1 .. 4 + z /\ b[j] = 0
        BY <2>11
      <3> SUFFICES ASSUME ~(4 + y <= j)
                   PROVE  FALSE
        OBVIOUS
      <3>2. PICK k \in Nat : k = j - (4 + x)
        BY <3>1
      <3>3. k \in 1 .. w /\ x + k \in 1 .. z /\ 4 + (x + k) = j
        BY <2>7, <2>8, <3>1, <3>2
      <3>4. d[k] = 0
        BY <2>8, <2>9, <3>1, <3>3
      <3>5. DOMAIN d = 1 .. w /\ DOMAIN c = 1 .. n
        BY <1>1, <2>6
      <3>6. 0 \notin Range(d)
        BY <2>5, <3>5
      <3> QED
        BY <3>3, <3>4, <3>5, <3>6 DEF Range
    <2>15. Z \subseteq Nat
      BY <2>11
    <2>16. Min(Z) = 4 + y
      <3>1. \A v \in Z : (\A u \in Z : v <= u) => v = 4 + y
        BY <2>13, <2>14, <2>15
      <3> QED
        BY <2>13, <2>14, <3>1 DEF Min
    <2> QED
      BY <2>10, <2>12, <2>16
  <1>5. \A i \in 0 .. n : i = 0 \/ i \in 1 .. n
    OBVIOUS
  <1>6. h[0] = Prefix
    BY <1>2, <1>3 DEF Prefix
  <1>7. \A i \in 0 .. n : h[i] = At(h, i)
    <2> HIDE DEF Zero
    <2> QED
      BY <1>4, <1>5, <1>6
  <1>8. Eq(h)
    <2>1. h = [i \in 0 .. n |-> h[i]]
      BY <1>3
    <2> HIDE DEF At
    <2> QED
      BY <1>7, <2>1
  <1>9. PackOffset(b, n) = CHOOSE f : Eq(f)
    BY DEF PackOffset
  <1>10. PICK f : f = PackOffset(b, n)
    OBVIOUS
  <1>11. Eq(f)
    <2> HIDE DEF Eq
    <2> QED
      BY <1>8, <1>9, <1>10, Zenon
  <1>12. \A i \in 0 .. n : f[i] = At(f, i)
    <2> HIDE DEF At
    <2> QED
      BY <1>11
  <1>13. f[0] = h[0]
    <2>1. 0 \in 0 .. n
      OBVIOUS
    <2>2. At(f, 0) = Prefix
      OBVIOUS
    <2> HIDE DEF At
    <2> QED
      BY <1>6, <1>12, <2>1, <2>2
  <1>14. ASSUME NEW i \in 1 .. n, f[i - 1] = h[i - 1]
         PROVE  f[i] = h[i]
    <2>1. i \in 0 .. n /\ i # 0
      OBVIOUS
    <2>2. f[i] = Min(Zero(f[i - 1]))
      BY <1>12, <2>1
    <2> HIDE DEF Zero
    <2> QED
      BY <1>4, <1>14, <2>2
  <1>15. \A i \in 0 .. n : f[i] = h[i]
    <2>1. StepsAgree(f, h, n)
      BY <1>14 DEF StepsAgree
    <2> QED
      BY <1>13, <2>1, SameRecursion
  <1> QED
    BY <1>1, <1>3, <1>10, <1>15

(* SVR_PackedMessage_unpack gets from SVR_Message_pack's buffer the message that was packed, and
   the length in the header is that of what follows it: for any number of components of any
   lengths, if 16 bits can tell their sum. *)
THEOREM UnpackUndoesPack == \A m \in Messages : RoundTrips(m)
  <1> SUFFICES ASSUME NEW m \in Messages
               PROVE  RoundTrips(m)
    OBVIOUS
  <1>1. /\ m \in Message /\ Len(PackStrings(m.components)) < Modulus /\ Len(m.payload) < Modulus
        /\ \A i \in DOMAIN m.components : 0 \notin Range(m.components[i])
    BY WireAssumption
  <1>2. PICK c \in Seq(Seq(Char)) : c = m.components
    BY <1>1 DEF Message
  <1>3. PICK n \in Nat : n = Len(c)
    OBVIOUS
  <1>4. PICK F : PacksTo(F, c)
    BY StringsPacked
  <1>5. PICK L : Layout(F, c, L)
    BY <1>4, LayoutOfStrings
  <1>6. PICK s \in Seq(Char) : s = F[n]
    BY <1>3, <1>4 DEF PacksTo
  <1>7. PICK z \in Nat : z = Len(s)
    OBVIOUS
  <1>8. PackStrings(c) = s /\ L[n] = z /\ L[0] = 0 /\ z < Modulus
    <2>1. PackStrings(c) = F[n]
      BY <1>3, <1>4 DEF PacksTo
    <2>2. n \in 0 .. n /\ L[0] = 0 /\ \A i \in 0 .. n : L[i] = Len(F[i])
      BY <1>3, <1>5 DEF Layout
    <2> QED
      BY <1>1, <1>2, <1>6, <1>7, <2>1, <2>2
  <1>9. n <= z
    <2>1. 0 \in 0 .. n /\ n \in 0 .. n /\ 0 <= n
      OBVIOUS
    <2>2. Grown(F, L, 0, n)
      BY <1>3, <1>4, <1>5, <2>1, PackedStays
    <2>3. 0 + (n - 0) <= z
      BY <1>8, <2>2 DEF Grown
    <2> QED
      BY <2>3
  <1>10. PICK r \in Char : r = m.request_id
    BY <1>1 DEF Message
  <1>11. PICK p \in Nat : p = Len(m.payload)
    <2>1. m.payload \in Seq(Char)
      BY <1>1 DEF Message
    <2> QED
      BY <2>1, LenProperties
  <1>12. z \in Char /\ n \in Char /\ p \in Char
    <2>1. PICK M \in Nat : M = Modulus
      BY WireAssumption
    <2>2. z < M /\ n < M /\ p < M
      BY <1>1, <1>8, <1>9, <1>11, <2>1
    <2>3. z \in 0 .. M - 1 /\ n \in 0 .. M - 1 /\ p \in 0 .. M - 1
      BY <2>2
    <2> QED
      BY <2>1, <2>3 DEF Char
  <1>13. PackHeader(m) = <<z, r, n, p>>
    BY <1>2, <1>3, <1>4, <1>5, <1>8, <1>10, <1>11, SumIsLength DEF PackHeader
  <1>14. PICK b : b = Pack(m)
    OBVIOUS
  <1>15. PICK h \in Seq(Char) : h = <<z, r, n, p>>
    <2>1. <<z, r, n, p>> \in Seq(Char)
      BY <1>10, <1>12
    <2> QED
      BY <2>1
  <1>16. Len(h) = 4 /\ h[1] = z /\ h[2] = r /\ h[3] = n /\ h[4] = p
    BY <1>15
  <1>17. b = h \o s
    BY <1>2, <1>8, <1>13, <1>14, <1>15 DEF Pack
  <1>18. /\ b \in Seq(Char) /\ Len(b) = 4 + z
         /\ \A j \in 1 .. 4 + z : b[j] = IF j <= 4 THEN h[j] ELSE s[j - 4]
    <2>1. /\ h \o s \in Seq(Char) /\ Len(h \o s) = Len(h) + Len(s)
          /\ \A j \in 1 .. Len(h) + Len(s) : (h \o s)[j] = IF j <= Len(h) THEN h[j] ELSE s[j - Len(h)]
      BY ConcatProperties
    <2> QED
      BY <1>7, <1>16, <1>17, <2>1
  <1>19. b[1] = z /\ b[2] = r /\ b[3] = n /\ b[4] = p
    <2>1. 1 \in 1 .. 4 + z /\ 2 \in 1 .. 4 + z /\ 3 \in 1 .. 4 + z /\ 4 \in 1 .. 4 + z
      OBVIOUS
    <2> QED
      BY <1>16, <1>18, <2>1
  <1>20. \A j \in 1 .. z : b[4 + j] = s[j]
    <2> SUFFICES ASSUME NEW j \in 1 .. z
                 PROVE  b[4 + j] = s[j]
      OBVIOUS
    <2>1. PICK k \in 1 .. 4 + z : k = 4 + j /\ ~(k <= 4) /\ k - 4 = j
      OBVIOUS
    <2> QED
      BY <1>18, <2>1
  <1>21. Buffer(b, F, c)
    BY <1>3, <1>6, <1>7, <1>18, <1>20 DEF Buffer, Prefix
  <1>22. \A i \in 0 .. n : PackOffset(b, n)[i] = 4 + L[i]
    BY <1>1, <1>2, <1>3, <1>4, <1>5, <1>21, OffsetsAtTerminators DEF Prefix
  <1>23. ASSUME NEW i \in 1 .. n
         PROVE  SubSeq(b, PackOffset(b, n)[i - 1] + 1, PackOffset(b, n)[i] - 1) = c[i]
    <2>1. i \in 0 .. n /\ i - 1 \in 0 .. n
      OBVIOUS
    <2>2. PICK x \in Nat : x = L[i - 1]
      BY <1>3, <1>5, <2>1 DEF Layout
    <2>3. PICK y \in Nat : y = L[i]
      BY <1>3, <1>5, <2>1 DEF Layout
    <2>4. PICK d \in Seq(Char) : d = c[i]
      BY <1>3
    <2>5. PICK w \in Nat : w = Len(d)
      OBVIOUS
    <2>6. y = x + w + 1
      BY <1>3, <1>5, <2>2, <2>3, <2>4, <2>5 DEF Layout
    <2>7. y <= z /\ \A j \in 1 .. w : s[x + j] = d[j]
      <3>1. CellsAt(F, c, L, i)
        BY <1>3, <1>4, <1>5, StringCells
      <3> QED
        BY <1>3, <1>6, <1>8, <2>2, <2>3, <2>4, <2>5, <3>1 DEF CellsAt
    <2>8. PICK e \in Nat : e = 4 + x + 1
      OBVIOUS
    <2>9. PICK f \in Nat : f = 4 + x + w
      OBVIOUS
    <2>10. PackOffset(b, n)[i - 1] + 1 = e /\ PackOffset(b, n)[i] - 1 = f
      <3>1. PackOffset(b, n)[i - 1] = 4 + x /\ PackOffset(b, n)[i] = 4 + y
        BY <1>22, <2>1, <2>2, <2>3
      <3>2. (4 + x) + 1 = e /\ (4 + y) - 1 = f
        BY <2>6, <2>8, <2>9
      <3> QED
        BY <3>1, <3>2
    <2>11. PICK v : v = SubSeq(b, e, f)
      OBVIOUS
    <2>12. \A j \in e .. f : j \in 1 .. Len(b) /\ b[j] \in Char
      <3>1. \A j \in e .. f : j \in 1 .. Len(b)
        BY <1>18, <2>6, <2>7, <2>8, <2>9
      <3> QED
        BY <1>18, <3>1, ElementOfSeq
    <2>13. v \in Seq(Char) /\ Len(v) = w /\ \A j \in 1 .. w : v[j] = b[e + j - 1]
      <3>1. /\ v \in Seq(Char) /\ Len(v) = IF e <= f THEN f - e + 1 ELSE 0
            /\ \A j \in 1 .. f - e + 1 : v[j] = b[e + j - 1]
        BY <1>18, <2>11, <2>12, SubSeqProperties
      <3>2. f - e + 1 = w /\ (~(e <= f) => w = 0)
        BY <2>8, <2>9
      <3> QED
        BY <3>1, <3>2
    <2>14. ASSUME NEW j \in 1 .. w
           PROVE  v[j] = d[j]
      <3>1. PICK k \in Nat : k = x + j
        OBVIOUS
      <3>2. e + j - 1 = 4 + k /\ k \in 1 .. z
        BY <2>6, <2>7, <2>8, <3>1
      <3>3. v[j] = b[4 + k]
        BY <2>13, <3>2
      <3>4. b[4 + k] = s[k]
        BY <1>20, <3>2
      <3>5. s[k] = d[j]
        BY <2>7, <3>1
      <3> QED
        BY <3>3, <3>4, <3>5
    <2>15. v = d
      BY <2>5, <2>13, <2>14, SeqEqual
    <2> QED
      BY <2>4, <2>10, <2>11, <2>15
  <1>24. UnpackStrings(b, n) = c
    <2>1. c = [i \in 1 .. n |-> c[i]]
      BY <1>3
    <2>2. UnpackStrings(b, n) = [i \in 1 .. n |-> SubSeq(b, PackOffset(b, n)[i - 1] + 1, PackOffset(b, n)[i] - 1)]
      BY DEF UnpackStrings
    <2> QED
      BY <1>23, <2>1, <2>2
  <1>25. Unpack(b) = [request_id |-> r, components |-> c, payload_size |-> p]
    BY <1>19, <1>24 DEF Unpack
  <1> QED
    BY <1>2, <1>10, <1>11, <1>14, <1>18, <1>19, <1>25 DEF RoundTrips, Prefix

-----------------------------------------------------------------------------
(* The stream. *)

(* A message takes Size(m) cells of the stream. *)
Size(m)    == Len(Pack(m)) + Len(m.payload)
Cell(m, i) == IF i <= Len(Pack(m)) THEN Pack(m)[i] ELSE m.payload[i - Len(Pack(m))]

(* Of the messages o, those after the r-th follow one another in the socket s, or did and will:
   the k-th begins after off[k]. *)
Placed(off, o, r, s) ==
  /\ \A k \in r + 1 .. Len(o) : off[k + 1] = off[k] + Size(o[k])
  /\ \A k, l \in r + 1 .. Len(o) + 1 : k <= l => off[k] <= off[l]
  /\ \A k \in r + 1 .. Len(o) : \A i \in 1 .. Size(o[k]) :
       off[k] + i \in 1 .. Len(s) => s[off[k] + i] = Cell(o[k], i)

(* What is left to send: of the last message begun, and by the thread with the lock. *)
EndOf(s, t) == /\ Len(s) <= Len(t)
               /\ \A i \in 1 .. Len(s) : s[i] = t[Len(t) - Len(s) + i]
Sending(r, m) == /\ EndOf(r.body, Pack(m)) /\ EndOf(r.payload, m.payload)
                 /\ r.body # << >> => Len(r.payload) = Len(m.payload)
Left == IF lock = NULL THEN 0 ELSE Len(rest[lock].body) + Len(rest[lock].payload)

(* Only the thread with the lock sends, and nobody has it once the client is closed. *)
LockOK == /\ DOMAIN rest = Thread /\ lock \in Thread \cup {NULL}
          /\ \A t \in Thread : rest[t] # NULL => lock = t
          /\ state = "CLOSED" => lock = NULL
          /\ fd = "closed" => state = "CLOSED"

SenderOK == lock # NULL => /\ order # << >>
                           /\ rest[lock] \in [body : Seq(Char), payload : Seq(Char)]
                           /\ Sending(rest[lock], order[Len(order)])

(* What has been received, and what the receive thread knows of the next message. *)
ReceiverOK ==
  /\ Len(received) <= Len(order) /\ \A k \in 1 .. Len(received) : received[k] = order[k]
  /\ at \in {"body", "payload"} => Len(received) < Len(order)
  /\ at = "body" => length = Pack(order[Len(received) + 1])[1]
  /\ at = "payload" => message = Unpack(Pack(order[Len(received) + 1]))

(* Where the next message begins: its body may have been received. *)
Start == IF at = "payload" THEN 0 - Len(Pack(order[Len(received) + 1])) ELSE 0

SocketOK ==
  at # "ended" => \E off \in [Nat -> Int] :
    /\ Placed(off, order, Len(received), socket)
    /\ off[Len(received) + 1] = Start
    /\ Len(socket) <= off[Len(order) + 1]
    /\ ~lost => Len(socket) + Left = off[Len(order) + 1]

FlowOK == TypeOK /\ SenderOK /\ ReceiverOK /\ SocketOK
IInv   == LockOK /\ FlowOK

-----------------------------------------------------------------------------
USE DEF sender, receiver

(* The lock. *)

(* Every step keeps what the lock is for. *)
LEMMA LockKept ==
  ASSUME LockOK, [Next]_vars
  PROVE  LockOK'
  <1>1. CASE UNCHANGED vars
    BY <1>1 DEF vars, LockOK
  <1>2. ASSUME NEW t \in Thread, NEW m \in Messages, Begin(t, m)
        PROVE  LockOK'
    <2>1. \A u \in Thread : rest[u] = NULL
      BY <1>2, WireAssumption DEF LockOK, Begin
    <2>2. DOMAIN rest' = Thread /\ \A u \in Thread : u # t => rest'[u] = rest[u]
      BY <1>2 DEF LockOK, Begin
    <2> QED
      BY <1>2, <2>1, <2>2 DEF LockOK, Begin
  <1>3. ASSUME NEW t \in Thread, NEW part, SendSome(t, part)
        PROVE  LockOK'
    <2>1. DOMAIN rest' = Thread /\ \A u \in Thread : u # t => rest'[u] = rest[u]
      BY <1>3 DEF LockOK, SendSome
    <2>2. rest[t] # NULL /\ UNCHANGED <<lock, state, fd>>
      BY <1>3 DEF SendSome
    <2> QED
      BY <2>1, <2>2 DEF LockOK
  <1>4. ASSUME NEW t \in Thread, EndSend(t)
        PROVE  LockOK'
    <2>1. /\ DOMAIN rest' = Thread /\ rest'[t] = NULL
          /\ \A u \in Thread : u # t => rest'[u] = rest[u]
      BY <1>4 DEF LockOK, EndSend
    <2>2. lock = t /\ lock' = NULL /\ UNCHANGED <<state, fd>>
      BY <1>4 DEF LockOK, EndSend
    <2> QED
      BY <2>1, <2>2 DEF LockOK
  <1>5. CASE MarkForClosing \/ CloseSocket
    BY <1>5 DEF LockOK, MarkForClosing, CloseSocket
  <1>6. CASE Lose \/ Receive
    BY <1>6 DEF LockOK, Lose, Receive, PeekLength, ReceiveBody, ReceivePayload, EndOfStream
  <1> QED
    BY <1>1, <1>2, <1>3, <1>4, <1>5, <1>6 DEF Next, SenderStep

(* SVRD_Client_markForClosing tests the state and sets it under the client's lock, which
   SVRD_Client_sendMessage holds to the end: when the socket is closed nobody sends, and
   nobody will, for any number of threads. *)
THEOREM ClosedSocketUnused == Spec => []NoSendAfterClose
  <1>1. Init => LockOK
    BY DEF Init, LockOK
  <1>2. LockOK /\ [Next]_vars => LockOK'
    BY LockKept
  <1>3. LockOK => NoSendAfterClose
    BY WireAssumption DEF LockOK, NoSendAfterClose
  <1> QED
    BY <1>1, <1>2, <1>3, PTL DEF Spec

-----------------------------------------------------------------------------
(* Messages and cells. *)

(* A message in numbers. *)
LEMMA MessageFacts ==
  ASSUME NEW m \in Messages
  PROVE  /\ m \in Message /\ Pack(m) \in Seq(Char) /\ m.payload \in Seq(Char)
         /\ Len(Pack(m)) \in Nat \ {0} /\ Len(m.payload) \in Nat /\ Len(m.payload) \in Char
         /\ Len(Pack(m)) = Prefix + Pack(m)[1]
         /\ Size(m) = Len(Pack(m)) + Len(m.payload) /\ Size(m) \in Nat \ {0}
         /\ Unpack(Pack(m)) = [request_id |-> m.request_id, components |-> m.components,
                               payload_size |-> Len(m.payload)]
         /\ Unpack(Pack(m)) \in Packed
  <1>1. /\ Pack(m) \in Seq(Char) /\ Len(Pack(m)) = Prefix + Pack(m)[1] /\ Prefix <= Len(Pack(m))
        /\ Unpack(Pack(m)) = [request_id |-> m.request_id, components |-> m.components,
                              payload_size |-> Len(m.payload)]
    BY UnpackUndoesPack DEF RoundTrips
  <1>2. m \in Message /\ Len(m.payload) < Modulus /\ Modulus \in Nat
    BY WireAssumption
  <1>3. m.payload \in Seq(Char) /\ m.request_id \in Char /\ m.components \in Seq(Seq(Char))
    BY <1>2 DEF Message
  <1>4. Len(m.payload) \in Nat /\ Len(m.payload) \in Char
    BY <1>2, <1>3, LenProperties DEF Char
  <1>5. Len(Pack(m)) \in Nat \ {0}
    BY <1>1, LenProperties DEF Prefix
  <1>6. Size(m) = Len(Pack(m)) + Len(m.payload) /\ Size(m) \in Nat \ {0}
    BY <1>4, <1>5 DEF Size
  <1>7. Unpack(Pack(m)) \in Packed
    BY <1>1, <1>3, <1>4 DEF Packed
  <1> QED
    BY <1>1, <1>2, <1>3, <1>4, <1>5, <1>6, <1>7

(* Cells are taken from the beginning of the socket. *)
Shifted(off, o, r, w, c, t) ==
  /\ t \in Seq(Char) /\ Len(t) = w - c
  /\ \E d \in [Nat -> Int] : Placed(d, o, r, t) /\ \A k \in Nat : d[k] = off[k] - c

(* Every message begins as much earlier. *)
LEMMA ShiftKeeps ==
  ASSUME NEW off \in [Nat -> Int], NEW o \in Seq(Messages), NEW r \in Nat,
         NEW s \in Seq(Char), Placed(off, o, r, s), NEW c \in 0 .. Len(s),
         NEW t, t = SubSeq(s, c + 1, Len(s))
  PROVE  Shifted(off, o, r, Len(s), c, t)
  <1>1. PICK n \in Nat : n = Len(s)
    BY LenProperties
  <1>2. PICK q \in Nat : q = Len(o)
    BY LenProperties
  <1>3. t = SubSeq(s, c + 1, Len(s))
    OBVIOUS
  <1>4. PICK d : d = [k \in Nat |-> off[k] - c]
    OBVIOUS
  <1>5. c \in Nat /\ c <= n
    BY <1>1
  <1>6. /\ t \in Seq(Char) /\ Len(t) = n - c
        /\ \A i \in 1 .. n - c : t[i] = s[c + i]
    <2>1. PICK e \in Nat : e = c + 1
      BY <1>5
    <2>2. \A i \in e .. n : s[i] \in Char
      BY <1>1, <1>5, <2>1, ElementOfSeq
    <2>3. /\ t \in Seq(Char) /\ Len(t) = IF e <= n THEN n - e + 1 ELSE 0
          /\ \A i \in 1 .. n - e + 1 : t[i] = s[e + i - 1]
      <3>1. PICK u : u = SubSeq(s, e, n)
        OBVIOUS
      <3>2. /\ u \in Seq(Char) /\ Len(u) = IF e <= n THEN n - e + 1 ELSE 0
            /\ \A i \in 1 .. n - e + 1 : u[i] = s[e + i - 1]
        BY <2>2, <3>1, SubSeqProperties
      <3>3. t = u
        BY <1>1, <1>3, <2>1, <3>1
      <3> QED
        BY <3>2, <3>3
    <2>4. n - e + 1 = n - c /\ (~(e <= n) => n - c = 0) /\ \A i \in Nat : e + i - 1 = c + i
      BY <1>5, <2>1
    <2>5. \A i \in 1 .. n - c : i \in Nat
      OBVIOUS
    <2> QED
      BY <2>3, <2>4, <2>5
  <1>7. \A k \in Nat : d[k] = off[k] - c /\ off[k] \in Int
    BY <1>4
  <1>8. \A k \in r + 1 .. q + 1 : k \in Nat
    OBVIOUS
  <1>9. \A k \in r + 1 .. q : /\ k \in Nat /\ k + 1 \in Nat /\ o[k] \in Messages
    <2>1. \A k \in r + 1 .. q : k \in Nat /\ k + 1 \in Nat /\ k \in 1 .. q
      OBVIOUS
    <2> QED
      BY <1>2, <2>1, ElementOfSeq
  <1>10. \A k \in r + 1 .. q : Size(o[k]) \in Nat
    BY <1>9, MessageFacts
  <1>11. \A k \in r + 1 .. q : d[k + 1] = d[k] + Size(o[k])
    <2>1. \A k \in r + 1 .. q : off[k + 1] = off[k] + Size(o[k])
      BY <1>2 DEF Placed
    <2> SUFFICES ASSUME NEW k \in r + 1 .. q
                 PROVE  d[k + 1] = d[k] + Size(o[k])
      OBVIOUS
    <2>2. /\ d[k] = off[k] - c /\ d[k + 1] = off[k + 1] - c
          /\ off[k] \in Int /\ off[k + 1] \in Int
      BY <1>7, <1>9
    <2> QED
      BY <1>5, <1>10, <2>1, <2>2, SMTT(30)
  <1>12. \A k, l \in r + 1 .. q + 1 : k <= l => d[k] <= d[l]
    <2> SUFFICES ASSUME NEW k \in r + 1 .. q + 1, NEW l \in r + 1 .. q + 1, k <= l
                 PROVE  d[k] <= d[l]
      OBVIOUS
    <2>1. off[k] <= off[l]
      BY <1>2 DEF Placed
    <2>2. d[k] = off[k] - c /\ d[l] = off[l] - c /\ off[k] \in Int /\ off[l] \in Int
      BY <1>7, <1>8
    <2> QED
      BY <1>5, <2>1, <2>2
  <1>13. ASSUME NEW k \in r + 1 .. q, NEW i \in 1 .. Size(o[k]), d[k] + i \in 1 .. n - c
         PROVE  t[d[k] + i] = Cell(o[k], i)
    <2>1. d[k] = off[k] - c /\ off[k] \in Int /\ i \in Nat
      BY <1>7, <1>9, <1>10
    <2>2. off[k] + i \in 1 .. n /\ c + (d[k] + i) = off[k] + i
      <3>1. PICK x \in Int : x = off[k]
        BY <2>1
      <3>2. x - c + i \in 1 .. n - c
        BY <1>13, <2>1, <3>1
      <3>3. x + i \in 1 .. n /\ c + (x - c + i) = x + i
        BY <1>5, <2>1, <3>2
      <3> QED
        BY <2>1, <3>1, <3>3
    <2>3. s[off[k] + i] = Cell(o[k], i)
      BY <1>1, <1>2, <2>2 DEF Placed
    <2> QED
      BY <1>6, <1>13, <2>2, <2>3
  <1>14. Placed(d, o, r, t)
    BY <1>2, <1>6, <1>11, <1>12, <1>13 DEF Placed
  <1>15. d \in [Nat -> Int]
    BY <1>4, <1>5
  <1> QED
    BY <1>1, <1>6, <1>7, <1>14, <1>15 DEF Shifted

(* When a message has been received, the next is the first. *)
LEMMA NextPlaced ==
  ASSUME NEW off, NEW o, NEW r \in Nat, NEW s, Len(o) \in Nat, Placed(off, o, r, s)
  PROVE  Placed(off, o, r + 1, s)
  <1>1. /\ \A k \in r + 1 + 1 .. Len(o) : k \in r + 1 .. Len(o)
        /\ \A k \in r + 1 + 1 .. Len(o) + 1 : k \in r + 1 .. Len(o) + 1
    OBVIOUS
  <1> QED
    BY <1>1 DEF Placed

(* Where messages begin, with one more. *)
Extends(d, off, o, r, s, m) ==
  /\ Placed(d, Append(o, m), r, s)
  /\ d[r + 1] = off[r + 1] /\ d[Len(o) + 2] = off[Len(o) + 1] + Size(m)

(* A message that begins goes behind everything that was sent. *)
LEMMA ExtendPlaced ==
  ASSUME NEW off \in [Nat -> Int], NEW o \in Seq(Messages), NEW r \in Nat, r <= Len(o),
         NEW s \in Seq(Char), Placed(off, o, r, s), Len(s) <= off[Len(o) + 1],
         NEW m \in Messages
  PROVE  \E d \in [Nat -> Int] : Extends(d, off, o, r, s, m)
  <1>1. PICK n \in Nat : n = Len(o)
    BY LenProperties
  <1>2. PICK z \in Nat : z = Size(m)
    BY MessageFacts
  <1>3. PICK x \in Int : x = off[n + 1]
    OBVIOUS
  <1>4. PICK p : p = Append(o, m)
    OBVIOUS
  <1>5. /\ Len(p) = n + 1 /\ p[n + 1] = m /\ \A k \in 1 .. n : p[k] = o[k]
    BY <1>1, <1>4, AppendProperties
  <1>6. PICK d \in [Nat -> Int] : /\ d[n + 2] = x + z
                                  /\ \A k \in Nat : k # n + 2 => d[k] = off[k]
    <2>1. PICK e : e = [off EXCEPT ![n + 2] = x + z]
      OBVIOUS
    <2>2. e \in [Nat -> Int]
      BY <2>1
    <2>3. e[n + 2] = x + z
      BY <2>1
    <2>4. \A k \in Nat : k # n + 2 => e[k] = off[k]
      BY <2>1
    <2> QED
      BY <2>2, <2>3, <2>4
  <1>7. /\ \A k \in r + 1 .. n : off[k + 1] = off[k] + Size(o[k])
        /\ \A k, l \in r + 1 .. n + 1 : k <= l => off[k] <= off[l]
        /\ \A k \in r + 1 .. n : \A i \in 1 .. Size(o[k]) :
             off[k] + i \in 1 .. Len(s) => s[off[k] + i] = Cell(o[k], i)
    BY <1>1 DEF Placed
  <1>8. \A k \in r + 1 .. n : /\ k \in Nat /\ k + 1 \in Nat /\ k # n + 2 /\ k + 1 # n + 2
                              /\ k \in 1 .. n
    OBVIOUS
  <1>9. \A k \in r + 1 .. n + 1 : /\ k \in r + 1 .. n \/ k = n + 1
                                  /\ k \in Nat /\ k # n + 2
    OBVIOUS
  <1>10. d[n + 1] = x /\ d[n + 1 + 1] = x + z
    <2>1. n + 1 \in Nat /\ n + 1 # n + 2 /\ n + 1 + 1 = n + 2
      OBVIOUS
    <2> QED
      BY <1>3, <1>6, <2>1
  <1>11. ASSUME NEW k \in r + 1 .. n + 1
         PROVE  d[k + 1] = d[k] + Size(p[k])
    <2>1. CASE k \in r + 1 .. n
      <3>1. d[k] = off[k] /\ d[k + 1] = off[k + 1] /\ p[k] = o[k]
        BY <1>5, <1>6, <1>8, <2>1
      <3> QED
        BY <1>7, <2>1, <3>1
    <2>2. CASE k = n + 1
      BY <1>2, <1>5, <1>10, <2>2
    <2> QED
      BY <1>9, <2>1, <2>2
  <1>12. ASSUME NEW k \in r + 1 .. n + 2, NEW l \in r + 1 .. n + 2, k <= l
         PROVE  d[k] <= d[l]
    <2>1. CASE k = n + 2
      <3>1. l = n + 2
        BY <1>12, <2>1
      <3> QED
        BY <1>6, <2>1, <3>1
    <2>2. CASE k # n + 2
      <3>1. k \in r + 1 .. n + 1 /\ k \in Nat /\ n + 1 \in r + 1 .. n + 1 /\ k <= n + 1
        BY <1>1, <2>2
      <3>2. d[k] = off[k] /\ off[k] <= x
        BY <1>3, <1>6, <1>7, <2>2, <3>1
      <3>3. off[k] \in Int
        BY <3>1
      <3>4. CASE l = n + 2
        BY <1>6, <3>2, <3>3, <3>4
      <3>5. CASE l # n + 2
        <4>1. l \in r + 1 .. n + 1 /\ l \in Nat
          BY <3>5
        <4> QED
          BY <1>6, <1>7, <1>12, <3>1, <3>2, <3>5, <4>1
      <3> QED
        BY <3>4, <3>5
    <2> QED
      BY <2>1, <2>2
  <1>13. ASSUME NEW k \in r + 1 .. n + 1, NEW i \in 1 .. Size(p[k]), d[k] + i \in 1 .. Len(s)
         PROVE  s[d[k] + i] = Cell(p[k], i)
    <2>1. CASE k \in r + 1 .. n
      <3>1. d[k] = off[k] /\ p[k] = o[k]
        BY <1>5, <1>6, <1>8, <2>1
      <3> QED
        BY <1>7, <1>13, <2>1, <3>1
    <2>2. CASE k = n + 1
      <3>1. PICK w \in Nat : w = Len(s)
        BY LenProperties
      <3>2. i \in 1 .. z /\ x + i \in 1 .. w /\ w <= x
        BY <1>1, <1>2, <1>3, <1>5, <1>10, <1>13, <2>2, <3>1
      <3> QED
        BY <3>2
    <2> QED
      BY <1>9, <2>1, <2>2
  <1>14. n + 1 + 1 = n + 2 /\ r + 1 \in Nat /\ r + 1 # n + 2
    BY <1>1
  <1>15. Placed(d, p, r, s)
    BY <1>5, <1>11, <1>12, <1>13, <1>14 DEF Placed
  <1> QED
    BY <1>1, <1>2, <1>3, <1>4, <1>6, <1>14, <1>15 DEF Extends

(* Cells of the last message follow those of it that were sent before. *)
LEMMA SendPlaced ==
  ASSUME NEW off \in [Nat -> Int], NEW o \in Seq(Messages), NEW r \in Nat, r < Len(o),
         NEW s \in Seq(Char), Placed(off, o, r, s), NEW c \in Seq(Char), NEW q \in Nat,
         Len(s) = off[Len(o)] + q, q + Len(c) <= Size(o[Len(o)]),
         \A i \in 1 .. Len(c) : c[i] = Cell(o[Len(o)], q + i)
  PROVE  Placed(off, o, r, s \o c)
  <1>1. PICK n \in Nat : n = Len(o)
    BY LenProperties
  <1>2. PICK w \in Nat : w = Len(s)
    BY LenProperties
  <1>3. PICK l \in Nat : l = Len(c)
    BY LenProperties
  <1>4. PICK t : t = s \o c
    OBVIOUS
  <1>5. /\ Len(t) = w + l
        /\ \A i \in 1 .. w + l : t[i] = IF i <= w THEN s[i] ELSE c[i - w]
    BY <1>2, <1>3, <1>4, ConcatProperties
  <1>6. /\ \A k \in r + 1 .. n : off[k + 1] = off[k] + Size(o[k])
        /\ \A k, j \in r + 1 .. n + 1 : k <= j => off[k] <= off[j]
        /\ \A k \in r + 1 .. n : \A i \in 1 .. Size(o[k]) :
             off[k] + i \in 1 .. w => s[off[k] + i] = Cell(o[k], i)
    BY <1>1, <1>2 DEF Placed
  <1>7. \A k \in r + 1 .. n : off[k] \in Int /\ Size(o[k]) \in Nat
    <2>1. \A k \in r + 1 .. n : k \in Nat /\ k \in 1 .. n
      OBVIOUS
    <2>2. \A k \in r + 1 .. n : o[k] \in Messages
      BY <1>1, <2>1, ElementOfSeq
    <2> QED
      BY <2>1, <2>2, MessageFacts
  <1>8. ASSUME NEW k \in r + 1 .. n, NEW i \in 1 .. Size(o[k]), off[k] + i \in 1 .. w + l
        PROVE  t[off[k] + i] = Cell(o[k], i)
    <2>1. PICK x \in Int : x = off[k]
      BY <1>7
    <2>2. PICK z \in Nat : z = Size(o[k])
      BY <1>7
    <2>3. x + i \in 1 .. w + l /\ i \in 1 .. z
      BY <1>8, <2>1, <2>2
    <2>4. CASE x + i <= w
      <3>1. x + i \in 1 .. w
        BY <2>3, <2>4
      <3> QED
        BY <1>5, <1>6, <2>1, <2>3, <2>4, <3>1
    <2>5. CASE ~(x + i <= w)
      <3>1. t[x + i] = c[x + i - w]
        <4>1. PICK j \in 1 .. w + l : j = x + i
          BY <2>3
        <4>2. PICK e : e = j - w /\ e = x + i - w
          BY <4>1
        <4>3. t[j] = c[e]
          BY <1>5, <2>5, <4>1, <4>2
        <4> QED
          BY <4>1, <4>2, <4>3, Zenon
      <3>2. CASE k = n
        <4>1. w = x + q
          BY <1>1, <1>2, <2>1, <3>2
        <4>2. x + i - w \in 1 .. l /\ q + (x + i - w) = i
          BY <2>3, <2>5, <4>1
        <4>3. c[x + i - w] = Cell(o[n], q + (x + i - w))
          BY <1>1, <1>3, <4>2
        <4> QED
          BY <2>1, <3>1, <3>2, <4>2, <4>3
      <3>3. CASE k # n
        <4>1. k + 1 \in r + 1 .. n + 1 /\ n \in r + 1 .. n + 1 /\ k + 1 <= n /\ n \in r + 1 .. n
          <5>1. k \in Nat /\ r + 1 <= k /\ k <= n
            OBVIOUS
          <5>2. k + 1 <= n
            BY <3>3, <5>1
          <5> QED
            BY <5>1, <5>2
        <4>2. off[k + 1] <= off[n] /\ off[k + 1] = x + z
          BY <1>6, <2>1, <2>2, <4>1
        <4>3. PICK y \in Int : y = off[n]
          BY <1>7, <4>1
        <4>4. w = y + q
          BY <1>1, <1>2, <4>3
        <4>5. x + z <= y
          BY <4>2, <4>3
        <4> QED
          BY <2>3, <2>5, <4>4, <4>5
      <3> QED
        BY <3>2, <3>3
    <2> QED
      BY <2>4, <2>5
  <1>9. Placed(off, o, r, t)
    BY <1>1, <1>5, <1>6, <1>8 DEF Placed
  <1> QED
    BY <1>4, <1>9

(* A part of what was sent does not arrive. *)
LEMMA CutPlaced ==
  ASSUME NEW off, NEW o, NEW r, NEW s \in Seq(Char), Placed(off, o, r, s), NEW n \in 0 .. Len(s)
  PROVE  /\ SubSeq(s, 1, n) \in Seq(Char) /\ Len(SubSeq(s, 1, n)) = n
         /\ Placed(off, o, r, SubSeq(s, 1, n))
  <1>1. PICK w \in Nat : w = Len(s)
    BY LenProperties
  <1>2. PICK t : t = SubSeq(s, 1, n)
    OBVIOUS
  <1>3. n \in Nat /\ n <= w
    BY <1>1
  <1>4. \A i \in 1 .. n : s[i] \in Char /\ i \in 1 .. w
    BY <1>1, <1>3, ElementOfSeq
  <1>5. t \in Seq(Char) /\ Len(t) = n /\ \A i \in 1 .. n : t[i] = s[i]
    <2>1. /\ t \in Seq(Char) /\ Len(t) = IF 1 <= n THEN n - 1 + 1 ELSE 0
          /\ \A i \in 1 .. n - 1 + 1 : t[i] = s[1 + i - 1]
      BY <1>2, <1>3, <1>4, SubSeqProperties
    <2>2. n - 1 + 1 = n /\ (~(1 <= n) => n = 0) /\ \A i \in 1 .. n : 1 + i - 1 = i
      BY <1>3
    <2> QED
      BY <2>1, <2>2
  <1>6. Placed(off, o, r, t)
    BY <1>1, <1>4, <1>5 DEF Placed
  <1> QED
    BY <1>2, <1>5, <1>6

(* Some of what is left is sent. *)
LEMMA EndOfTail ==
  ASSUME NEW s \in Seq(Char), NEW t \in Seq(Char), EndOf(s, t), NEW n \in 1 .. Len(s)
  PROVE  /\ SubSeq(s, n + 1, Len(s)) \in Seq(Char)
         /\ Len(SubSeq(s, n + 1, Len(s))) = Len(s) - n
         /\ EndOf(SubSeq(s, n + 1, Len(s)), t)
         /\ SubSeq(s, 1, n) \in Seq(Char) /\ Len(SubSeq(s, 1, n)) = n
         /\ \A i \in 1 .. n : SubSeq(s, 1, n)[i] = t[Len(t) - Len(s) + i]
  <1>1. PICK w \in Nat : w = Len(s)
    BY LenProperties
  <1>2. PICK z \in Nat : z = Len(t)
    BY LenProperties
  <1>3. n \in Nat /\ 1 <= n /\ n <= w /\ w <= z
    BY <1>1, <1>2 DEF EndOf
  <1>4. \A i \in 1 .. w : s[i] = t[z - w + i] /\ s[i] \in Char
    BY <1>1, <1>2, ElementOfSeq DEF EndOf
  <1>5. PICK a : a = SubSeq(s, 1, n)
    OBVIOUS
  <1>6. PICK b : b = SubSeq(s, n + 1, Len(s))
    OBVIOUS
  <1>7. \A i \in 1 .. n : i \in 1 .. w
    BY <1>3
  <1>8. a \in Seq(Char) /\ Len(a) = n /\ \A i \in 1 .. n : a[i] = t[z - w + i]
    <2>1. /\ a \in Seq(Char) /\ Len(a) = IF 1 <= n THEN n - 1 + 1 ELSE 0
          /\ \A i \in 1 .. n - 1 + 1 : a[i] = s[1 + i - 1]
      BY <1>3, <1>4, <1>5, <1>7, SubSeqProperties
    <2>2. n - 1 + 1 = n /\ \A i \in 1 .. n : 1 + i - 1 = i
      BY <1>3
    <2>3. Len(a) = n /\ \A i \in 1 .. n : a[i] = s[i]
      BY <1>3, <2>1, <2>2
    <2> QED
      BY <1>4, <1>7, <2>1, <2>3
  <1>9. b \in Seq(Char) /\ Len(b) = w - n /\ \A i \in 1 .. w - n : b[i] = t[z - (w - n) + i]
    <2>1. PICK e \in Nat : e = n + 1
      BY <1>3
    <2>2. \A i \in e .. w : i \in 1 .. w
      BY <1>3, <2>1
    <2>3. b = SubSeq(s, e, w)
      BY <1>1, <1>6, <2>1
    <2>4. /\ b \in Seq(Char) /\ Len(b) = IF e <= w THEN w - e + 1 ELSE 0
          /\ \A i \in 1 .. w - e + 1 : b[i] = s[e + i - 1]
      BY <1>4, <2>2, <2>3, SubSeqProperties
    <2>5. w - e + 1 = w - n /\ (~(e <= w) => w - n = 0)
      BY <1>3, <2>1
    <2>6. \A i \in 1 .. w - n : /\ e + i - 1 \in 1 .. w
                                /\ z - w + (e + i - 1) = z - (w - n) + i
      BY <1>3, <2>1
    <2> QED
      BY <1>4, <2>4, <2>5, <2>6
  <1>10. EndOf(b, t)
    <2>1. w - n <= z
      BY <1>3
    <2> QED
      BY <1>2, <1>9, <2>1 DEF EndOf
  <1> QED
    BY <1>1, <1>2, <1>5, <1>6, <1>8, <1>9, <1>10

-----------------------------------------------------------------------------
(* The server's threads. *)

(* The lengths are numbers. *)
LEMMA Numbers ==
  ASSUME FlowOK
  PROVE  /\ order \in Seq(Messages) /\ Len(order) \in Nat
         /\ received \in Seq(Message) /\ Len(received) \in Nat /\ Len(received) <= Len(order)
         /\ socket \in Seq(Char) /\ Len(socket) \in Nat
         /\ \A k \in 1 .. Len(order) : order[k] \in Messages
         /\ at \in {"body", "payload"} => Len(received) + 1 \in 1 .. Len(order)
  <1>1. order \in Seq(Messages) /\ received \in Seq(Message) /\ socket \in Seq(Char)
    BY DEF FlowOK, TypeOK
  <1>2. Len(order) \in Nat /\ Len(received) \in Nat /\ Len(socket) \in Nat
    BY <1>1, LenProperties
  <1>3. Len(received) <= Len(order) /\ (at \in {"body", "payload"} => Len(received) < Len(order))
    BY DEF FlowOK, ReceiverOK
  <1>4. \A k \in 1 .. Len(order) : order[k] \in Messages
    BY <1>1, ElementOfSeq
  <1> QED
    BY <1>1, <1>2, <1>3, <1>4

(* SVRD_Client_sendMessage packs a message, of which all is left to send. *)
LEMMA BeginKeeps ==
  ASSUME IInv, NEW t \in Thread, NEW m \in Messages, Begin(t, m)
  PROVE  FlowOK'
  <1>1. /\ lock = NULL /\ lock' = t /\ order' = Append(order, m)
        /\ rest' = [rest EXCEPT ![t] = [body |-> Pack(m), payload |-> m.payload]]
        /\ UNCHANGED <<state, fd, socket, lost, at, length, message, received>>
    BY DEF Begin
  <1>2. FlowOK /\ t # NULL
    BY WireAssumption DEF IInv
  <1>3. PICK o \in Seq(Messages) : o = order
    BY <1>2, Numbers
  <1>4. PICK n \in Nat : n = Len(o)
    BY LenProperties
  <1>5. PICK r \in Nat : r = Len(received)
    BY <1>2, Numbers
  <1>6. r <= n /\ (at \in {"body", "payload"} => r + 1 \in 1 .. n)
    BY <1>2, <1>3, <1>4, <1>5, Numbers
  <1>7. PICK g \in [body : Seq(Char), payload : Seq(Char)] : g = [body |-> Pack(m), payload |-> m.payload]
    BY MessageFacts
  <1>8. /\ order' \in Seq(Messages) /\ Len(order') = n + 1 /\ order'[n + 1] = m
        /\ \A k \in 1 .. n : order'[k] = o[k]
    BY <1>1, <1>3, <1>4, AppendProperties
  <1>9. rest \in [Thread -> [body : Seq(Char), payload : Seq(Char)] \cup {NULL}]
    BY <1>2 DEF FlowOK, TypeOK
  <1>10. rest' \in [Thread -> [body : Seq(Char), payload : Seq(Char)] \cup {NULL}] /\ rest'[t] = g
    BY <1>1, <1>7, <1>9
  <1>11. TypeOK'
    BY <1>1, <1>2, <1>8, <1>10 DEF FlowOK, TypeOK
  <1>12. g.body = Pack(m) /\ g.payload = m.payload
    BY <1>7
  <1>13. SenderOK'
    <2>1. Sending(g, m)
      <3>1. \A s : Len(s) \in Nat => EndOf(s, s)
        BY DEF EndOf
      <3>2. Len(Pack(m)) \in Nat /\ Len(m.payload) \in Nat
        BY MessageFacts
      <3> QED
        BY <1>12, <3>1, <3>2 DEF Sending
    <2>2. order' # << >>
      BY <1>8, EmptySeq
    <2> QED
      BY <1>1, <1>8, <1>10, <2>1, <2>2 DEF SenderOK
  <1>14. ReceiverOK'
    <2>1. r <= n + 1 /\ (at \in {"body", "payload"} => r < n + 1)
      BY <1>6
    <2>2. \A k \in 1 .. r : k \in 1 .. n
      BY <1>6
    <2>3. \A k \in 1 .. r : received[k] = order'[k]
      BY <1>2, <1>3, <1>5, <1>8, <2>2 DEF FlowOK, ReceiverOK
    <2>4. at \in {"body", "payload"} => order'[r + 1] = order[r + 1]
      BY <1>3, <1>6, <1>8
    <2> QED
      BY <1>1, <1>2, <1>5, <1>8, <2>1, <2>3, <2>4 DEF FlowOK, ReceiverOK
  <1>15. SocketOK'
    <2> SUFFICES ASSUME at # "ended"
                 PROVE  SocketOK'
      BY <1>1 DEF SocketOK
    <2>1. PICK off \in [Nat -> Int] :
            /\ Placed(off, order, Len(received), socket)
            /\ off[Len(received) + 1] = Start
            /\ Len(socket) <= off[Len(order) + 1]
            /\ ~lost => Len(socket) + Left = off[Len(order) + 1]
      BY <1>2 DEF FlowOK, SocketOK
    <2>2. PICK s \in Seq(Char) : s = socket
      BY <1>2, Numbers
    <2>3. Placed(off, o, r, s) /\ r <= Len(o) /\ Len(s) <= off[Len(o) + 1]
      BY <1>3, <1>4, <1>5, <1>6, <2>1, <2>2
    <2>4. PICK d \in [Nat -> Int] :
            /\ Placed(d, Append(o, m), r, s)
            /\ d[r + 1] = off[r + 1] /\ d[Len(o) + 2] = off[Len(o) + 1] + Size(m)
      <3>1. \E d \in [Nat -> Int] : Extends(d, off, o, r, s, m)
        BY <2>3, ExtendPlaced
      <3> QED
        BY <3>1 DEF Extends
    <2>6. Start' = Start
      BY <1>1, <1>3, <1>5, <1>6, <1>8 DEF Start
    <2>7. Left = 0 /\ Left' = Size(m)
      BY <1>1, <1>2, <1>10, <1>12 DEF Left, Size
    <2>8. PICK x \in Int : x = off[n + 1]
      OBVIOUS
    <2>9. PICK z \in Nat : z = Size(m)
      BY MessageFacts
    <2>10. PICK w \in Nat : w = Len(s)
      BY LenProperties
    <2>11. d[n + 1 + 1] = x + z /\ n + 1 + 1 = n + 2
      BY <1>4, <2>4, <2>8, <2>9
    <2>12. w <= x /\ w <= x + z
      <3>1. w <= x
        BY <1>4, <2>3, <2>8, <2>10
      <3> QED
        BY <3>1
    <2>13. ~lost => w + z = x + z
      <3>1. ~lost => w + 0 = x
        BY <1>3, <1>4, <2>1, <2>2, <2>7, <2>8, <2>10
      <3> QED
        BY <3>1
    <2>14. /\ Placed(d, order', Len(received'), socket')
           /\ d[Len(received') + 1] = Start'
           /\ Len(socket') <= d[Len(order') + 1]
           /\ ~lost' => Len(socket') + Left' = d[Len(order') + 1]
      BY <1>1, <1>3, <1>5, <1>8, <2>1, <2>2, <2>4, <2>6, <2>7, <2>9, <2>10, <2>11, <2>12, <2>13
    <2> QED
      BY <2>14 DEF SocketOK
  <1> QED
    BY <1>11, <1>13, <1>14, <1>15 DEF FlowOK

(* The call of send that takes n cells of a part of the message. *)
LEMMA SendSomeKeeps ==
  ASSUME IInv, NEW t \in Thread, NEW part \in {"body", "payload"}, SendSome(t, part)
  PROVE  FlowOK'
  <1>1. /\ rest[t] # NULL /\ rest[t][part] # << >> /\ (part = "payload" => rest[t].body = << >>)
        /\ UNCHANGED <<state, lock, fd, order, lost, at, length, message, received>>
    BY DEF SendSome
  <1>2. PICK n \in 1 .. Len(rest[t][part]) :
          /\ rest' = [rest EXCEPT ![t][part] = SubSeq(@, n + 1, Len(@))]
          /\ socket' = IF lost THEN socket ELSE socket \o SubSeq(rest[t][part], 1, n)
    BY DEF SendSome
  <1>3. lock = t /\ t # NULL /\ FlowOK
    BY <1>1, WireAssumption DEF IInv, LockOK
  <1>4. rest \in [Thread -> [body : Seq(Char), payload : Seq(Char)] \cup {NULL}]
    BY <1>3 DEF FlowOK, TypeOK
  <1>5. PICK g \in [body : Seq(Char), payload : Seq(Char)] : g = rest[t]
    BY <1>1, <1>4
  <1>6. PICK q \in Nat \ {0} : q = Len(order)
    <2>1. order # << >>
      BY <1>3 DEF FlowOK, SenderOK
    <2> QED
      BY <1>3, <2>1, Numbers, EmptySeq
  <1>7. PICK m \in Messages : m = order[q]
    BY <1>3, <1>6, Numbers
  <1>8. Sending(g, m)
    BY <1>3, <1>5, <1>6, <1>7 DEF FlowOK, SenderOK
  <1>9. PICK P \in Nat : P = Len(Pack(m))
    BY MessageFacts
  <1>10. PICK Q \in Nat : Q = Len(m.payload)
    BY MessageFacts
  <1>11. PICK b \in Nat : b = Len(g.body)
    BY LenProperties
  <1>12. PICK p \in Nat : p = Len(g.payload)
    BY LenProperties
  <1>13. /\ b <= P /\ p <= Q /\ (b # 0 => p = Q)
         /\ EndOf(g.body, Pack(m)) /\ EndOf(g.payload, m.payload)
    <2>1. b # 0 => g.body # << >>
      BY <1>11
    <2> QED
      BY <1>8, <1>9, <1>10, <1>11, <1>12, <2>1 DEF Sending, EndOf
  <1>14. Size(m) = P + Q /\ Pack(m) \in Seq(Char) /\ m.payload \in Seq(Char)
    BY <1>9, <1>10, MessageFacts
  <1>15. PICK c : c = SubSeq(g[part], 1, n)
    OBVIOUS
  <1>16. PICK h : h = [g EXCEPT ![part] = SubSeq(g[part], n + 1, Len(g[part]))]
    OBVIOUS
  <1>17. rest' = [rest EXCEPT ![t] = h]
    BY <1>2, <1>4, <1>5, <1>16
  <1>18. /\ n \in Nat \ {0} /\ c \in Seq(Char) /\ Len(c) = n
         /\ h \in [body : Seq(Char), payload : Seq(Char)] /\ Sending(h, m)
         /\ Len(h.body) + Len(h.payload) = b + p - n /\ n <= b + p
         /\ \A i \in 1 .. n : c[i] = Cell(m, P + Q - (b + p) + i)
    <2>1. CASE part = "body"
      <3>1. n \in 1 .. Len(g.body) /\ n \in Nat \ {0} /\ n <= b /\ p = Q
        BY <1>2, <1>5, <1>11, <1>13, <2>1
      <3>2. PICK u : u = SubSeq(g.body, n + 1, Len(g.body))
        OBVIOUS
      <3>3. /\ u \in Seq(Char) /\ Len(u) = b - n /\ EndOf(u, Pack(m))
            /\ c \in Seq(Char) /\ Len(c) = n
            /\ \A i \in 1 .. n : c[i] = Pack(m)[P - b + i]
        <4>1. PICK v \in Seq(Char) : v = g.body
          OBVIOUS
        <4>2. PICK k \in Seq(Char) : k = Pack(m)
          BY <1>14
        <4>3. EndOf(v, k) /\ n \in 1 .. Len(v)
          BY <1>13, <3>1, <4>1, <4>2
        <4>4. /\ SubSeq(v, n + 1, Len(v)) \in Seq(Char)
              /\ Len(SubSeq(v, n + 1, Len(v))) = Len(v) - n
              /\ EndOf(SubSeq(v, n + 1, Len(v)), k)
              /\ SubSeq(v, 1, n) \in Seq(Char) /\ Len(SubSeq(v, 1, n)) = n
              /\ \A i \in 1 .. n : SubSeq(v, 1, n)[i] = k[Len(k) - Len(v) + i]
          BY <4>3, EndOfTail
        <4>5. u = SubSeq(v, n + 1, Len(v)) /\ c = SubSeq(v, 1, n)
          BY <1>15, <2>1, <3>2, <4>1
        <4>6. Len(v) = b /\ Len(k) = P
          BY <1>9, <1>11, <4>1, <4>2
        <4> QED
          BY <4>2, <4>4, <4>5, <4>6
      <3>4. h = [body |-> u, payload |-> g.payload]
        BY <1>16, <2>1, <3>2
      <3>5. h.body = u /\ h.payload = g.payload /\ h \in [body : Seq(Char), payload : Seq(Char)]
        BY <3>3, <3>4
      <3>6. Sending(h, m)
        BY <1>10, <1>12, <1>13, <3>1, <3>3, <3>5 DEF Sending
      <3>7. b - n + p = b + p - n /\ n <= b + p
        BY <3>1
      <3>8. ASSUME NEW i \in 1 .. n
            PROVE  c[i] = Cell(m, P + Q - (b + p) + i)
        <4>1. P + Q - (b + p) + i = P - b + i /\ P - b + i <= P
          BY <3>1
        <4> QED
          BY <1>9, <3>3, <4>1 DEF Cell
      <3> QED
        BY <1>12, <3>1, <3>3, <3>5, <3>6, <3>7, <3>8
    <2>2. CASE part = "payload"
      <3>1. n \in 1 .. Len(g.payload) /\ n \in Nat \ {0} /\ n <= p /\ g.body = << >> /\ b = 0
        BY <1>1, <1>2, <1>5, <1>11, <1>12, <2>2
      <3>2. PICK u : u = SubSeq(g.payload, n + 1, Len(g.payload))
        OBVIOUS
      <3>3. /\ u \in Seq(Char) /\ Len(u) = p - n /\ EndOf(u, m.payload)
            /\ c \in Seq(Char) /\ Len(c) = n
            /\ \A i \in 1 .. n : c[i] = m.payload[Q - p + i]
        <4>1. PICK v \in Seq(Char) : v = g.payload
          OBVIOUS
        <4>2. PICK k \in Seq(Char) : k = m.payload
          BY <1>14
        <4>3. EndOf(v, k) /\ n \in 1 .. Len(v)
          BY <1>13, <3>1, <4>1, <4>2
        <4>4. /\ SubSeq(v, n + 1, Len(v)) \in Seq(Char)
              /\ Len(SubSeq(v, n + 1, Len(v))) = Len(v) - n
              /\ EndOf(SubSeq(v, n + 1, Len(v)), k)
              /\ SubSeq(v, 1, n) \in Seq(Char) /\ Len(SubSeq(v, 1, n)) = n
              /\ \A i \in 1 .. n : SubSeq(v, 1, n)[i] = k[Len(k) - Len(v) + i]
          BY <4>3, EndOfTail
        <4>5. u = SubSeq(v, n + 1, Len(v)) /\ c = SubSeq(v, 1, n)
          BY <1>15, <2>2, <3>2, <4>1
        <4>6. Len(v) = p /\ Len(k) = Q
          BY <1>10, <1>12, <4>1, <4>2
        <4> QED
          BY <4>2, <4>4, <4>5, <4>6
      <3>4. h = [body |-> g.body, payload |-> u]
        BY <1>16, <2>2, <3>2
      <3>5. h.body = g.body /\ h.payload = u /\ h \in [body : Seq(Char), payload : Seq(Char)]
        BY <3>3, <3>4
      <3>6. Sending(h, m)
        BY <1>13, <3>1, <3>3, <3>5 DEF Sending
      <3>7. b + (p - n) = b + p - n /\ n <= b + p
        BY <3>1
      <3>8. ASSUME NEW i \in 1 .. n
            PROVE  c[i] = Cell(m, P + Q - (b + p) + i)
        <4>1. /\ P + Q - (b + p) + i = P + (Q - p + i) /\ ~(P + (Q - p + i) <= P)
              /\ P + (Q - p + i) - P = Q - p + i
          BY <1>13, <3>1
        <4>2. Cell(m, P + (Q - p + i)) = m.payload[P + (Q - p + i) - P]
          BY <1>9, <4>1 DEF Cell
        <4>3. c[i] = m.payload[Q - p + i]
          BY <3>3
        <4> QED
          BY <4>1, <4>2, <4>3
      <3> QED
        BY <1>11, <3>1, <3>3, <3>5, <3>6, <3>7, <3>8
    <2> QED
      BY <2>1, <2>2
  <1>19. rest' \in [Thread -> [body : Seq(Char), payload : Seq(Char)] \cup {NULL}] /\ rest'[t] = h
    BY <1>4, <1>17, <1>18
  <1>20. socket' = IF lost THEN socket ELSE socket \o c
    BY <1>2, <1>5, <1>15
  <1>21. socket' \in Seq(Char)
    BY <1>3, <1>18, <1>20, Numbers, ConcatProperties
  <1>22. TypeOK'
    BY <1>1, <1>3, <1>19, <1>21 DEF FlowOK, TypeOK
  <1>23. SenderOK'
    BY <1>1, <1>3, <1>6, <1>7, <1>18, <1>19 DEF FlowOK, SenderOK
  <1>24. ReceiverOK'
    BY <1>1, <1>3 DEF FlowOK, ReceiverOK
  <1>25. Left = b + p /\ Left' = b + p - n
    BY <1>1, <1>3, <1>5, <1>11, <1>12, <1>18, <1>19 DEF Left
  <1>26. SocketOK'
    <2> SUFFICES ASSUME at # "ended"
                 PROVE  SocketOK'
      BY <1>1 DEF SocketOK
    <2>1. PICK off \in [Nat -> Int] :
            /\ Placed(off, order, Len(received), socket)
            /\ off[Len(received) + 1] = Start
            /\ Len(socket) <= off[Len(order) + 1]
            /\ ~lost => Len(socket) + Left = off[Len(order) + 1]
      BY <1>3 DEF FlowOK, SocketOK
    <2>2. Start' = Start
      BY <1>1 DEF Start
    <2>3. CASE lost
      <3>1. socket' = socket /\ lost'
        BY <1>1, <1>20, <2>3
      <3> QED
        BY <1>1, <2>1, <2>2, <3>1 DEF SocketOK
    <2>4. CASE ~lost
      <3>1. PICK s \in Seq(Char) : s = socket
        BY <1>3, Numbers
      <3>2. PICK w \in Nat : w = Len(s)
        BY LenProperties
      <3>3. PICK r \in Nat : r = Len(received)
        BY <1>3, Numbers
      <3>4. PICK o \in Seq(Messages) : o = order
        BY <1>3, Numbers
      <3>5. PICK x \in Int : x = off[q + 1]
        OBVIOUS
      <3>6. w + (b + p) = x
        BY <1>6, <1>25, <2>1, <2>4, <3>1, <3>2, <3>5
      <3>7. r < q
        <4>1. r <= q /\ (at = "payload" => r < q)
          BY <1>3, <1>6, <3>3 DEF FlowOK, ReceiverOK
        <4>2. ASSUME r = q PROVE FALSE
          <5>1. x = 0
            BY <2>1, <3>3, <3>5, <4>1, <4>2 DEF Start
          <5> QED
            BY <1>18, <3>6, <5>1
        <4> QED
          BY <4>1, <4>2
      <3>8. PICK y \in Int : y = off[q]
        OBVIOUS
      <3>9. x = y + (P + Q)
        <4>1. q \in r + 1 .. q
          BY <3>7
        <4>2. off[q + 1] = off[q] + Size(order[q])
          BY <1>6, <2>1, <3>3, <4>1 DEF Placed
        <4> QED
          BY <1>7, <1>14, <3>5, <3>8, <4>2
      <3>10. PICK j \in Nat : j = P + Q - (b + p)
        BY <1>13
      <3>11. w = y + j /\ j + n <= P + Q
        BY <1>18, <3>6, <3>9, <3>10
      <3>12. /\ Placed(off, o, r, s) /\ r < Len(o) /\ Len(s) = off[Len(o)] + j
             /\ j + Len(c) <= Size(o[Len(o)])
             /\ \A i \in 1 .. Len(c) : c[i] = Cell(o[Len(o)], j + i)
        BY <1>6, <1>7, <1>14, <1>18, <2>1, <3>1, <3>2, <3>3, <3>4, <3>7, <3>8, <3>10, <3>11
      <3>13. Placed(off, o, r, s \o c)
        BY <1>18, <3>12, SendPlaced
      <3>14. socket' = s \o c /\ Len(s \o c) = w + n
        <4>1. Len(c) = n /\ c \in Seq(Char)
          BY <1>18
        <4>2. Len(s \o c) = Len(s) + Len(c)
          BY <4>1, ConcatProperties
        <4> QED
          BY <1>20, <2>4, <3>1, <3>2, <4>1, <4>2
      <3>15. w + n <= x /\ w + n + (b + p - n) = x
        BY <1>18, <3>6
      <3>16. /\ Placed(off, order', Len(received'), socket')
             /\ off[Len(received') + 1] = Start'
             /\ Len(socket') <= off[Len(order') + 1]
             /\ ~lost' => Len(socket') + Left' = off[Len(order') + 1]
        BY <1>1, <1>6, <1>25, <2>1, <2>2, <3>3, <3>4, <3>5, <3>13, <3>14, <3>15
      <3> QED
        BY <3>16 DEF SocketOK
    <2> QED
      BY <2>3, <2>4
  <1> QED
    BY <1>22, <1>23, <1>24, <1>26 DEF FlowOK

(* A send ends; the client is closed; the connection breaks. *)
LEMMA OtherKeeps ==
  ASSUME IInv, (\E t \in Thread : EndSend(t)) \/ MarkForClosing \/ CloseSocket \/ Lose
  PROVE  FlowOK'
  <1>1. FlowOK /\ LockOK
    BY DEF IInv
  <1>2. /\ UNCHANGED <<order, at, length, message, received>>
        /\ state' \in {"CONNECTED", "CLOSED"} /\ fd' \in {"open", "closed"} /\ lost' \in BOOLEAN
        /\ rest' \in [Thread -> [body : Seq(Char), payload : Seq(Char)] \cup {NULL}]
        /\ lock' = NULL \/ UNCHANGED <<lock, rest>>
        /\ (socket' = socket /\ lost' = lost)
           \/ (lost' /\ \E n \in 0 .. Len(socket) : socket' = SubSeq(socket, 1, n))
        /\ ~lost' => Left' = Left
    <2>1. ASSUME NEW t \in Thread, EndSend(t)
          PROVE  <1>2
      <3>1. /\ rest[t] # NULL /\ rest' = [rest EXCEPT ![t] = NULL] /\ lock = t /\ lock' = NULL
            /\ lost \/ (rest[t].body = << >> /\ rest[t].payload = << >>)
            /\ UNCHANGED <<state, fd, order, socket, lost, at, length, message, received>>
        BY <1>1, <2>1 DEF EndSend, LockOK
      <3>2. ~lost => Left = 0
        <4>1. ~lost => Len(rest[lock].body) = 0 /\ Len(rest[lock].payload) = 0
          BY <3>1
        <4>2. lock # NULL
          BY <3>1, WireAssumption
        <4>3. Left = Len(rest[lock].body) + Len(rest[lock].payload)
          BY <4>2 DEF Left
        <4> SUFFICES ASSUME ~lost
                     PROVE  Left = 0
          OBVIOUS
        <4>4. Len(rest[lock].body) = 0 /\ Len(rest[lock].payload) = 0
          BY <4>1
        <4>5. PICK a \in Nat : a = Len(rest[lock].body)
          BY <4>4
        <4>6. PICK b \in Nat : b = Len(rest[lock].payload)
          BY <4>4
        <4>7. Left = a + b /\ a = 0 /\ b = 0
          BY <4>3, <4>4, <4>5, <4>6
        <4>8. a + b = 0
          BY <4>7
        <4> QED
          BY <4>7, <4>8
      <3>3. Left' = 0
        BY <3>1 DEF Left
      <3>4. rest' \in [Thread -> [body : Seq(Char), payload : Seq(Char)] \cup {NULL}]
        BY <1>1, <3>1 DEF FlowOK, TypeOK
      <3> QED
        BY <1>1, <3>1, <3>2, <3>3, <3>4 DEF FlowOK, TypeOK
    <2>2. CASE MarkForClosing
      BY <1>1, <2>2 DEF MarkForClosing, FlowOK, TypeOK, Left
    <2>3. CASE CloseSocket
      BY <1>1, <2>3 DEF CloseSocket, FlowOK, TypeOK, Left
    <2>4. CASE Lose
      BY <1>1, <2>4 DEF Lose, FlowOK, TypeOK, Left
    <2> QED
      BY <2>1, <2>2, <2>3, <2>4
  <1>3. lock' \in Thread \cup {NULL}
    BY <1>1, <1>2 DEF LockOK
  <1>4. PICK s \in Seq(Char) : s = socket
    BY <1>1, Numbers
  <1>5. PICK w \in Nat : w = Len(s)
    BY LenProperties
  <1>6. PICK o \in Seq(Messages) : o = order
    BY <1>1, Numbers
  <1>7. PICK r \in Nat : r = Len(received)
    BY <1>1, Numbers
  <1>8. PICK t : t = socket'
    OBVIOUS
  <1>9. /\ t \in Seq(Char) /\ Len(t) \in Nat /\ Len(t) <= w /\ (~lost' => t = s)
        /\ \A off \in [Nat -> Int] : Placed(off, o, r, s) => Placed(off, o, r, t)
    <2>1. CASE socket' = socket /\ lost' = lost
      BY <1>4, <1>5, <1>8, <2>1
    <2>2. CASE lost' /\ \E n \in 0 .. Len(socket) : socket' = SubSeq(socket, 1, n)
      <3>1. PICK n \in 0 .. Len(s) : t = SubSeq(s, 1, n)
        BY <1>4, <1>8, <2>2
      <3>2. n \in Nat /\ n <= w
        BY <1>5
      <3>3. ASSUME NEW off \in [Nat -> Int], Placed(off, o, r, s)
            PROVE  Placed(off, o, r, t)
        BY <3>1, <3>3, CutPlaced
      <3>4. t \in Seq(Char) /\ Len(t) = n
        <4>1. \A i \in 1 .. n : s[i] \in Char
          BY <1>5, <3>2, ElementOfSeq
        <4>2. t \in Seq(Char) /\ Len(t) = IF 1 <= n THEN n - 1 + 1 ELSE 0
          BY <3>1, <3>2, <4>1, SubSeqProperties
        <4> QED
          BY <3>2, <4>2
      <3> QED
        BY <2>2, <3>2, <3>3, <3>4
    <2> QED
      BY <1>2, <2>1, <2>2
  <1>10. TypeOK'
    BY <1>1, <1>2, <1>3, <1>8, <1>9 DEF FlowOK, TypeOK
  <1>11. SenderOK'
    BY <1>1, <1>2 DEF FlowOK, SenderOK
  <1>12. ReceiverOK'
    BY <1>1, <1>2 DEF FlowOK, ReceiverOK
  <1>13. SocketOK'
    <2> SUFFICES ASSUME at # "ended"
                 PROVE  SocketOK'
      BY <1>2 DEF SocketOK
    <2>1. PICK off \in [Nat -> Int] :
            /\ Placed(off, order, Len(received), socket)
            /\ off[Len(received) + 1] = Start
            /\ Len(socket) <= off[Len(order) + 1]
            /\ ~lost => Len(socket) + Left = off[Len(order) + 1]
      BY <1>1 DEF FlowOK, SocketOK
    <2>2. Start' = Start
      BY <1>2 DEF Start
    <2>3. Placed(off, o, r, t)
      BY <1>4, <1>6, <1>7, <1>9, <2>1
    <2>4. PICK x \in Int : x = off[Len(order) + 1]
      BY <1>1, Numbers
    <2>5. Len(t) <= x
      BY <1>4, <1>5, <1>9, <2>1, <2>4
    <2>6. ~lost' => ~lost /\ socket' = socket /\ Left' = Left
      BY <1>2
    <2>7. ~lost' => Len(socket') + Left' = x
      BY <2>1, <2>4, <2>6
    <2>8. /\ Placed(off, order', Len(received'), socket')
          /\ off[Len(received') + 1] = Start'
          /\ Len(socket') <= off[Len(order') + 1]
          /\ ~lost' => Len(socket') + Left' = off[Len(order') + 1]
      BY <1>2, <1>6, <1>7, <1>8, <2>1, <2>2, <2>3, <2>4, <2>5, <2>7
    <2> QED
      BY <2>8 DEF SocketOK
  <1> QED
    BY <1>10, <1>11, <1>12, <1>13 DEF FlowOK

-----------------------------------------------------------------------------
(* The receive thread. *)

(* The cells at the beginning of the socket are those of the next message. *)
LEMMA NextCells ==
  ASSUME FlowOK, at # "ended", Len(received) < Len(order),
         NEW i \in Nat, i > 0, i <= Len(socket), NEW j \in Nat, j = i - Start,
         j <= Size(order[Len(received) + 1])
  PROVE  socket[i] = Cell(order[Len(received) + 1], j)
  <1>1. PICK off \in [Nat -> Int] :
          /\ Placed(off, order, Len(received), socket)
          /\ off[Len(received) + 1] = Start
    BY DEF FlowOK, SocketOK
  <1>2. PICK r \in Nat : r = Len(received)
    BY Numbers
  <1>3. PICK n \in Nat : n = Len(order)
    BY Numbers
  <1>4. PICK m \in Messages : m = order[r + 1]
    <2>1. r + 1 \in 1 .. Len(order)
      BY <1>2, <1>3
    <2> QED
      BY <1>2, <2>1, Numbers
  <1>5. PICK w \in Nat : w = Len(socket)
    BY Numbers
  <1>6. PICK x \in Int : x = Start
    <2>1. Len(Pack(m)) \in Nat
      BY MessageFacts
    <2> QED
      BY <1>2, <1>4, <2>1 DEF Start
  <1>7. PICK z \in Nat : z = Size(m)
    BY MessageFacts
  <1>8. x <= 0
    <2>1. Len(Pack(m)) \in Nat
      BY MessageFacts
    <2> QED
      BY <1>2, <1>4, <1>6, <2>1 DEF Start
  <1>9. j \in 1 .. z /\ x + j = i /\ i \in 1 .. w /\ r + 1 \in r + 1 .. n
    BY <1>2, <1>3, <1>4, <1>5, <1>6, <1>7, <1>8
  <1>10. off[r + 1] + j \in 1 .. Len(socket) => socket[off[r + 1] + j] = Cell(order[r + 1], j)
    BY <1>1, <1>2, <1>3, <1>4, <1>7, <1>9 DEF Placed
  <1>11. off[r + 1] + j = i
    BY <1>1, <1>2, <1>6, <1>9
  <1> QED
    BY <1>2, <1>5, <1>9, <1>10, <1>11

(* The length is peeked at: it is that of the next message. *)
LEMMA PeekLengthKeeps ==
  ASSUME IInv, PeekLength
  PROVE  FlowOK'
  <1>1. /\ at = "length" /\ Len(socket) >= 1 /\ length' = socket[1] /\ at' = "body"
        /\ UNCHANGED <<state, lock, fd, rest, order, socket, lost, message, received>>
    BY DEF PeekLength, Available
  <1>2. FlowOK
    BY DEF IInv
  <1>3. Start = 0 /\ Start' = 0
    BY <1>1 DEF Start
  <1>4. Len(received) < Len(order)
    <2>1. PICK off \in [Nat -> Int] : /\ off[Len(received) + 1] = Start
                                      /\ Len(socket) <= off[Len(order) + 1]
      BY <1>1, <1>2 DEF FlowOK, SocketOK
    <2>2. Len(received) # Len(order)
      BY <1>1, <1>2, <1>3, <2>1, Numbers
    <2> QED
      BY <1>2, <2>2, Numbers
  <1>5. PICK m \in Messages : m = order[Len(received) + 1]
    <2>1. Len(received) + 1 \in 1 .. Len(order)
      BY <1>2, <1>4, Numbers
    <2> QED
      BY <1>2, <2>1, Numbers
  <1>6. socket[1] = Pack(m)[1]
    <2>1. 1 <= Len(Pack(m)) /\ 1 <= Size(m)
      BY MessageFacts
    <2>2. socket[1] = Cell(order[Len(received) + 1], 1)
      <3>1. /\ 1 \in Nat /\ 1 > 0 /\ 1 <= Len(socket) /\ 1 = 1 - Start
            /\ 1 <= Size(order[Len(received) + 1])
        BY <1>1, <1>2, <1>3, <1>5, <2>1, Numbers
      <3> QED
        BY <1>1, <1>2, <1>4, <3>1, NextCells
    <2> QED
      BY <1>5, <2>1, <2>2 DEF Cell
  <1>7. length' \in Char
    <2>1. 1 \in 1 .. Len(socket)
      BY <1>1, <1>2, Numbers
    <2> QED
      BY <1>1, <1>2, <2>1, Numbers, ElementOfSeq
  <1>8. TypeOK'
    BY <1>1, <1>2, <1>7 DEF FlowOK, TypeOK
  <1>9. SenderOK'
    BY <1>1, <1>2 DEF FlowOK, SenderOK
  <1>10. ReceiverOK'
    BY <1>1, <1>2, <1>4, <1>5, <1>6 DEF FlowOK, ReceiverOK
  <1>11. Left' = Left
    BY <1>1 DEF Left
  <1>12. SocketOK'
    BY <1>1, <1>2, <1>3, <1>11 DEF FlowOK, SocketOK
  <1> QED
    BY <1>8, <1>9, <1>10, <1>12 DEF FlowOK

(* What is received of the next message, up to its body or its end. *)
LEMMA TakeKeeps ==
  ASSUME IInv, at # "ended", at' # "ended", Len(received) < Len(order),
         NEW c \in Nat, c <= Len(socket),
         socket' = SubSeq(socket, c + 1, Len(socket)),
         UNCHANGED <<state, lock, fd, rest, order, lost, length>>,
         message' \in Packed \cup {NULL}, at' \in {"length", "body", "payload", "ended"},
         \/ /\ received' = received /\ Start' = Start - c
         \/ /\ received' = Append(received, order[Len(received) + 1]) /\ Start' = 0
            /\ c = Start + Size(order[Len(received) + 1])
  PROVE  TypeOK' /\ SenderOK' /\ SocketOK'
  <1>1. FlowOK
    BY DEF IInv
  <1>2. PICK r \in Nat : r = Len(received)
    BY <1>1, Numbers
  <1>3. PICK n \in Nat : n = Len(order)
    BY <1>1, Numbers
  <1>4. PICK m \in Messages : m = order[r + 1]
    <2>1. r + 1 \in 1 .. Len(order)
      BY <1>2, <1>3
    <2> QED
      BY <1>1, <2>1, Numbers
  <1>5. PICK s \in Seq(Char) : s = socket
    BY <1>1, Numbers
  <1>6. PICK w \in Nat : w = Len(s)
    BY LenProperties
  <1>7. PICK o \in Seq(Messages) : o = order
    BY <1>1, Numbers
  <1>8. PICK off \in [Nat -> Int] :
          /\ Placed(off, order, Len(received), socket)
          /\ off[Len(received) + 1] = Start
          /\ Len(socket) <= off[Len(order) + 1]
          /\ ~lost => Len(socket) + Left = off[Len(order) + 1]
    BY <1>1 DEF FlowOK, SocketOK
  <1>9. PICK t : t = SubSeq(s, c + 1, Len(s))
    OBVIOUS
  <1>10. Placed(off, o, r, s) /\ c \in 0 .. Len(s)
    BY <1>2, <1>5, <1>6, <1>7, <1>8
  <1>11. Shifted(off, o, r, w, c, t)
    <2>1. PICK e \in 0 .. Len(s) : e = c
      BY <1>10
    <2>2. Placed(off, o, r, s) /\ t = SubSeq(s, e + 1, Len(s))
      BY <1>9, <1>10, <2>1
    <2>3. Shifted(off, o, r, Len(s), e, t)
      BY <2>2, ShiftKeeps
    <2> QED
      BY <1>6, <2>1, <2>3
  <1>12. PICK d \in [Nat -> Int] : Placed(d, o, r, t) /\ \A k \in Nat : d[k] = off[k] - c
    BY <1>11 DEF Shifted
  <1>13. socket' = t /\ t \in Seq(Char) /\ Len(t) = w - c
    BY <1>5, <1>9, <1>11 DEF Shifted
  <1>14. received' \in Seq(Message)
    <2>1. m \in Message /\ received \in Seq(Message)
      BY <1>1, MessageFacts, Numbers
    <2>2. Append(received, m) \in Seq(Message)
      BY <2>1, AppendProperties
    <2> QED
      BY <1>2, <1>4, <2>1, <2>2
  <1>15. TypeOK'
    BY <1>1, <1>13, <1>14 DEF FlowOK, TypeOK
  <1>16. SenderOK'
    BY <1>1 DEF FlowOK, SenderOK
  <1>17. PICK x \in Int : x = off[n + 1]
    OBVIOUS
  <1>18. PICK y \in Int : y = off[r + 1]
    OBVIOUS
  <1>19. d[n + 1] = x - c /\ d[r + 1] = y - c /\ y = Start
    BY <1>2, <1>8, <1>12, <1>17, <1>18
  <1>20. w <= x /\ w - c <= x - c
    <2>1. w <= x
      BY <1>3, <1>5, <1>6, <1>8, <1>17
    <2> QED
      BY <2>1
  <1>21. Left' = Left /\ Left \in Int
    <2>1. Left' = Left
      BY DEF Left
    <2>2. Left \in Int
      <3>1. lock # NULL => rest[lock] \in [body : Seq(Char), payload : Seq(Char)]
        BY <1>1 DEF FlowOK, SenderOK
      <3>2. lock # NULL => Len(rest[lock].body) \in Nat /\ Len(rest[lock].payload) \in Nat
        BY <3>1, LenProperties
      <3> QED
        BY <3>2 DEF Left
    <2> QED
      BY <2>1, <2>2
  <1>22. ~lost => w - c + Left = x - c
    <2>1. ~lost => w + Left = x
      BY <1>3, <1>5, <1>6, <1>8, <1>17
    <2> QED
      BY <1>21, <2>1
  <1>23. SocketOK'
    <2>1. CASE received' = received /\ Start' = Start - c
      <3>1. /\ Placed(d, order', Len(received'), socket')
            /\ d[Len(received') + 1] = Start'
            /\ Len(socket') <= d[Len(order') + 1]
            /\ ~lost' => Len(socket') + Left' = d[Len(order') + 1]
        BY <1>2, <1>3, <1>7, <1>12, <1>13, <1>19, <1>20, <1>21, <1>22, <2>1
      <3> QED
        BY <3>1 DEF SocketOK
    <2>2. CASE /\ received' = Append(received, order[Len(received) + 1]) /\ Start' = 0
               /\ c = Start + Size(order[Len(received) + 1])
      <3>1. Len(received') = r + 1
        <4>1. received \in Seq(Message) /\ m \in Message
          BY <1>1, MessageFacts, Numbers
        <4>2. Len(Append(received, m)) = r + 1
          BY <1>2, <4>1, AppendProperties
        <4> QED
          BY <1>2, <1>4, <2>2, <4>2
      <3>2. Placed(d, o, r + 1, t)
        BY <1>3, <1>7, <1>12, NextPlaced
      <3>3. PICK z \in Nat : z = Size(m)
        BY MessageFacts
      <3>4. d[r + 1 + 1] = 0
        <4>1. r + 1 \in r + 1 .. Len(o)
          BY <1>2, <1>3, <1>7
        <4>2. d[r + 1 + 1] = d[r + 1] + Size(o[r + 1])
          BY <1>12, <4>1 DEF Placed
        <4>3. d[r + 1 + 1] = y - c + z
          BY <1>4, <1>7, <1>19, <3>3, <4>2
        <4>4. c = y + z
          BY <1>2, <1>4, <1>19, <2>2, <3>3
        <4> QED
          BY <4>3, <4>4
      <3>5. /\ Placed(d, order', Len(received'), socket')
            /\ d[Len(received') + 1] = Start'
            /\ Len(socket') <= d[Len(order') + 1]
            /\ ~lost' => Len(socket') + Left' = d[Len(order') + 1]
        BY <1>3, <1>7, <1>13, <1>19, <1>20, <1>21, <1>22, <2>2, <3>1, <3>2, <3>4
      <3> QED
        BY <3>5 DEF SocketOK
    <2> QED
      BY <2>1, <2>2
  <1> QED
    BY <1>15, <1>16, <1>23

(* As much of the beginning of a sequence as another is long. *)
LEMMA FrontIs ==
  ASSUME NEW s \in Seq(Char), NEW u \in Seq(Char), Len(u) <= Len(s),
         \A i \in 1 .. Len(u) : s[i] = u[i]
  PROVE  SubSeq(s, 1, Len(u)) = u
  <1>1. PICK w \in Nat : w = Len(s)
    BY LenProperties
  <1>2. PICK n \in Nat : n = Len(u)
    BY LenProperties
  <1>3. PICK v : v = SubSeq(s, 1, n)
    OBVIOUS
  <1>4. \A i \in 1 .. n : s[i] \in Char
    BY <1>2, ElementOfSeq
  <1>5. /\ v \in Seq(Char) /\ Len(v) = IF 1 <= n THEN n - 1 + 1 ELSE 0
        /\ \A i \in 1 .. n - 1 + 1 : v[i] = s[1 + i - 1]
    BY <1>3, <1>4, SubSeqProperties
  <1>6. n - 1 + 1 = n /\ (~(1 <= n) => n = 0) /\ \A i \in 1 .. n : 1 + i - 1 = i
    OBVIOUS
  <1>7. Len(v) = n /\ \A i \in 1 .. n : v[i] = s[i]
    BY <1>5, <1>6
  <1>8. \A i \in 1 .. Len(v) : v[i] = u[i]
    BY <1>2, <1>7
  <1>9. v = u
    BY <1>2, <1>5, <1>7, <1>8, SeqEqual
  <1> QED
    BY <1>2, <1>3, <1>9

(* The receiver gets the next message. *)
LEMMA DeliverKeeps ==
  ASSUME FlowOK, Len(received) < Len(order), order' = order, at' = "length",
         received' = Append(received, order[Len(received) + 1])
  PROVE  ReceiverOK'
  <1>1. PICK r \in Nat : r = Len(received)
    BY Numbers
  <1>2. PICK n \in Nat : n = Len(order)
    BY Numbers
  <1>3. PICK m \in Messages : m = order[r + 1]
    <2>1. r + 1 \in 1 .. Len(order)
      BY <1>1, <1>2
    <2> QED
      BY <2>1, Numbers
  <1>4. received \in Seq(Message) /\ m \in Message
    BY Numbers, MessageFacts
  <1>5. /\ Len(received') = r + 1 /\ received'[r + 1] = m
        /\ \A k \in 1 .. r : received'[k] = received[k]
    BY <1>1, <1>3, <1>4, AppendProperties
  <1>6. \A k \in 1 .. r : received[k] = order[k]
    BY <1>1 DEF FlowOK, ReceiverOK
  <1>7. \A k \in 1 .. r + 1 : k \in 1 .. r \/ k = r + 1
    OBVIOUS
  <1>8. \A k \in 1 .. r + 1 : received'[k] = order[k]
    BY <1>3, <1>5, <1>6, <1>7
  <1>9. r + 1 <= n
    BY <1>1, <1>2
  <1> QED
    BY <1>2, <1>5, <1>8, <1>9 DEF ReceiverOK

(* As much as the length says, and the header, is the next message's body. *)
LEMMA BodyArrived ==
  ASSUME IInv, at = "body", Available(Prefix + length)
  PROVE  /\ Len(received) < Len(order) /\ order[Len(received) + 1] \in Messages
         /\ Prefix + length = Len(Pack(order[Len(received) + 1]))
         /\ SubSeq(socket, 1, Prefix + length) = Pack(order[Len(received) + 1])
  <1>1. FlowOK
    BY DEF IInv
  <1>2. Len(received) < Len(order) /\ length = Pack(order[Len(received) + 1])[1]
    BY <1>1 DEF FlowOK, ReceiverOK
  <1>3. PICK m \in Messages : m = order[Len(received) + 1]
    <2>1. Len(received) + 1 \in 1 .. Len(order)
      BY <1>1, Numbers
    <2> QED
      BY <1>1, <2>1, Numbers
  <1>4. PICK P \in Nat : P = Len(Pack(m))
    BY MessageFacts
  <1>5. Prefix + length = P
    BY <1>2, <1>3, <1>4, MessageFacts
  <1>6. PICK s \in Seq(Char) : s = socket
    BY <1>1, Numbers
  <1>7. PICK w \in Nat : w = Len(s)
    BY LenProperties
  <1>8. P <= w
    BY <1>5, <1>6, <1>7 DEF Available
  <1>9. PICK Q \in Nat : Q = Len(m.payload) /\ Size(m) = P + Q
    BY <1>4, MessageFacts
  <1>10. ASSUME NEW i \in 1 .. P
         PROVE  s[i] = Pack(m)[i]
    <2>1. i \in Nat /\ i > 0 /\ i <= w /\ i <= P /\ i <= P + Q /\ i = i - 0
      BY <1>8
    <2>2. Start = 0
      BY DEF Start
    <2>3. /\ i \in Nat /\ i > 0 /\ i <= Len(socket) /\ i = i - Start
          /\ i <= Size(order[Len(received) + 1]) /\ at # "ended"
      BY <1>3, <1>6, <1>7, <1>9, <2>1, <2>2
    <2>4. socket[i] = Cell(order[Len(received) + 1], i)
      BY <1>1, <1>2, <2>3, NextCells
    <2> QED
      BY <1>3, <1>4, <1>6, <2>1, <2>4 DEF Cell
  <1>11. PICK u \in Seq(Char) : u = Pack(m)
    BY MessageFacts
  <1>12. Len(u) <= Len(s) /\ \A i \in 1 .. Len(u) : s[i] = u[i]
    BY <1>4, <1>7, <1>8, <1>10, <1>11
  <1>13. SubSeq(s, 1, Len(u)) = u
    BY <1>12, FrontIs
  <1> QED
    BY <1>2, <1>3, <1>4, <1>5, <1>6, <1>11, <1>13

(* The body is received: the payload follows it, or the message is complete. *)
LEMMA ReceiveBodyKeeps ==
  ASSUME IInv, ReceiveBody
  PROVE  FlowOK'
  <1>1. /\ at = "body" /\ Available(Prefix + length)
        /\ socket' = SubSeq(socket, Prefix + length + 1, Len(socket))
        /\ UNCHANGED <<state, lock, fd, rest, order, lost, length>>
    BY DEF ReceiveBody
  <1>2. FlowOK
    BY DEF IInv
  <1>3. PICK m \in Messages : m = order[Len(received) + 1]
    BY <1>1, BodyArrived
  <1>4. PICK P \in Nat : P = Len(Pack(m))
    BY MessageFacts
  <1>5. PICK Q \in Nat : Q = Len(m.payload) /\ Size(m) = P + Q
    BY <1>4, MessageFacts
  <1>6. /\ Len(received) < Len(order) /\ Prefix + length = P
        /\ SubSeq(socket, 1, Prefix + length) = Pack(m)
    BY <1>1, <1>3, <1>4, BodyArrived
  <1>7. PICK u \in Packed : u = Unpack(Pack(m))
    BY MessageFacts
  <1>8. u.request_id = m.request_id /\ u.components = m.components /\ u.payload_size = Q
    BY <1>5, <1>7, MessageFacts
  <1>9. IF u.payload_size > 0
          THEN at' = "payload" /\ message' = u /\ received' = received
          ELSE /\ received' = Append(received, [request_id |-> u.request_id,
                                               components |-> u.components, payload |-> << >>])
               /\ at' = "length" /\ message' = message
    BY <1>6, <1>7 DEF ReceiveBody, Deliver
  <1>10. Start = 0 /\ at # "ended"
    BY <1>1 DEF Start
  <1>11. /\ P <= Len(socket) /\ socket' = SubSeq(socket, P + 1, Len(socket))
    <2>1. Len(socket) \in Nat
      BY <1>2, Numbers
    <2> QED
      BY <1>1, <1>6, <2>1 DEF Available
  <1>12. message \in Packed \cup {NULL}
    BY <1>2 DEF FlowOK, TypeOK
  <1>13. CASE Q > 0
    <2>1. at' = "payload" /\ message' = u /\ received' = received
      BY <1>8, <1>9, <1>13
    <2>2. Start' = 0 - P
      BY <1>1, <1>3, <1>4, <2>1 DEF Start
    <2>3. Start' = Start - P
      BY <1>10, <2>2
    <2>4. /\ message' \in Packed \cup {NULL} /\ at' # "ended"
          /\ at' \in {"length", "body", "payload", "ended"}
          /\ received' = received /\ Start' = Start - P
      BY <2>1, <2>3
    <2>5. TypeOK' /\ SenderOK' /\ SocketOK'
      BY <1>1, <1>6, <1>10, <1>11, <2>4, TakeKeeps
    <2>6. ReceiverOK'
      BY <1>1, <1>2, <1>3, <1>6, <1>7, <2>1 DEF FlowOK, ReceiverOK
    <2> QED
      BY <2>5, <2>6 DEF FlowOK
  <1>14. CASE ~(Q > 0)
    <2>1. /\ at' = "length" /\ message' = message
          /\ received' = Append(received, [request_id |-> u.request_id,
                                          components |-> u.components, payload |-> << >>])
      BY <1>8, <1>9, <1>14
    <2>2. m.payload = << >> /\ Q = 0
      <3>1. Q = 0
        BY <1>14
      <3>2. m.payload \in Seq(Char)
        BY MessageFacts
      <3> QED
        BY <1>5, <3>1, <3>2, EmptySeq
    <2>3. m = [request_id |-> m.request_id, components |-> m.components, payload |-> m.payload]
      BY MessageFacts DEF Message
    <2>4. received' = Append(received, m)
      BY <1>8, <2>1, <2>2, <2>3
    <2>5. Start' = 0
      BY <2>1 DEF Start
    <2>6. P = Start + Size(m)
      BY <1>5, <1>10, <2>2
    <2>7. /\ message' \in Packed \cup {NULL} /\ at' # "ended"
          /\ at' \in {"length", "body", "payload", "ended"}
          /\ received' = Append(received, order[Len(received) + 1]) /\ Start' = 0
          /\ P = Start + Size(order[Len(received) + 1])
      BY <1>3, <1>12, <2>1, <2>4, <2>5, <2>6
    <2>8. TypeOK' /\ SenderOK' /\ SocketOK'
      BY <1>1, <1>6, <1>10, <1>11, <2>7, TakeKeeps
    <2>9. ReceiverOK'
      BY <1>1, <1>2, <1>6, <2>1, <2>7, DeliverKeeps
    <2> QED
      BY <2>8, <2>9 DEF FlowOK
  <1> QED
    BY <1>13, <1>14

(* The payload is received, and the message is complete. *)
LEMMA ReceivePayloadKeeps ==
  ASSUME IInv, ReceivePayload
  PROVE  FlowOK'
  <1>1. /\ at = "payload" /\ Available(message.payload_size)
        /\ received' = Append(received, [request_id |-> message.request_id,
                                        components |-> message.components,
                                        payload |-> SubSeq(socket, 1, message.payload_size)])
        /\ socket' = SubSeq(socket, message.payload_size + 1, Len(socket))
        /\ at' = "length" /\ message' = NULL
        /\ UNCHANGED <<state, lock, fd, rest, order, lost, length>>
    BY DEF ReceivePayload, Deliver
  <1>2. FlowOK
    BY DEF IInv
  <1>3. Len(received) < Len(order) /\ message = Unpack(Pack(order[Len(received) + 1]))
    BY <1>1, <1>2 DEF FlowOK, ReceiverOK
  <1>4. PICK m \in Messages : m = order[Len(received) + 1]
    <2>1. Len(received) + 1 \in 1 .. Len(order)
      BY <1>2, <1>3, Numbers
    <2> QED
      BY <1>2, <2>1, Numbers
  <1>5. PICK P \in Nat : P = Len(Pack(m))
    BY MessageFacts
  <1>6. PICK Q \in Nat : Q = Len(m.payload) /\ Size(m) = P + Q
    BY <1>5, MessageFacts
  <1>7. /\ message.request_id = m.request_id /\ message.components = m.components
        /\ message.payload_size = Q
    BY <1>3, <1>4, <1>6, MessageFacts
  <1>8. Start = 0 - P
    BY <1>1, <1>4, <1>5 DEF Start
  <1>9. PICK s \in Seq(Char) : s = socket
    BY <1>2, Numbers
  <1>10. PICK w \in Nat : w = Len(s)
    BY LenProperties
  <1>11. Q <= w
    BY <1>1, <1>7, <1>9, <1>10 DEF Available
  <1>12. ASSUME NEW i \in 1 .. Q
         PROVE  s[i] = m.payload[i]
    <2>1. PICK j \in Nat : j = P + i
      OBVIOUS
    <2>2. /\ i \in Nat /\ i > 0 /\ i <= w /\ j <= P + Q /\ j = i - (0 - P)
          /\ ~(j <= P) /\ j - P = i
      BY <1>11, <2>1
    <2>3. /\ i \in Nat /\ i > 0 /\ i <= Len(socket) /\ j = i - Start
          /\ j <= Size(order[Len(received) + 1]) /\ at # "ended"
      BY <1>1, <1>4, <1>6, <1>8, <1>9, <1>10, <2>2
    <2>4. socket[i] = Cell(order[Len(received) + 1], j)
      BY <1>2, <1>3, <2>3, NextCells
    <2> QED
      BY <1>4, <1>5, <1>9, <2>2, <2>4 DEF Cell
  <1>13. SubSeq(socket, 1, Q) = m.payload
    <2>1. PICK u \in Seq(Char) : u = m.payload
      BY MessageFacts
    <2>2. Len(u) <= Len(s) /\ \A i \in 1 .. Len(u) : s[i] = u[i]
      BY <1>6, <1>10, <1>11, <1>12, <2>1
    <2>3. SubSeq(s, 1, Len(u)) = u
      BY <2>2, FrontIs
    <2> QED
      BY <1>6, <1>9, <2>1, <2>3
  <1>14. m = [request_id |-> m.request_id, components |-> m.components, payload |-> m.payload]
    BY MessageFacts DEF Message
  <1>15. received' = Append(received, m)
    BY <1>1, <1>7, <1>13, <1>14
  <1>16. Start' = 0
    BY <1>1 DEF Start
  <1>17. Q = Start + Size(m)
    <2>1. Q = (0 - P) + (P + Q)
      OBVIOUS
    <2> QED
      BY <1>6, <1>8, <2>1
  <1>18. /\ message' \in Packed \cup {NULL} /\ at' # "ended" /\ at # "ended"
         /\ at' \in {"length", "body", "payload", "ended"}
         /\ received' = Append(received, order[Len(received) + 1]) /\ Start' = 0
         /\ Q = Start + Size(order[Len(received) + 1])
    BY <1>1, <1>4, <1>15, <1>16, <1>17
  <1>19. Q <= Len(socket) /\ socket' = SubSeq(socket, Q + 1, Len(socket))
    BY <1>1, <1>7, <1>9, <1>10, <1>11
  <1>20. TypeOK' /\ SenderOK' /\ SocketOK'
    BY <1>1, <1>3, <1>18, <1>19, TakeKeeps
  <1>21. ReceiverOK'
    BY <1>1, <1>2, <1>3, <1>18, DeliverKeeps
  <1> QED
    BY <1>20, <1>21 DEF FlowOK

(* The thread ends, and looks at nothing any more. *)
LEMMA EndOfStreamKeeps ==
  ASSUME IInv, EndOfStream
  PROVE  FlowOK'
  <1>1. /\ at' = "ended"
        /\ UNCHANGED <<state, lock, fd, rest, order, socket, lost, length, message, received>>
    BY DEF EndOfStream
  <1>2. FlowOK
    BY DEF IInv
  <1>3. TypeOK'
    BY <1>1, <1>2 DEF FlowOK, TypeOK
  <1>4. SenderOK'
    BY <1>1, <1>2 DEF FlowOK, SenderOK
  <1>5. ReceiverOK'
    BY <1>1, <1>2 DEF FlowOK, ReceiverOK
  <1>6. SocketOK'
    BY <1>1 DEF SocketOK
  <1> QED
    BY <1>3, <1>4, <1>5, <1>6 DEF FlowOK

-----------------------------------------------------------------------------
(* The whole. *)

(* A connection begins with nothing sent. *)
LEMMA InitKeeps ==
  ASSUME Init
  PROVE  IInv
  <1>1. LockOK
    BY DEF Init, LockOK
  <1>2. Len(order) = 0 /\ Len(received) = 0 /\ Len(socket) = 0
    BY DEF Init
  <1>3. TypeOK
    <2>1. 0 \in Char
      <3>1. PICK n \in Nat \ {0} : n = Modulus
        BY WireAssumption
      <3>2. 0 \in 0 .. n - 1
        OBVIOUS
      <3> QED
        BY <3>1, <3>2 DEF Char
    <2>2. order \in Seq(Messages) /\ socket \in Seq(Char) /\ received \in Seq(Message)
      BY DEF Init
    <2>3. rest \in [Thread -> [body : Seq(Char), payload : Seq(Char)] \cup {NULL}]
      BY DEF Init
    <2> QED
      BY <2>1, <2>2, <2>3 DEF Init, TypeOK
  <1>4. SenderOK
    BY DEF Init, SenderOK
  <1>5. ReceiverOK
    <2>1. \A k \in 1 .. Len(received) : FALSE
      BY <1>2
    <2> QED
      BY <1>2, <2>1 DEF Init, ReceiverOK
  <1>6. SocketOK
    <2>1. PICK off \in [Nat -> Int] : \A k \in Nat : off[k] = 0
      <3>1. [k \in Nat |-> 0] \in [Nat -> Int] /\ \A k \in Nat : [j \in Nat |-> 0][k] = 0
        OBVIOUS
      <3> QED
        BY <3>1
    <2>2. Placed(off, order, Len(received), socket)
      <3>1. \A k \in 0 + 1 .. 0 : FALSE
        OBVIOUS
      <3>2. \A k \in 0 + 1 .. 0 + 1 : k = 1
        OBVIOUS
      <3>3. off[1] = 0 /\ off[1] <= off[1]
        BY <2>1
      <3> QED
        BY <1>2, <3>1, <3>2, <3>3 DEF Placed
    <2>3. Start = 0 /\ Left = 0
      BY DEF Init, Start, Left
    <2>4. off[0 + 1] = 0
      BY <2>1
    <2>5. /\ off[Len(received) + 1] = Start
          /\ Len(socket) <= off[Len(order) + 1]
          /\ ~lost => Len(socket) + Left = off[Len(order) + 1]
      BY <1>2, <2>3, <2>4
    <2> QED
      BY <2>2, <2>5 DEF SocketOK
  <1> QED
    BY <1>1, <1>3, <1>4, <1>5, <1>6 DEF IInv, FlowOK

(* Every step of the server's threads, of the connection and of the receive thread. *)
LEMMA NextKeeps ==
  ASSUME IInv, [Next]_vars
  PROVE  IInv'
  <1>1. LockOK'
    BY LockKept DEF IInv
  <1>2. CASE UNCHANGED vars
    <2>1. UNCHANGED <<state, lock, fd, rest, order, socket, lost, at, length, message, received>>
      BY <1>2 DEF vars
    <2>2. FlowOK
      BY DEF IInv
    <2>3. TypeOK'
      BY <2>1, <2>2 DEF FlowOK, TypeOK
    <2>4. SenderOK'
      BY <2>1, <2>2 DEF FlowOK, SenderOK
    <2>5. ReceiverOK'
      BY <2>1, <2>2 DEF FlowOK, ReceiverOK
    <2>6. Start' = Start /\ Left' = Left
      BY <2>1 DEF Start, Left
    <2>7. SocketOK'
      BY <2>1, <2>2, <2>6 DEF FlowOK, SocketOK
    <2> QED
      BY <1>1, <2>3, <2>4, <2>5, <2>7 DEF IInv, FlowOK
  <1>3. ASSUME NEW t \in Thread, NEW m \in Messages, Begin(t, m)
        PROVE  FlowOK'
    BY <1>3, BeginKeeps
  <1>4. ASSUME NEW t \in Thread, SenderStep(t)
        PROVE  FlowOK'
    <2>1. "body" \in {"body", "payload"} /\ "payload" \in {"body", "payload"}
      OBVIOUS
    <2>2. CASE SendSome(t, "body")
      BY <2>1, <2>2, SendSomeKeeps
    <2>3. CASE SendSome(t, "payload")
      BY <2>1, <2>3, SendSomeKeeps
    <2>4. CASE EndSend(t)
      BY <2>4, OtherKeeps
    <2> QED
      BY <1>4, <2>2, <2>3, <2>4 DEF SenderStep
  <1>5. ASSUME Receive
        PROVE  FlowOK'
    <2>1. CASE PeekLength
      BY <2>1, PeekLengthKeeps
    <2>2. CASE ReceiveBody
      BY <2>2, ReceiveBodyKeeps
    <2>3. CASE ReceivePayload
      BY <2>3, ReceivePayloadKeeps
    <2>4. CASE EndOfStream
      BY <2>4, EndOfStreamKeeps
    <2> QED
      BY <1>5, <2>1, <2>2, <2>3, <2>4 DEF Receive
  <1>6. ASSUME MarkForClosing \/ CloseSocket \/ Lose
        PROVE  FlowOK'
    <2>1. (\E t \in Thread : EndSend(t)) \/ MarkForClosing \/ CloseSocket \/ Lose
      BY <1>6
    <2> QED
      BY <2>1, OtherKeeps
  <1>7. CASE Next
    <2>1. ASSUME \E t \in Thread : SenderStep(t) \/ \E m \in Messages : Begin(t, m)
          PROVE  FlowOK'
      <3>1. PICK t \in Thread : SenderStep(t) \/ \E m \in Messages : Begin(t, m)
        BY <2>1
      <3>2. CASE SenderStep(t)
        BY <1>4, <3>2
      <3>3. CASE \E m \in Messages : Begin(t, m)
        BY <1>3, <3>3
      <3> QED
        BY <3>1, <3>2, <3>3
    <2>2. FlowOK'
      BY <1>5, <1>6, <1>7, <2>1 DEF Next
    <2> QED
      BY <1>1, <2>2 DEF IInv
  <1> QED
    BY <1>2, <1>7

(* Whatever the threads send at the same time and wherever send stops, the cells in the socket
   are those of the messages begun, one after the other, the receive thread is where one of
   them begins or where its body ends, and the thread with the lock has left the rest of the
   last one. *)
THEOREM WireInvariant == Spec => []IInv
  <1>1. Init => IInv
    BY InitKeeps
  <1>2. IInv /\ [Next]_vars => IInv'
    BY NextKeeps
  <1> QED
    BY <1>1, <1>2, PTL DEF Spec

(* The connection's state keeps its types: a length peeked at, or a payload's, is a field of
   16 bits, and what is received is a message. *)
THEOREM WireTypes == Spec => []TypeOK
  <1>1. IInv => TypeOK
    BY DEF IInv, FlowOK
  <1> QED
    BY <1>1, WireInvariant, PTL

(* SVR_Net_receivePackedMessage gets the messages of SVR_Net_sendPackedMessage, whole and in
   the order of the lock, for any number of threads and messages of any length. *)
THEOREM MessagesArriveInOrder == Spec => []ReceivedInOrder
  <1>1. ASSUME IInv
        PROVE  ReceivedInOrder
    <2>1. FlowOK
      BY <1>1 DEF IInv
    <2>2. PICK r \in Nat : r = Len(received)
      BY <2>1, Numbers
    <2>3. PICK n \in Nat : n = Len(order)
      BY <2>1, Numbers
    <2>4. r <= n /\ \A k \in 1 .. r : received[k] = order[k]
      BY <2>1, <2>2, <2>3 DEF FlowOK, ReceiverOK
    <2>5. received \in Seq(Message) /\ order \in Seq(Messages)
      BY <2>1, Numbers
    <2>6. /\ \A k \in 1 .. r : received[k] \in Message
          /\ \A k \in 1 .. r : k \in 1 .. n /\ order[k] \in Messages
      BY <2>1, <2>2, <2>3, <2>4, <2>5, Numbers, ElementOfSeq
    <2>7. PICK a : a = SubSeq(received, 1, r)
      OBVIOUS
    <2>8. PICK b : b = SubSeq(order, 1, r)
      OBVIOUS
    <2>9. r - 1 + 1 = r /\ (~(1 <= r) => r = 0) /\ \A i \in 1 .. r : 1 + i - 1 = i
      OBVIOUS
    <2>10. a \in Seq(Message) /\ Len(a) = r /\ \A i \in 1 .. r : a[i] = received[i]
      <3>1. /\ a \in Seq(Message) /\ Len(a) = IF 1 <= r THEN r - 1 + 1 ELSE 0
            /\ \A i \in 1 .. r - 1 + 1 : a[i] = received[1 + i - 1]
        BY <2>5, <2>6, <2>7, SubSeqProperties
      <3> QED
        BY <2>9, <3>1
    <2>11. b \in Seq(Messages) /\ Len(b) = r /\ \A i \in 1 .. r : b[i] = order[i]
      <3>1. /\ b \in Seq(Messages) /\ Len(b) = IF 1 <= r THEN r - 1 + 1 ELSE 0
            /\ \A i \in 1 .. r - 1 + 1 : b[i] = order[1 + i - 1]
        BY <2>5, <2>6, <2>8, SubSeqProperties
      <3> QED
        BY <2>9, <3>1
    <2>12. Messages \subseteq Message
      BY WireAssumption
    <2>13. b \in Seq(Message)
      BY <2>11, <2>12
    <2>14. \A i \in 1 .. Len(a) : a[i] = b[i]
      BY <2>4, <2>10, <2>11
    <2>15. a = b
      BY <2>10, <2>11, <2>13, <2>14, SeqEqual
    <2> QED
      BY <2>2, <2>3, <2>4, <2>7, <2>8, <2>15 DEF ReceivedInOrder, IsPrefix
  <1>2. IInv => ReceivedInOrder
    BY <1>1
  <1> QED
    BY <1>2, WireInvariant, PTL
=============================================================================
