--------------------------- MODULE RelayWire_proofs ---------------------------
(***************************************************************************)
(* Proofs about RelayWire: what is read and written is whole and in order, *)
(* and invitations are understood.  Numbers, opaque data and messages are  *)
(* first shown to be read as they are written; IInv then says where every  *)
(* byte of a connection is.                                                *)
(***************************************************************************)
EXTENDS RelayWire, SequenceTheorems, WellFoundedInduction, TLAPS

-----------------------------------------------------------------------------
(* Induction and recursion over numbers. *)

Smaller == {p \in Nat \X Nat : p[1] < p[2]}

LEMMA SmallerWellFounded == IsWellFoundedOn(Smaller, Nat)
<1>1. OpToRel(<, Nat) = Smaller
  BY DEF OpToRel, Smaller
<1>2. QED BY <1>1, NatLessThanWellFounded

\* A set of numbers that has 0 and with each number the next has all.
LEMMA CountingReaches ==
  ASSUME NEW S, 0 \in S, \A n \in Nat : n \in S => n + 1 \in S
  PROVE  \A n \in Nat : n \in S
<1>1. SUFFICES ASSUME Nat \ S # {} PROVE FALSE
  OBVIOUS
<1>2. PICK m \in Nat \ S : \A y \in Nat \ S : <<y, m>> \notin Smaller
  BY <1>1, SmallerWellFounded, WFMin
<1>3. m \in Nat /\ m # 0 /\ m - 1 \in Nat /\ m - 1 < m
  BY <1>2
<1>4. <<m - 1, m>> \in Smaller
  BY <1>3 DEF Smaller
<1>5. m - 1 \in S
  BY <1>2, <1>3, <1>4
<1>6. (m - 1) + 1 = m
  BY <1>3
<1>7. QED BY <1>2, <1>3, <1>5, <1>6

\* The same up to a bound.
LEMMA CountingTo ==
  ASSUME NEW m \in Nat, NEW S, 0 \in S, \A n \in Nat : n \in S /\ n < m => n + 1 \in S
  PROVE  \A n \in 0..m : n \in S
<1> DEFINE T == {n \in Nat : n <= m => n \in S}
<1>1. 0 \in T
  OBVIOUS
<1>2. \A n \in Nat : n \in T => n + 1 \in T
  OBVIOUS
<1>3. \A n \in Nat : n \in T
  <2> HIDE DEF T
  <2> QED BY <1>1, <1>2, CountingReaches
<1> QED BY <1>3

\* f begins with a and goes on, m times, by what h says of each step.
IsRun(f, a, m, h) == f[0] = a /\ \A n \in 1..m : f[n] = h[n][f[n - 1]]
Computable(V, a, m, h) == \E f \in [0..m -> V] : IsRun(f, a, m, h)

LEMMA StepsExist ==
  ASSUME NEW V, NEW a \in V, NEW m \in Nat, NEW h \in [1..m -> [V -> V]]
  PROVE  Computable(V, a, m, h)
<1> DEFINE S == {k \in Nat : k <= m => Computable(V, a, k, h)}
<1>1. 0 \in S
  <2> DEFINE f == [i \in 0..0 |-> a]
  <2>1. f \in [0..0 -> V] /\ IsRun(f, a, 0, h)
    BY DEF IsRun
  <2> QED BY <2>1 DEF Computable
<1>2. ASSUME NEW k \in Nat, k \in S, k < m PROVE k + 1 \in S
  <2>1. PICK f \in [0..k -> V] : IsRun(f, a, k, h)
    BY <1>2 DEF Computable
  <2> DEFINE g == [i \in 0..(k + 1) |-> IF i = k + 1 THEN h[k + 1][f[k]] ELSE f[i]]
  <2>2. f[k] \in V /\ h[k + 1] \in [V -> V]
    BY <1>2
  <2>3. h[k + 1][f[k]] \in V
    BY <2>2
  <2>4. g \in [0..(k + 1) -> V] /\ g[0] = a
    BY <2>1, <2>3 DEF IsRun
  <2>5. ASSUME NEW n \in 1..(k + 1) PROVE g[n] = h[n][g[n - 1]]
    <3>1. CASE n = k + 1
      <4>1. n - 1 = k /\ g[n - 1] = f[k]
        BY <3>1
      <4> QED BY <3>1, <4>1
    <3>2. CASE n # k + 1
      <4>1. n \in 1..k /\ g[n] = f[n] /\ g[n - 1] = f[n - 1]
        BY <3>2
      <4> QED BY <2>1, <4>1 DEF IsRun
    <3> QED BY <3>1, <3>2
  <2>6. IsRun(g, a, k + 1, h)
    <3> HIDE DEF g
    <3> QED BY <2>4, <2>5 DEF IsRun
  <2>7. Computable(V, a, k + 1, h)
    <3> HIDE DEF g
    <3> QED BY <2>4, <2>6 DEF Computable
  <2> QED BY <2>7
<1> HIDE DEF S
<1>3. \A k \in 0..m : k \in S
  BY <1>1, <1>2, CountingTo
<1> QED BY <1>3 DEF S

-----------------------------------------------------------------------------
(* Numbers as words. *)

LEMMA Constants ==
  /\ WordLen \in Nat /\ WordLen > 0 /\ HeaderLen = 3 * WordLen /\ HeaderLen \in Nat
  /\ SmallCap \in Nat /\ MaxMessage \in Nat /\ Piece \in Nat /\ Piece > 0
  /\ HeaderLen < SmallCap /\ SmallCap < MaxMessage
BY WireAssumption DEF HeaderLen

LEMMA ShiftedSteps ==
  ASSUME NEW n \in Nat
  PROVE  /\ Shifted(n) \in [0..WordLen -> Nat] /\ Shifted(n)[0] = n
         /\ \A k \in 1..WordLen : Shifted(n)[k] = Shifted(n)[k - 1] \div 256
<1> DEFINE h == [k \in 1..WordLen |-> [x \in Nat |-> x \div 256]]
<1>1. WordLen \in Nat
  BY Constants
<1>2. h \in [1..WordLen -> [Nat -> Nat]]
  OBVIOUS
<1>3. \A k \in 1..WordLen : \A x \in Nat : h[k][x] = x \div 256
  OBVIOUS
<1> HIDE DEF h
<1>4. PICK f \in [0..WordLen -> Nat] : IsRun(f, n, WordLen, h)
  <2>1. Computable(Nat, n, WordLen, h)
    BY <1>1, <1>2, StepsExist
  <2> QED BY <2>1 DEF Computable
<1>5. f[0] = n /\ \A k \in 1..WordLen : f[k] = f[k - 1] \div 256
  <2>1. ASSUME NEW k \in 1..WordLen PROVE f[k] = f[k - 1] \div 256
    <3>1. f[k - 1] \in Nat /\ f[k] = h[k][f[k - 1]]
      BY <1>1, <1>4 DEF IsRun
    <3>2. h[k][f[k - 1]] = f[k - 1] \div 256
      BY <1>3, <3>1
    <3> QED BY <3>1, <3>2
  <2> QED BY <1>4, <2>1 DEF IsRun
<1>6. f = [k \in 0..WordLen |-> IF k = 0 THEN n ELSE f[k - 1] \div 256]
  <2>1. f = [k \in 0..WordLen |-> f[k]]
    OBVIOUS
  <2>2. \A k \in 0..WordLen : f[k] = IF k = 0 THEN n ELSE f[k - 1] \div 256
    BY <1>1, <1>5
  <2> QED BY <2>1, <2>2
<1>7. Shifted(n) = [k \in 0..WordLen |-> IF k = 0 THEN n ELSE Shifted(n)[k - 1] \div 256]
  BY <1>6, ZenonT(60) DEF Shifted
<1> DEFINE r == Shifted(n)
<1> HIDE DEF r
<1>8. r = [k \in 0..WordLen |-> IF k = 0 THEN n ELSE r[k - 1] \div 256]
  BY <1>7 DEF r
<1>9. r[0] = n /\ \A k \in 1..WordLen : r[k] = r[k - 1] \div 256
  BY <1>1, <1>8
<1> DEFINE S == {k \in 0..WordLen : r[k] \in Nat}
<1>10. \A k \in 0..WordLen : k \in S
  <2>1. 0 \in S
    BY <1>1, <1>9
  <2>2. ASSUME NEW k \in Nat, k \in S, k < WordLen PROVE k + 1 \in S
    <3>1. r[k] \in Nat /\ k + 1 \in 1..WordLen /\ (k + 1) - 1 = k
      BY <1>1, <2>2
    <3> QED BY <1>9, <3>1
  <2> HIDE DEF S
  <2> QED BY <1>1, <2>1, <2>2, CountingTo
<1>11. r \in [0..WordLen -> Nat]
  BY <1>8, <1>10
<1> QED BY <1>9, <1>11 DEF r

LEMMA ValuesSteps ==
  ASSUME NEW bytes \in Seq(Byte)
  PROVE  /\ Values(bytes) \in [0..Len(bytes) -> Nat] /\ Values(bytes)[0] = 0
         /\ \A i \in 1..Len(bytes) : Values(bytes)[i] = 256 * Values(bytes)[i - 1] + bytes[i]
<1> DEFINE m == Len(bytes)
           h == [i \in 1..m |-> [x \in Nat |-> 256 * x + bytes[i]]]
<1>1. m \in Nat /\ \A i \in 1..m : bytes[i] \in Nat
  <2>1. m \in Nat /\ \A i \in 1..m : bytes[i] \in Byte
    OBVIOUS
  <2>2. \A x \in Byte : x \in Nat
    BY DEF Byte
  <2> QED BY <2>1, <2>2
<1> HIDE DEF m
<1>2. h \in [1..m -> [Nat -> Nat]]
  BY <1>1
<1>3. \A i \in 1..m : \A x \in Nat : h[i][x] = 256 * x + bytes[i]
  OBVIOUS
<1> HIDE DEF h
<1>4. PICK f \in [0..m -> Nat] : IsRun(f, 0, m, h)
  <2>1. Computable(Nat, 0, m, h)
    BY <1>1, <1>2, StepsExist
  <2> QED BY <2>1 DEF Computable
<1>5. f[0] = 0 /\ \A i \in 1..m : f[i] = 256 * f[i - 1] + bytes[i]
  <2>1. ASSUME NEW i \in 1..m PROVE f[i] = 256 * f[i - 1] + bytes[i]
    <3>1. f[i - 1] \in Nat /\ f[i] = h[i][f[i - 1]]
      BY <1>1, <1>4 DEF IsRun
    <3>2. h[i][f[i - 1]] = 256 * f[i - 1] + bytes[i]
      BY <1>3, <3>1
    <3> QED BY <3>1, <3>2
  <2> QED BY <1>4, <2>1 DEF IsRun
<1>6. f = [i \in 0..m |-> IF i = 0 THEN 0 ELSE 256 * f[i - 1] + bytes[i]]
  <2>1. f = [i \in 0..m |-> f[i]]
    OBVIOUS
  <2>2. \A i \in 0..m : f[i] = IF i = 0 THEN 0 ELSE 256 * f[i - 1] + bytes[i]
    BY <1>1, <1>5
  <2> QED BY <2>1, <2>2
<1>7. Values(bytes) = [i \in 0..m |-> IF i = 0 THEN 0 ELSE 256 * Values(bytes)[i - 1] + bytes[i]]
  BY <1>6, ZenonT(60) DEF Values, m
<1> DEFINE r == Values(bytes)
<1> HIDE DEF r
<1>8. r = [i \in 0..m |-> IF i = 0 THEN 0 ELSE 256 * r[i - 1] + bytes[i]]
  BY <1>7 DEF r
<1>9. r[0] = 0 /\ \A i \in 1..m : r[i] = 256 * r[i - 1] + bytes[i]
  BY <1>1, <1>8
<1> DEFINE S == {i \in 0..m : r[i] \in Nat}
<1>10. \A i \in 0..m : i \in S
  <2>1. 0 \in S
    BY <1>1, <1>9
  <2>2. ASSUME NEW i \in Nat, i \in S, i < m PROVE i + 1 \in S
    <3>1. r[i] \in Nat /\ i + 1 \in 1..m /\ (i + 1) - 1 = i /\ bytes[i + 1] \in Nat
      BY <1>1, <2>2
    <3>2. r[i + 1] = 256 * r[i] + bytes[i + 1]
      BY <1>9, <3>1
    <3> QED BY <3>1, <3>2
  <2> HIDE DEF S
  <2> QED BY <1>1, <2>1, <2>2, CountingTo
<1>11. r \in [0..m -> Nat]
  BY <1>8, <1>10
<1> QED BY <1>9, <1>11 DEF r, m

LEMMA UintType == ASSUME NEW bytes \in Seq(Byte) PROVE Uint(bytes) \in Nat
  BY ValuesSteps DEF Uint

LEMMA PutUintType ==
  ASSUME NEW n \in Nat
  PROVE  PutUint(n) \in Seq(Byte) /\ Len(PutUint(n)) = WordLen
<1>1. WordLen \in Nat
  BY Constants
<1>2. \A i \in 1..WordLen : Shifted(n)[WordLen - i] % 256 \in Byte
  <2> SUFFICES ASSUME NEW i \in 1..WordLen PROVE Shifted(n)[WordLen - i] % 256 \in Byte
    OBVIOUS
  <2>1. Shifted(n)[WordLen - i] \in Nat
    BY <1>1, ShiftedSteps
  <2> QED BY <2>1 DEF Byte
<1>3. PutUint(n) \in [1..WordLen -> Byte]
  BY <1>2 DEF PutUint
<1> QED BY <1>1, <1>3

\* A number that fits a word is read as it was written.
LEMMA WordRead ==
  ASSUME NEW n \in Nat, Fits(n)
  PROVE  Uint(PutUint(n)) = n
<1> DEFINE r == Shifted(n)
           p == PutUint(n)
           v == Values(p)
<1>1. WordLen \in Nat /\ r \in [0..WordLen -> Nat] /\ r[0] = n /\ r[WordLen] = 0
  BY Constants, ShiftedSteps DEF Fits
<1>2. \A k \in 1..WordLen : r[k] = r[k - 1] \div 256
  BY ShiftedSteps
<1>3. p \in Seq(Byte) /\ Len(p) = WordLen /\ \A i \in 1..WordLen : p[i] = r[WordLen - i] % 256
  BY PutUintType DEF PutUint
<1> HIDE DEF r, p
<1>4. v[0] = 0 /\ \A i \in 1..WordLen : v[i] = 256 * v[i - 1] + p[i]
  BY <1>3, ValuesSteps
<1> HIDE DEF v
<1> DEFINE S == {i \in 0..WordLen : v[i] = r[WordLen - i]}
<1>5. 0 \in S
  BY <1>1, <1>4
<1>6. ASSUME NEW i \in Nat, i \in S, i < WordLen PROVE i + 1 \in S
  <2> DEFINE k == WordLen - i
  <2>1. k \in 1..WordLen /\ k - 1 = WordLen - (i + 1) /\ v[i] = r[k]
    BY <1>1, <1>6
  <2>2. v[i + 1] = 256 * v[i] + p[i + 1]
    <3>1. i + 1 \in 1..WordLen /\ (i + 1) - 1 = i
      BY <1>1, <1>6
    <3> QED BY <1>4, <3>1
  <2>3. p[i + 1] = r[k - 1] % 256
    BY <1>1, <1>3, <1>6, <2>1
  <2> HIDE DEF k
  <2>4. r[k - 1] \in Nat /\ r[k] = r[k - 1] \div 256
    BY <1>1, <1>2, <2>1
  <2>5. v[i + 1] = r[k - 1]
    BY <2>1, <2>2, <2>3, <2>4
  <2> QED BY <1>1, <1>6, <2>1, <2>5
<1> HIDE DEF S
<1>7. \A i \in 0..WordLen : i \in S
  BY <1>1, <1>5, <1>6, CountingTo
<1>8. v[WordLen] = r[0]
  BY <1>1, <1>7 DEF S
<1> QED BY <1>1, <1>3, <1>8 DEF Uint, v, p

\* A byte fits.
LEMMA ByteFits == ASSUME NEW n \in Byte PROVE Fits(n)
<1> DEFINE r == Shifted(n)
<1>1. n \in Nat /\ n < 256 /\ WordLen \in Nat /\ WordLen > 0
  BY Constants DEF Byte
<1>2. r[0] = n /\ \A k \in 1..WordLen : r[k] = r[k - 1] \div 256
  BY <1>1, ShiftedSteps
<1> HIDE DEF r
<1> DEFINE S == {k \in 0..WordLen : k > 0 => r[k] = 0}
<1>3. \A k \in 0..WordLen : k \in S
  <2>1. 0 \in S
    BY <1>1
  <2>2. ASSUME NEW k \in Nat, k \in S, k < WordLen PROVE k + 1 \in S
    <3>1. k + 1 \in 1..WordLen /\ (k + 1) - 1 = k
      BY <1>1, <2>2
    <3>2. r[k + 1] = r[k] \div 256
      BY <1>2, <3>1
    <3>3. r[k] \in Nat /\ r[k] < 256
      BY <1>1, <1>2, <2>2
    <3>4. r[k + 1] = 0
      BY <3>2, <3>3
    <3> QED BY <3>1, <3>4
  <2> HIDE DEF S
  <2> QED BY <1>1, <2>1, <2>2, CountingTo
<1>4. r[WordLen] = 0
  BY <1>1, <1>3
<1> QED BY <1>1, <1>4 DEF Fits, r

-----------------------------------------------------------------------------
(* Sequences one after the other. *)

\* What the first sequences of ss come to, for any number of them.
Joined(ss) ==
  LET joined[k \in 0..Len(ss)] == IF k = 0 THEN <<>> ELSE joined[k - 1] \o ss[k] IN joined

LEMMA JoinedSteps ==
  ASSUME NEW ss \in Seq(Seq(Byte))
  PROVE  /\ Joined(ss) \in [0..Len(ss) -> Seq(Byte)] /\ Joined(ss)[0] = <<>>
         /\ \A k \in 1..Len(ss) : Joined(ss)[k] = Joined(ss)[k - 1] \o ss[k]
<1> DEFINE m == Len(ss)
           V == Seq(Byte)
           h == [k \in 1..m |-> [x \in V |-> x \o ss[k]]]
<1>1. m \in Nat /\ <<>> \in V /\ \A k \in 1..m : ss[k] \in V
  OBVIOUS
<1>2. \A x, y \in V : x \o y \in V
  OBVIOUS
<1> HIDE DEF m, V
<1>3. h \in [1..m -> [V -> V]]
  BY <1>1, <1>2
<1>4. \A k \in 1..m : \A x \in V : h[k][x] = x \o ss[k]
  OBVIOUS
<1> HIDE DEF h
<1>5. PICK f \in [0..m -> V] : IsRun(f, <<>>, m, h)
  <2>1. Computable(V, <<>>, m, h)
    BY <1>1, <1>3, StepsExist
  <2> QED BY <2>1 DEF Computable
<1>6. f[0] = <<>> /\ \A k \in 1..m : f[k] = f[k - 1] \o ss[k]
  <2>1. ASSUME NEW k \in 1..m PROVE f[k] = f[k - 1] \o ss[k]
    <3>1. f[k - 1] \in V /\ f[k] = h[k][f[k - 1]]
      BY <1>1, <1>5 DEF IsRun
    <3>2. h[k][f[k - 1]] = f[k - 1] \o ss[k]
      BY <1>4, <3>1
    <3> QED BY <3>1, <3>2
  <2> QED BY <1>5, <2>1 DEF IsRun
<1>7. f = [k \in 0..m |-> IF k = 0 THEN <<>> ELSE f[k - 1] \o ss[k]]
  <2>1. f = [k \in 0..m |-> f[k]]
    OBVIOUS
  <2>2. ASSUME NEW k \in 0..m PROVE f[k] = IF k = 0 THEN <<>> ELSE f[k - 1] \o ss[k]
    <3>1. k = 0 \/ k \in 1..m
      BY <1>1
    <3> QED BY <1>6, <3>1
  <2> QED BY <2>1, <2>2
<1>8. Joined(ss) = [k \in 0..m |-> IF k = 0 THEN <<>> ELSE Joined(ss)[k - 1] \o ss[k]]
  BY <1>7, ZenonT(60) DEF Joined, m
<1> DEFINE r == Joined(ss)
<1> HIDE DEF r
<1>9. r = [k \in 0..m |-> IF k = 0 THEN <<>> ELSE r[k - 1] \o ss[k]]
  BY <1>8 DEF r
<1>10. r[0] = <<>> /\ \A k \in 1..m : r[k] = r[k - 1] \o ss[k]
  BY <1>1, <1>9
<1> DEFINE S == {k \in 0..m : r[k] \in V}
<1>11. 0 \in S
  BY <1>1, <1>10
<1>12. ASSUME NEW k \in Nat, k \in S, k < m PROVE k + 1 \in S
  <2>1. r[k] \in V /\ k + 1 \in 1..m /\ (k + 1) - 1 = k
    BY <1>1, <1>12
  <2>2. r[k + 1] = r[k] \o ss[k + 1] /\ ss[k + 1] \in V
    BY <1>1, <1>10, <2>1
  <2>3. r[k + 1] \in V
    BY <1>2, <2>1, <2>2
  <2> QED BY <2>1, <2>3
<1> HIDE DEF S
<1>13. \A k \in 0..m : k \in S
  BY <1>1, <1>11, <1>12, CountingTo
<1>14. r \in [0..m -> V]
  BY <1>9, <1>13 DEF S
<1> QED BY <1>10, <1>14 DEF r, m, V

\* Later sequences come behind earlier ones.
LEMMA JoinedGrows ==
  ASSUME NEW ss \in Seq(Seq(Byte)), NEW j \in 0..Len(ss), NEW k \in j..Len(ss)
  PROVE  /\ Joined(ss)[j] \in Seq(Byte) /\ Joined(ss)[k] \in Seq(Byte)
         /\ Len(Joined(ss)[j]) <= Len(Joined(ss)[k])
         /\ \A i \in 1..Len(Joined(ss)[j]) : Joined(ss)[k][i] = Joined(ss)[j][i]
<1> DEFINE m == Len(ss)
           r == Joined(ss)
           a == r[j]
           Behind(x) == Len(a) <= Len(x) /\ \A i \in 1..Len(a) : x[i] = a[i]
           S == {d \in 0..(m - j) : Behind(r[j + d])}
<1>1. m \in Nat /\ \A n \in 1..m : ss[n] \in Seq(Byte)
  OBVIOUS
<1>2. r \in [0..m -> Seq(Byte)] /\ \A n \in 1..m : r[n] = r[n - 1] \o ss[n]
  BY JoinedSteps
<1>3. j \in 0..m /\ k \in j..m
  OBVIOUS
<1> HIDE DEF m, r
<1>4. a \in Seq(Byte) /\ r[k] \in Seq(Byte) /\ m - j \in Nat
  BY <1>1, <1>2, <1>3
<1>5. Behind(a) /\ j + 0 = j
  BY <1>3, <1>4
<1>6. ASSUME NEW x \in Seq(Byte), NEW y \in Seq(Byte), Behind(x) PROVE Behind(x \o y)
  BY <1>4, <1>6, ConcatProperties
<1> HIDE DEF Behind, a
<1>7. 0 \in S
  BY <1>4, <1>5 DEF a
<1>8. ASSUME NEW d \in Nat, d \in S, d < m - j PROVE d + 1 \in S
  <2>1. j + (d + 1) \in 1..m /\ (j + (d + 1)) - 1 = j + d /\ j + d \in 0..m
    BY <1>1, <1>3, <1>8
  <2>2. r[j + (d + 1)] = r[j + d] \o ss[j + (d + 1)]
    BY <1>2, <2>1
  <2>3. r[j + d] \in Seq(Byte) /\ ss[j + (d + 1)] \in Seq(Byte) /\ Behind(r[j + d])
    BY <1>1, <1>2, <1>8, <2>1
  <2>4. Behind(r[j + (d + 1)])
    BY <1>6, <2>2, <2>3
  <2> QED BY <1>4, <1>8, <2>4
<1> HIDE DEF S
<1>9. \A d \in 0..(m - j) : d \in S
  BY <1>4, <1>7, <1>8, CountingTo
<1>10. Behind(r[k])
  <2>1. k - j \in 0..(m - j) /\ j + (k - j) = k
    BY <1>1, <1>3
  <2>2. k - j \in S
    BY <1>9, <2>1
  <2> QED BY <2>1, <2>2 DEF S
<1> QED BY <1>4, <1>10 DEF Behind, a, r

\* FlattenSeq joins all.
LEMMA FlattenIsJoined ==
  ASSUME NEW ss \in Seq(Seq(Byte))
  PROVE  FlattenSeq(ss) = Joined(ss)[Len(ss)]
<1> DEFINE m == Len(ss)
           r == Joined(ss)
<1>1. m \in Nat /\ \A n \in 1..m : ss[n] \in Seq(Byte)
  OBVIOUS
<1>2. r \in [0..m -> Seq(Byte)] /\ r[0] = <<>> /\ \A n \in 1..m : r[n] = r[n - 1] \o ss[n]
  BY JoinedSteps
<1>3. CASE m = 0
  <2>1. ss = <<>>
    BY <1>3
  <2> QED BY <1>2, <1>3, <2>1 DEF FlattenSeq
<1>4. CASE m # 0
  <2> HIDE DEF r
  <2> DEFINE f == [i \in 1..m |-> r[i]]
  <2>1. \A i \in 1..m : f[i] = IF i = 1 THEN ss[i] ELSE f[i - 1] \o ss[i]
    <3> SUFFICES ASSUME NEW i \in 1..m PROVE f[i] = IF i = 1 THEN ss[i] ELSE f[i - 1] \o ss[i]
      OBVIOUS
    <3>1. r[i] = r[i - 1] \o ss[i]
      BY <1>2
    <3>2. CASE i = 1
      <4>1. r[i] = <<>> \o ss[i] /\ ss[i] \in Seq(Byte)
        BY <1>1, <1>2, <3>1, <3>2
      <4> QED BY <3>2, <4>1, ConcatEmptySeq
    <3>3. CASE i # 1
      <4>1. i - 1 \in 1..m /\ f[i] = r[i]
        BY <1>1, <3>3
      <4>2. f[i - 1] = r[i - 1]
        BY <4>1
      <4> QED BY <3>1, <3>3, <4>1, <4>2
    <3> QED BY <3>2, <3>3
  <2>2. f = [i \in 1..m |-> IF i = 1 THEN ss[i] ELSE f[i - 1] \o ss[i]]
    <3>1. f = [i \in 1..m |-> f[i]]
      OBVIOUS
    <3> HIDE DEF f
    <3> QED BY <2>1, <3>1
  <2> HIDE DEF f
  <2>3. \E t : /\ t = [i \in 1..m |-> IF i = 1 THEN ss[i] ELSE t[i - 1] \o ss[i]]
               /\ FlattenSeq(ss) = t[m]
    BY <1>4, <2>2, Zenon DEF FlattenSeq, m
  <2>4. PICK t : /\ t = [i \in 1..m |-> IF i = 1 THEN ss[i] ELSE t[i - 1] \o ss[i]]
                 /\ FlattenSeq(ss) = t[m]
    BY <2>3
  <2> HIDE DEF m
  <2> DEFINE S == {d \in 0..(m - 1) : t[d + 1] = r[d + 1]}
  <2>5. 0 \in S
    <3>1. 1 \in 1..m /\ t[1] = ss[1] /\ ss[1] \in Seq(Byte)
      BY <1>1, <1>4, <2>4
    <3>2. r[1] = <<>> \o ss[1]
      <4>1. \A n \in 1..m : r[n] = r[n - 1] \o ss[n]
        BY <1>2
      <4>2. r[1] = r[1 - 1] \o ss[1]
        BY <3>1, <4>1, Zenon
      <4>3. 1 - 1 = 0
        OBVIOUS
      <4>4. r[0] = <<>>
        BY <1>2
      <4> QED BY <4>2, <4>3, <4>4, Zenon
    <3>3. r[1] = ss[1]
      BY <3>1, <3>2, ConcatEmptySeq
    <3> QED BY <1>1, <1>4, <3>1, <3>3
  <2>6. ASSUME NEW d \in Nat, d \in S, d < m - 1 PROVE d + 1 \in S
    <3> DEFINE i == (d + 1) + 1
    <3>1. i \in 1..m /\ i # 1 /\ i - 1 = d + 1 /\ t[d + 1] = r[d + 1]
      BY <1>1, <2>6
    <3> HIDE DEF i
    <3>2. t[i] = t[i - 1] \o ss[i] /\ r[i] = r[i - 1] \o ss[i]
      BY <1>2, <2>4, <3>1
    <3>3. t[i] = r[i]
      BY <3>1, <3>2
    <3> QED BY <1>1, <2>6, <3>3 DEF i
  <2> HIDE DEF S
  <2>7. \A d \in 0..(m - 1) : d \in S
    <3>1. m - 1 \in Nat
      BY <1>1, <1>4
    <3> QED BY <2>5, <2>6, <3>1, CountingTo
  <2>8. m - 1 \in 0..(m - 1) /\ (m - 1) + 1 = m
    BY <1>1, <1>4
  <2>9. t[m] = r[m]
    <3>1. m - 1 \in S
      BY <2>7, <2>8
    <3> QED BY <2>8, <3>1 DEF S
  <2> QED BY <2>4, <2>9 DEF r, m
<1> QED BY <1>3, <1>4

-----------------------------------------------------------------------------
(* Messages as bytes. *)

LEMMA Concat ==
  ASSUME NEW s \in Seq(Byte), NEW t \in Seq(Byte)
  PROVE  /\ s \o t \in Seq(Byte) /\ Len(s \o t) = Len(s) + Len(t)
         /\ Len(s) \in Nat /\ Len(t) \in Nat
         /\ \A i \in 1..Len(s) : (s \o t)[i] = s[i]
         /\ \A i \in 1..Len(t) : (s \o t)[Len(s) + i] = t[i]
<1>1. Len(s) \in Nat /\ Len(t) \in Nat
  OBVIOUS
<1>2. /\ s \o t \in Seq(Byte) /\ Len(s \o t) = Len(s) + Len(t)
      /\ \A i \in 1..(Len(s) + Len(t)) : (s \o t)[i] = IF i <= Len(s) THEN s[i] ELSE t[i - Len(s)]
  BY ConcatProperties
<1>3. ASSUME NEW i \in 1..Len(s) PROVE (s \o t)[i] = s[i]
  BY <1>1, <1>2
<1>4. ASSUME NEW i \in 1..Len(t) PROVE (s \o t)[Len(s) + i] = t[i]
  <2>1. Len(s) + i \in 1..(Len(s) + Len(t)) /\ ~(Len(s) + i <= Len(s)) /\ (Len(s) + i) - Len(s) = i
    BY <1>1
  <2> QED BY <1>2, <2>1
<1> QED BY <1>1, <1>2, <1>3, <1>4

LEMMA Meanings ==
  /\ Magic \in Nat /\ Fits(Magic)
  /\ \A t \in MessageTypes : TypeNumber[t] \in Byte /\ TypeNumber[t] \in Nat
  /\ \A t, u \in MessageTypes : TypeNumber[t] = TypeNumber[u] => t = u
<1>1. Magic \in Nat /\ Fits(Magic)
  <2>1. Fits(Magic)
    BY MessageAssumption
  <2> QED BY <2>1 DEF Fits
<1>2. \A t \in MessageTypes : TypeNumber[t] \in Byte /\ TypeNumber[t] \in Nat
  BY DEF MessageTypes, TypeNumber, Byte
<1>3. \A t, u \in MessageTypes : TypeNumber[t] = TypeNumber[u] => t = u
  BY DEF MessageTypes, TypeNumber
<1> QED BY <1>1, <1>2, <1>3

\* A word is read wherever it stands.
LEMMA WordAt ==
  ASSUME NEW c \in Seq(Byte), NEW o \in Nat, NEW n \in Nat, Fits(n), o + WordLen <= Len(c),
         \A i \in 1..WordLen : c[o + i] = PutUint(n)[i]
  PROVE  Uint(SubSeq(c, o + 1, o + WordLen)) = n
<1> DEFINE w == SubSeq(c, o + 1, o + WordLen)
<1>1. WordLen \in Nat /\ Len(c) \in Nat
  BY Constants
<1>2. PutUint(n) \in Seq(Byte) /\ Len(PutUint(n)) = WordLen
  BY PutUintType
<1>3. w \in Seq(Byte) /\ Len(w) = WordLen /\ \A i \in 1..WordLen : w[i] = c[o + i]
  <2>1. \A i \in (o + 1)..(o + WordLen) : c[i] \in Byte
    BY <1>1
  <2>2. /\ w \in Seq(Byte)
        /\ Len(w) = IF o + 1 <= o + WordLen THEN (o + WordLen) - (o + 1) + 1 ELSE 0
        /\ \A i \in 1..((o + WordLen) - (o + 1) + 1) : w[i] = c[(o + 1) + i - 1]
    BY <1>1, <2>1, SubSeqProperties
  <2> HIDE DEF w
  <2> QED BY <1>1, <2>2
<1> HIDE DEF w
<1>4. w = PutUint(n)
  BY <1>2, <1>3, SeqEqual
<1> QED BY <1>4, WordRead DEF w

LEMMA HeaderFacts ==
  ASSUME NEW type \in MessageTypes, NEW len \in Nat
  PROVE  /\ Header(type, len) \in Seq(Byte) /\ Len(Header(type, len)) = HeaderLen
         /\ \A i \in 1..WordLen :
              /\ Header(type, len)[i] = PutUint(Magic)[i]
              /\ Header(type, len)[WordLen + i] = PutUint(TypeNumber[type])[i]
              /\ Header(type, len)[2 * WordLen + i] = PutUint(len)[i]
<1> DEFINE a == PutUint(Magic)
           b == PutUint(TypeNumber[type])
           c == PutUint(len)
           ab == a \o b
           hd == Header(type, len)
           W == WordLen
<1>1. W \in Nat /\ HeaderLen = 3 * W
  BY Constants
<1>2. a \in Seq(Byte) /\ Len(a) = W
  BY Meanings, PutUintType
<1>3. b \in Seq(Byte) /\ Len(b) = W
  BY Meanings, PutUintType
<1>4. c \in Seq(Byte) /\ Len(c) = W
  BY PutUintType
<1>5. hd = ab \o c
  BY DEF Header
<1> HIDE DEF a, b, c, hd, W
<1>6. /\ ab \in Seq(Byte) /\ Len(ab) = W + W
      /\ \A i \in 1..W : ab[i] = a[i] /\ ab[W + i] = b[i]
  BY <1>2, <1>3, Concat
<1> HIDE DEF ab
<1>7. /\ hd \in Seq(Byte) /\ Len(hd) = (W + W) + W
      /\ \A i \in 1..(W + W) : hd[i] = ab[i]
      /\ \A i \in 1..W : hd[(W + W) + i] = c[i]
  <2>1. /\ ab \o c \in Seq(Byte) /\ Len(ab \o c) = Len(ab) + Len(c)
        /\ \A i \in 1..Len(ab) : (ab \o c)[i] = ab[i]
        /\ \A i \in 1..Len(c) : (ab \o c)[Len(ab) + i] = c[i]
    BY <1>4, <1>6, Concat
  <2> QED BY <1>4, <1>5, <1>6, <2>1
<1>8. ASSUME NEW i \in 1..W PROVE hd[i] = a[i] /\ hd[W + i] = b[i] /\ hd[2 * W + i] = c[i]
  <2>1. i \in 1..(W + W) /\ W + i \in 1..(W + W) /\ 2 * W + i = (W + W) + i
    BY <1>1
  <2> QED BY <1>6, <1>7, <2>1
<1>9. Len(hd) = HeaderLen
  BY <1>1, <1>7
<1> QED BY <1>7, <1>8, <1>9 DEF a, b, c, hd, W

\* A message is its header and its body.
LEMMA FramedFacts ==
  ASSUME NEW msg \in Messages
  PROVE  /\ msg.type \in MessageTypes /\ msg.body \in Seq(Byte) /\ Len(msg.body) \in Nat
         /\ Framed(msg) \in Seq(Byte) /\ Len(Framed(msg)) = HeaderLen + Len(msg.body)
         /\ \A i \in 1..HeaderLen : Framed(msg)[i] = Header(msg.type, Len(msg.body))[i]
         /\ \A i \in 1..Len(msg.body) : Framed(msg)[HeaderLen + i] = msg.body[i]
<1> DEFINE body == msg.body
           hd == Header(msg.type, Len(body))
<1>1. msg.type \in MessageTypes /\ body \in Seq(Byte)
  BY DEF Messages
<1>2. Len(body) \in Nat
  BY <1>1
<1>3. hd \in Seq(Byte) /\ Len(hd) = HeaderLen
  BY <1>1, <1>2, HeaderFacts
<1>4. Framed(msg) = hd \o body
  BY DEF Framed
<1> HIDE DEF hd, body
<1>5. /\ Framed(msg) \in Seq(Byte) /\ Len(Framed(msg)) = HeaderLen + Len(body)
      /\ \A i \in 1..HeaderLen : Framed(msg)[i] = hd[i]
      /\ \A i \in 1..Len(body) : Framed(msg)[HeaderLen + i] = body[i]
  <2>1. /\ hd \o body \in Seq(Byte) /\ Len(hd \o body) = Len(hd) + Len(body)
        /\ \A i \in 1..Len(hd) : (hd \o body)[i] = hd[i]
        /\ \A i \in 1..Len(body) : (hd \o body)[Len(hd) + i] = body[i]
    BY <1>1, <1>3, Concat
  <2> QED BY <1>3, <1>4, <2>1
<1> QED BY <1>1, <1>2, <1>5 DEF hd, body

Word(c, i) == Uint(SubSeq(c, i * WordLen + 1, (i + 1) * WordLen))

\* What is read from a header is what was put into it.
LEMMA HeaderRead ==
  ASSUME NEW type \in MessageTypes, NEW len \in Nat, Fits(len), NEW c \in Seq(Byte),
         Len(c) = HeaderLen, \A i \in 1..HeaderLen : c[i] = Header(type, len)[i]
  PROVE  Word(c, 0) = Magic /\ Word(c, 1) = TypeNumber[type] /\ Word(c, 2) = len
<1>1. WordLen \in Nat /\ HeaderLen = 3 * WordLen
  BY Constants
<1>2. Fits(Magic) /\ Magic \in Nat /\ TypeNumber[type] \in Nat /\ Fits(TypeNumber[type])
  BY Meanings, ByteFits
<1>3. ASSUME NEW i \in 1..WordLen
      PROVE  /\ c[0 + i] = PutUint(Magic)[i] /\ c[WordLen + i] = PutUint(TypeNumber[type])[i]
             /\ c[2 * WordLen + i] = PutUint(len)[i]
  <2>1. /\ 0 + i = i /\ i \in 1..HeaderLen /\ WordLen + i \in 1..HeaderLen
        /\ 2 * WordLen + i \in 1..HeaderLen
    BY <1>1
  <2> QED BY <2>1, HeaderFacts
<1>4. Uint(SubSeq(c, 0 + 1, 0 + WordLen)) = Magic
  <2>1. 0 \in Nat /\ 0 + WordLen <= Len(c)
    BY <1>1
  <2> QED BY <1>2, <1>3, <2>1, WordAt
<1>5. Uint(SubSeq(c, WordLen + 1, WordLen + WordLen)) = TypeNumber[type]
  <2>1. WordLen \in Nat /\ WordLen + WordLen <= Len(c)
    BY <1>1
  <2> QED BY <1>2, <1>3, <2>1, WordAt
<1>6. Uint(SubSeq(c, 2 * WordLen + 1, 2 * WordLen + WordLen)) = len
  <2>1. 2 * WordLen \in Nat /\ 2 * WordLen + WordLen <= Len(c)
    BY <1>1
  <2> QED BY <1>3, <2>1, WordAt
<1>7. /\ 0 * WordLen + 1 = 0 + 1 /\ (0 + 1) * WordLen = 0 + WordLen /\ 1 * WordLen + 1 = WordLen + 1
      /\ (1 + 1) * WordLen = WordLen + WordLen /\ (2 + 1) * WordLen = 2 * WordLen + WordLen
  BY <1>1
<1> QED BY <1>4, <1>5, <1>6, <1>7 DEF Word

LEMMA TypeRead ==
  ASSUME NEW type \in MessageTypes
  PROVE  (CHOOSE t \in MessageTypes : TypeNumber[t] = TypeNumber[type]) = type
BY Meanings

-----------------------------------------------------------------------------
(* What a relay sends, and what it gets. *)

Frames(s) == [i \in 1..Len(s) |-> Framed(s[i])]
Stream(s) == Joined(Frames(s))

Pong == [type |-> "pong", body |-> <<>>]
PongFrames(s) == [i \in 1..Len(s) |-> Header("pong", 0)]
Pongs(s) == Joined(PongFrames(s))

LEMMA XDRFacts ==
  ASSUME NEW b \in Seq(Byte)
  PROVE  /\ XDRBytes(b) \in Seq(Byte) /\ Len(b) \in Nat /\ Padding(Len(b)) \in Nat
         /\ Len(XDRBytes(b)) = WordLen + Len(b) + Padding(Len(b))
         /\ \A i \in 1..WordLen : XDRBytes(b)[i] = PutUint(Len(b))[i]
         /\ \A i \in 1..Len(b) : XDRBytes(b)[WordLen + i] = b[i]
<1> DEFINE l == PutUint(Len(b))
           zeros == [i \in 1..Padding(Len(b)) |-> 0]
           lb == l \o b
           x == lb \o zeros
<1>1. Len(b) \in Nat /\ WordLen \in Nat /\ WordLen > 0
  BY Constants
<1>2. Padding(Len(b)) \in Nat
  BY <1>1 DEF Padding
<1>3. zeros \in Seq(Byte) /\ Len(zeros) = Padding(Len(b))
  <2>1. zeros \in [1..Padding(Len(b)) -> Byte]
    BY DEF Byte
  <2> QED BY <1>2, <2>1
<1>4. l \in Seq(Byte) /\ Len(l) = WordLen
  BY <1>1, PutUintType
<1>5. XDRBytes(b) = x
  BY DEF XDRBytes
<1> HIDE DEF zeros, l
<1>6. /\ lb \in Seq(Byte) /\ Len(lb) = WordLen + Len(b)
      /\ \A i \in 1..WordLen : lb[i] = l[i]
      /\ \A i \in 1..Len(b) : lb[WordLen + i] = b[i]
  BY <1>4, Concat
<1> HIDE DEF lb
<1>7. /\ x \in Seq(Byte) /\ Len(x) = Len(lb) + Len(zeros)
      /\ \A i \in 1..Len(lb) : x[i] = lb[i]
  BY <1>3, <1>6, Concat
<1> HIDE DEF x
<1>8. Len(x) = WordLen + Len(b) + Padding(Len(b))
  BY <1>1, <1>2, <1>3, <1>6, <1>7
<1>9. \A i \in 1..WordLen : x[i] = l[i]
  <2>1. \A i \in 1..WordLen : i \in 1..Len(lb)
    BY <1>1, <1>6
  <2> QED BY <1>6, <1>7, <2>1
<1>10. \A i \in 1..Len(b) : x[WordLen + i] = b[i]
  <2>1. \A i \in 1..Len(b) : WordLen + i \in 1..Len(lb)
    BY <1>1, <1>6
  <2> QED BY <1>6, <1>7, <2>1
<1> QED BY <1>1, <1>2, <1>5, <1>7, <1>8, <1>9, <1>10 DEF l

LEMMA KeyType ==
  ASSUME NEW k \in Keys
  PROVE  XDRBytes(k) \in Seq(Byte) /\ HeaderLen + Len(XDRBytes(k)) <= SmallCap
<1>1. GoodKey(k)
  BY MessageAssumption
<1> QED BY <1>1, XDRFacts DEF GoodKey

LEMMA SendingFacts ==
  ASSUME NEW s \in Sendings
  PROVE  /\ s \in Seq(Messages) /\ Len(s) \in Nat
         /\ \A i \in 1..Len(s) : s[i] \in Messages /\ GoodMessage(s[i])
<1>1. GoodSending(s)
  BY MessageAssumption
<1>2. s \in Seq(Messages) /\ \A i \in DOMAIN s : GoodMessage(s[i])
  BY <1>1 DEF GoodSending
<1>3. Len(s) \in Nat /\ DOMAIN s = 1..Len(s)
  BY <1>2
<1>4. \A i \in 1..Len(s) : s[i] \in Messages
  BY <1>2
<1> QED BY <1>2, <1>3, <1>4

LEMMA FramesType ==
  ASSUME NEW s \in Sendings
  PROVE  /\ Frames(s) \in Seq(Seq(Byte)) /\ Len(Frames(s)) = Len(s)
         /\ \A i \in 1..Len(s) : Frames(s)[i] = Framed(s[i])
<1>1. Len(s) \in Nat /\ \A i \in 1..Len(s) : Framed(s[i]) \in Seq(Byte)
  BY SendingFacts, FramedFacts
<1>2. Frames(s) \in [1..Len(s) -> Seq(Byte)] /\ \A i \in 1..Len(s) : Frames(s)[i] = Framed(s[i])
  BY <1>1 DEF Frames
<1> QED BY <1>1, <1>2

LEMMA StreamNext ==
  ASSUME NEW s \in Sendings, NEW n \in Nat, n < Len(s)
  PROVE  /\ Stream(s)[n] \in Seq(Byte) /\ Stream(s)[n + 1] \in Seq(Byte)
         /\ Stream(s)[n + 1] = Stream(s)[n] \o Framed(s[n + 1])
<1>1. Len(s) \in Nat /\ n \in 0..Len(s) /\ n + 1 \in 1..Len(s) /\ n + 1 \in 0..Len(s) /\ (n + 1) - 1 = n
  BY SendingFacts
<1>2. /\ Stream(s) \in [0..Len(s) -> Seq(Byte)]
      /\ \A k \in 1..Len(s) : Stream(s)[k] = Stream(s)[k - 1] \o Frames(s)[k]
  BY FramesType, JoinedSteps DEF Stream
<1>3. Frames(s)[n + 1] = Framed(s[n + 1])
  BY <1>1, FramesType
<1>4. Stream(s)[n + 1] = Stream(s)[(n + 1) - 1] \o Frames(s)[n + 1]
  BY <1>1, <1>2
<1> QED BY <1>1, <1>2, <1>3, <1>4

LEMMA StreamType ==
  ASSUME NEW s \in Sendings, NEW n \in 0..Len(s)
  PROVE  Stream(s)[n] \in Seq(Byte) /\ Len(Stream(s)[n]) \in Nat /\ Stream(s)[0] = <<>>
<1>1. Stream(s) \in [0..Len(s) -> Seq(Byte)] /\ Stream(s)[0] = <<>>
  BY FramesType, JoinedSteps DEF Stream
<1>2. Stream(s)[n] \in Seq(Byte)
  BY <1>1
<1> QED BY <1>1, <1>2

\* Each message stands in the stream where those before it end.
LEMMA StreamPart ==
  ASSUME NEW s \in Sendings, NEW n \in Nat, NEW m \in Nat, n < m, m <= Len(s)
  PROVE  /\ s[n + 1] \in Messages
         /\ Len(Stream(s)[n + 1]) = Len(Stream(s)[n]) + HeaderLen + Len(s[n + 1].body)
         /\ Len(Stream(s)[n + 1]) <= Len(Stream(s)[m])
         /\ \A i \in 1..HeaderLen :
              Stream(s)[m][Len(Stream(s)[n]) + i] = Header(s[n + 1].type, Len(s[n + 1].body))[i]
         /\ \A i \in 1..Len(s[n + 1].body) :
              Stream(s)[m][Len(Stream(s)[n]) + HeaderLen + i] = s[n + 1].body[i]
<1> DEFINE a == Stream(s)[n]
           b == Stream(s)[n + 1]
           c == Stream(s)[m]
           f == Framed(s[n + 1])
           body == s[n + 1].body
           hd == Header(s[n + 1].type, Len(body))
<1>1. Len(s) \in Nat /\ n < Len(s) /\ n + 1 \in 1..Len(s) /\ n + 1 \in 0..Len(s) /\ m \in (n + 1)..Len(s)
  BY SendingFacts
<1>2. s[n + 1] \in Messages
  BY <1>1, SendingFacts
<1>3. a \in Seq(Byte) /\ b \in Seq(Byte) /\ b = a \o f
  BY <1>1, StreamNext
<1>4. Len(b) <= Len(c) /\ \A i \in 1..Len(b) : c[i] = b[i]
  <2>1. n + 1 \in 0..Len(Frames(s)) /\ m \in (n + 1)..Len(Frames(s))
    BY <1>1, FramesType
  <2> QED BY <2>1, FramesType, JoinedGrows DEF Stream
<1>5. /\ f \in Seq(Byte) /\ Len(f) = HeaderLen + Len(body) /\ Len(body) \in Nat
      /\ \A i \in 1..HeaderLen : f[i] = hd[i]
      /\ \A i \in 1..Len(body) : f[HeaderLen + i] = body[i]
  BY <1>2, FramedFacts
<1>6. HeaderLen \in Nat
  BY Constants
<1> HIDE DEF a, b, c, f, body, hd
<1>7. /\ Len(a) \in Nat /\ Len(b) = Len(a) + Len(f)
      /\ \A i \in 1..Len(f) : b[Len(a) + i] = f[i]
  <2>1. /\ Len(a) \in Nat /\ Len(a \o f) = Len(a) + Len(f)
        /\ \A i \in 1..Len(f) : (a \o f)[Len(a) + i] = f[i]
    BY <1>3, <1>5, Concat
  <2> QED BY <1>3, <2>1
<1>8. Len(b) = Len(a) + HeaderLen + Len(body)
  BY <1>5, <1>6, <1>7
<1>9. ASSUME NEW i \in 1..Len(f) PROVE c[Len(a) + i] = f[i]
  <2>1. Len(a) + i \in 1..Len(b)
    BY <1>5, <1>6, <1>7
  <2> QED BY <1>4, <1>7, <2>1
<1>10. ASSUME NEW i \in 1..HeaderLen PROVE c[Len(a) + i] = hd[i]
  <2>1. i \in 1..Len(f)
    BY <1>5, <1>6
  <2> QED BY <1>5, <1>9, <2>1
<1>11. ASSUME NEW i \in 1..Len(body) PROVE c[Len(a) + HeaderLen + i] = body[i]
  <2>1. HeaderLen + i \in 1..Len(f) /\ Len(a) + (HeaderLen + i) = Len(a) + HeaderLen + i
    BY <1>5, <1>6, <1>7
  <2>2. c[Len(a) + (HeaderLen + i)] = f[HeaderLen + i]
    BY <1>9, <2>1
  <2> QED BY <1>5, <2>1, <2>2
<1> QED BY <1>2, <1>4, <1>8, <1>10, <1>11 DEF a, b, c, body, hd

LEMMA PongType == Pong \in Messages /\ Framed(Pong) \in Seq(Byte) /\ Len(Framed(Pong)) = HeaderLen
<1>1. Pong \in Messages /\ Len(Pong.body) = 0
  BY DEF Pong, Messages, MessageTypes
<1>2. Framed(Pong) \in Seq(Byte) /\ Len(Framed(Pong)) = HeaderLen + Len(Pong.body)
  BY <1>1, FramedFacts
<1> QED BY <1>1, <1>2, Constants

LEMMA PongFramesType ==
  ASSUME NEW s \in Sendings
  PROVE  /\ PongFrames(s) \in Seq(Seq(Byte)) /\ Len(PongFrames(s)) = Len(s)
         /\ \A i \in 1..Len(s) : PongFrames(s)[i] = Framed(Pong)
<1>1. Header("pong", 0) = Framed(Pong)
  <2> DEFINE hd == Header("pong", 0)
  <2>1. hd \in Seq(Byte)
    BY HeaderFacts DEF MessageTypes
  <2>2. Framed(Pong) = hd \o <<>>
    BY DEF Framed, Pong
  <2> HIDE DEF hd
  <2>3. hd \o <<>> = hd
    BY <2>1, ConcatEmptySeq
  <2> QED BY <2>2, <2>3 DEF hd
<1>2. Len(s) \in Nat /\ Framed(Pong) \in Seq(Byte)
  BY SendingFacts, PongType
<1>3. PongFrames(s) \in [1..Len(s) -> Seq(Byte)] /\ \A i \in 1..Len(s) : PongFrames(s)[i] = Framed(Pong)
  BY <1>1, <1>2 DEF PongFrames
<1> QED BY <1>2, <1>3

LEMMA PongsNext ==
  ASSUME NEW s \in Sendings, NEW n \in Nat, n < Len(s)
  PROVE  Pongs(s)[n] \in Seq(Byte) /\ Pongs(s)[n + 1] = Pongs(s)[n] \o Framed(Pong)
<1>1. Len(s) \in Nat /\ n \in 0..Len(s) /\ n + 1 \in 1..Len(s) /\ (n + 1) - 1 = n
  BY SendingFacts
<1>2. /\ Pongs(s) \in [0..Len(s) -> Seq(Byte)]
      /\ \A k \in 1..Len(s) : Pongs(s)[k] = Pongs(s)[k - 1] \o PongFrames(s)[k]
  BY PongFramesType, JoinedSteps DEF Pongs
<1>3. PongFrames(s)[n + 1] = Framed(Pong)
  BY <1>1, PongFramesType
<1>4. Pongs(s)[n + 1] = Pongs(s)[(n + 1) - 1] \o PongFrames(s)[n + 1]
  BY <1>1, <1>2
<1> QED BY <1>1, <1>2, <1>3, <1>4

LEMMA PongsType ==
  ASSUME NEW s \in Sendings, NEW n \in 0..Len(s)
  PROVE  Pongs(s)[n] \in Seq(Byte) /\ Pongs(s)[0] = <<>>
BY PongFramesType, JoinedSteps DEF Pongs

\* So many pongs are a part of as many as there are messages.
LEMMA PongsGrow ==
  ASSUME NEW s \in Sendings, NEW n \in 0..Len(s)
  PROVE  LET all == FlattenSeq(PongFrames(s)) IN
         /\ all \in Seq(Byte) /\ Len(Pongs(s)[n]) <= Len(all)
         /\ \A i \in 1..Len(Pongs(s)[n]) : all[i] = Pongs(s)[n][i]
<1>1. FlattenSeq(PongFrames(s)) = Pongs(s)[Len(s)]
  BY PongFramesType, FlattenIsJoined DEF Pongs
<1>2. n \in 0..Len(PongFrames(s)) /\ Len(s) \in n..Len(PongFrames(s))
  BY PongFramesType, SendingFacts
<1>3. /\ Pongs(s)[Len(s)] \in Seq(Byte) /\ Len(Pongs(s)[n]) <= Len(Pongs(s)[Len(s)])
      /\ \A i \in 1..Len(Pongs(s)[n]) : Pongs(s)[Len(s)][i] = Pongs(s)[n][i]
  BY <1>2, PongFramesType, JoinedGrows DEF Pongs
<1> QED BY <1>1, <1>3

-----------------------------------------------------------------------------
(* Buffers. *)

LEMMA FirstFacts ==
  ASSUME NEW S, NEW c \in Seq(S), NEW n \in 0..Len(c)
  PROVE  /\ First(c, n) \in Seq(S) /\ Len(First(c, n)) = n
         /\ \A i \in 1..n : First(c, n)[i] = c[i]
<1>1. n \in Nat /\ Len(c) \in Nat /\ \A i \in 1..n : c[i] \in S
  OBVIOUS
<1>2. /\ SubSeq(c, 1, n) \in Seq(S)
      /\ Len(SubSeq(c, 1, n)) = IF 1 <= n THEN n - 1 + 1 ELSE 0
      /\ \A i \in 1..(n - 1 + 1) : SubSeq(c, 1, n)[i] = c[1 + i - 1]
  BY <1>1, SubSeqProperties
<1> QED BY <1>1, <1>2 DEF First

LEMMA AfterFacts ==
  ASSUME NEW S, NEW c \in Seq(S), NEW n \in 0..Len(c)
  PROVE  /\ After(c, n) \in Seq(S) /\ Len(After(c, n)) = Len(c) - n
         /\ \A i \in 1..(Len(c) - n) : After(c, n)[i] = c[n + i]
<1> DEFINE l == Len(c)
           r == SubSeq(c, n + 1, l)
<1>1. n \in Nat /\ l \in Nat /\ n <= l /\ \A i \in (n + 1)..l : c[i] \in S
  OBVIOUS
<1>2. /\ r \in Seq(S)
      /\ Len(r) = IF n + 1 <= l THEN l - (n + 1) + 1 ELSE 0
      /\ \A i \in 1..(l - (n + 1) + 1) : r[i] = c[(n + 1) + i - 1]
  BY <1>1, SubSeqProperties
<1> HIDE DEF l, r
<1>3. Len(r) = l - n
  BY <1>1, <1>2
<1>4. ASSUME NEW i \in 1..(l - n) PROVE r[i] = c[n + i]
  <2>1. i \in 1..(l - (n + 1) + 1) /\ (n + 1) + i - 1 = n + i
    BY <1>1
  <2> QED BY <1>2, <2>1
<1> QED BY <1>2, <1>3, <1>4 DEF After, l, r

\* Bytes put into a buffer leave what is before them and its length.
LEMMA FilledBuffer ==
  ASSUME NEW c \in Seq(Byte), NEW bytes \in Seq(Byte), NEW n \in Nat, n + Len(bytes) <= Len(c)
  PROVE  LET r == First(c, n) \o bytes \o After(c, n + Len(bytes)) IN
         /\ r \in Seq(Byte) /\ Len(r) = Len(c)
         /\ \A i \in 1..n : r[i] = c[i]
         /\ \A i \in 1..Len(bytes) : r[n + i] = bytes[i]
<1> DEFINE f == First(c, n)
           a == After(c, n + Len(bytes))
           fb == f \o bytes
           r == fb \o a
<1>1. Len(c) \in Nat /\ Len(bytes) \in Nat /\ n \in 0..Len(c) /\ n + Len(bytes) \in 0..Len(c)
  OBVIOUS
<1>2. f \in Seq(Byte) /\ Len(f) = n /\ \A i \in 1..n : f[i] = c[i]
  BY <1>1, FirstFacts
<1>3. a \in Seq(Byte) /\ Len(a) = Len(c) - (n + Len(bytes))
  BY <1>1, AfterFacts
<1> HIDE DEF f, a
<1>4. /\ fb \in Seq(Byte) /\ Len(fb) = n + Len(bytes)
      /\ \A i \in 1..n : fb[i] = f[i]
      /\ \A i \in 1..Len(bytes) : fb[n + i] = bytes[i]
  BY <1>2, Concat
<1> HIDE DEF fb
<1>5. /\ r \in Seq(Byte) /\ Len(r) = Len(fb) + Len(a)
      /\ \A i \in 1..Len(fb) : r[i] = fb[i]
  BY <1>3, <1>4, Concat
<1> HIDE DEF r
<1>6. Len(r) = Len(c)
  BY <1>1, <1>3, <1>4, <1>5
<1>7. \A i \in 1..n : i \in 1..Len(fb)
  BY <1>1, <1>4
<1>8. \A i \in 1..Len(bytes) : n + i \in 1..Len(fb)
  BY <1>1, <1>4
<1>9. \A i \in 1..n : r[i] = c[i]
  BY <1>2, <1>4, <1>5, <1>7
<1>10. \A i \in 1..Len(bytes) : r[n + i] = bytes[i]
  BY <1>4, <1>5, <1>8
<1> QED BY <1>5, <1>6, <1>9, <1>10 DEF r, fb, f, a

LEMMA BufferFacts ==
  /\ NoBuffer \notin Buffers
  /\ \A b \in Buffers : /\ b[1] \in Pools /\ Capacity[b[1]] \in Nat
                        /\ Blank(b) \in Seq(Byte) /\ Len(Blank(b)) = Capacity[b[1]]
<1>1. NoBuffer \notin Buffers
  BY DEF NoBuffer, Buffers
<1>2. ASSUME NEW b \in Buffers
      PROVE  /\ b[1] \in Pools /\ Capacity[b[1]] \in Nat
             /\ Blank(b) \in Seq(Byte) /\ Len(Blank(b)) = Capacity[b[1]]
  <2>1. b[1] \in Pools
    BY DEF Buffers
  <2>2. Capacity[b[1]] \in Nat
    BY <2>1, Constants DEF Pools, Capacity
  <2>3. Blank(b) \in [1..Capacity[b[1]] -> Byte]
    BY DEF Blank, Byte
  <2> QED BY <2>1, <2>2, <2>3
<1> QED BY <1>1, <1>2

LEMMA LeastOfThree ==
  ASSUME NEW a \in Nat, NEW b \in Nat, NEW c \in Nat
  PROVE  LET n == Min({a, b, c}) IN n \in {a, b, c} /\ n <= a /\ n <= b /\ n <= c
<1> DEFINE S == {a, b, c}
           n == Min(S)
<1>1. \E x \in S : \A y \in S : x <= y
  OBVIOUS
<1>2. n \in S /\ \A y \in S : n <= y
  BY <1>1 DEF Min
<1> HIDE DEF n
<1>3. n \in {a, b, c} /\ n <= a /\ n <= b /\ n <= c
  BY <1>2
<1> QED BY <1>3 DEF n

-----------------------------------------------------------------------------
(* The inductive invariant. *)

Places == {"write", "send", "getHeader", "header", "getBody", "body", "handle", "done", "failed"}
Ended == {"done", "failed"}
Holding == {"send", "header", "body"}

\* How many messages have been read, and where in the stream the header or the
\* body begins that is being read.
Count(g) == Len(received[g])
Base(g) ==
  Len(Stream(sending[g])[Count(g)]) + (IF pc[g] \in {"getBody", "body"} THEN HeaderLen ELSE 0)
Offset(g) == IF pc[g] \in {"header", "body"} THEN filled[g] ELSE 0
Position(g) == Base(g) + Offset(g)
Sent(g) == Stream(sending[g])[sent[g]]

Types ==
  /\ TypeOK
  /\ outbox \in [Goroutines -> Messages] /\ sent \in [Goroutines -> Nat]
  /\ head \in [Goroutines -> [type : MessageTypes \cup {"none"}, length : Nat]]
  /\ incoming \in [Goroutines -> Seq(Byte)] /\ wire \in [Goroutines -> Seq(Byte)]
  /\ received \in [Goroutines -> Seq(Messages)]
  /\ decoded \in [Goroutines -> Seq([body : Seq(Byte), inv : {DecodeInvitation(b) : b \in Seq(Byte)}])]
  /\ content \in [Buffers -> Seq(Byte)] /\ \A b \in Buffers : Len(content[b]) = Capacity[b[1]]

\* What has been read is what the relay sent first.
Kept(g) ==
  /\ Count(g) <= sent[g] /\ sent[g] <= Len(sending[g])
  /\ \A i \in 1..Count(g) : received[g][i] = sending[g][i]
  /\ pc[g] = "handle" => Count(g) > 0

\* What is on the way comes next in the stream, up to its end or the connection's.
Arriving(g) ==
  pc[g] \notin Ended =>
    /\ Position(g) + Len(incoming[g]) <= Len(Sent(g))
    /\ ~cut[g] => Position(g) + Len(incoming[g]) = Len(Sent(g))
    /\ \A i \in 1..Len(incoming[g]) : incoming[g][i] = Sent(g)[Position(g) + i]

\* The buffer begins with what comes before.
Buffered(g) ==
  pc[g] \in {"header", "body"} => \A i \in 1..filled[g] : content[buf[g]][i] = Sent(g)[Base(g) + i]

\* The buffer is large enough; the header of the body was read as it was meant.
Announced(g) ==
  /\ pc[g] = "header" => buf[g][1] = "header" /\ filled[g] <= HeaderLen
  /\ pc[g] \in {"getBody", "body"} =>
       /\ Count(g) < sent[g]
       /\ head[g].type = sending[g][Count(g) + 1].type
       /\ head[g].length = Len(sending[g][Count(g) + 1].body)
       /\ head[g].length <= MaxMessage
  /\ pc[g] = "body" =>
       /\ buf[g][1] = (IF head[g].length <= SmallCap THEN "small" ELSE "large")
       /\ filled[g] <= head[g].length

\* A buffer is in its pool or one goroutine has it.
Exclusive ==
  \A g \in Goroutines :
    /\ buf[g] = NoBuffer <=> pc[g] \notin Holding
    /\ buf[g] \notin idle
    /\ \A h \in Goroutines : g # h /\ buf[g] # NoBuffer => buf[g] # buf[h]

\* The message to send is in its buffer.
Ready(g) ==
  pc[g] = "send" =>
    /\ buf[g][1] = "small"
    /\ \A i \in 1..Len(Framed(outbox[g])) : content[buf[g]][i] = Framed(outbox[g])[i]

\* The relay got the request and k pongs, of which none is for a message that is
\* still being handled.
Answered(g, k) ==
  /\ wire[g] = Framed(Request(g)) \o Pongs(sending[g])[k]
  /\ pc[g] \in {"handle", "write", "send"} => k < Count(g)
  /\ pc[g] \in {"write", "send"} => outbox[g] = Pong

Unasked(g) == wire[g] = <<>> /\ outbox[g] = Request(g) /\ pc[g] \in {"write", "send", "failed"}

Written(g) == Unasked(g) \/ \E k \in 0..Count(g) : Answered(g, k)

\* Every body that was decoded is that of an invitation some relay sends.
Understood(g) ==
  \A i \in 1..Len(decoded[g]) :
    /\ decoded[g][i].inv = DecodeInvitation(decoded[g][i].body)
    /\ \E s \in Sendings : \E j \in 1..Len(s) :
         s[j].type = "sessionInvitation" /\ s[j].body = decoded[g][i].body

Own(g) == Kept(g) /\ Arriving(g) /\ Buffered(g) /\ Announced(g) /\ Ready(g) /\ Written(g) /\ Understood(g)

IInv == Types /\ Exclusive /\ \A g \in Goroutines : Own(g)

\* A step of one goroutine leaves alone what the others have.
LEMMA OthersKeep ==
  ASSUME NEW h \in Goroutines, Own(h), UNCHANGED <<key, sending>>,
         pc'[h] = pc[h], outbox'[h] = outbox[h], buf'[h] = buf[h], filled'[h] = filled[h],
         head'[h] = head[h], sent'[h] = sent[h], incoming'[h] = incoming[h], cut'[h] = cut[h],
         wire'[h] = wire[h], received'[h] = received[h], decoded'[h] = decoded[h],
         pc[h] \in Holding => content'[buf[h]] = content[buf[h]]
  PROVE  Own(h)'
<1>1. Count(h)' = Count(h) /\ Base(h)' = Base(h) /\ Offset(h)' = Offset(h) /\ Sent(h)' = Sent(h)
  BY DEF Count, Base, Offset, Sent
<1>2. Position(h)' = Position(h) /\ Request(h)' = Request(h)
  BY <1>1 DEF Position, Request
<1>3. Kept(h)'
  BY <1>1 DEF Own, Kept
<1>4. Arriving(h)'
  BY <1>1, <1>2 DEF Own, Arriving
<1>5. Buffered(h)'
  BY <1>1 DEF Own, Buffered, Holding
<1>6. Announced(h)'
  BY <1>1 DEF Own, Announced
<1>7. Ready(h)'
  BY DEF Own, Ready, Holding
<1>8. Written(h)'
  <2>1. Unasked(h) => Unasked(h)'
    BY <1>2 DEF Unasked
  <2>2. \A k \in 0..Count(h) : Answered(h, k) => Answered(h, k)'
    BY <1>1, <1>2 DEF Answered
  <2> QED BY <1>1, <2>1, <2>2 DEF Own, Written
<1>9. Understood(h)'
  BY DEF Own, Understood
<1> QED BY <1>3, <1>4, <1>5, <1>6, <1>7, <1>8, <1>9 DEF Own

\* So it is enough to look at the goroutine that takes a step.
LEMMA OneSteps ==
  ASSUME IInv, NEW g \in Goroutines, UNCHANGED <<key, sending>>, Types', Exclusive', Own(g)',
         \A h \in Goroutines \ {g} :
           /\ pc'[h] = pc[h] /\ outbox'[h] = outbox[h] /\ buf'[h] = buf[h] /\ filled'[h] = filled[h]
           /\ head'[h] = head[h] /\ sent'[h] = sent[h] /\ incoming'[h] = incoming[h]
           /\ cut'[h] = cut[h] /\ wire'[h] = wire[h] /\ received'[h] = received[h]
           /\ decoded'[h] = decoded[h]
           /\ pc[h] \in Holding => content'[buf[h]] = content[buf[h]]
  PROVE  IInv'
<1>1. ASSUME NEW h \in Goroutines PROVE Own(h)'
  <2>1. CASE h = g
    BY <2>1
  <2>2. CASE h # g
    <3>1. Own(h) /\ h \in Goroutines \ {g}
      BY <2>2 DEF IInv
    <3> QED BY <3>1, OthersKeep
  <2> QED BY <2>1, <2>2
<1> QED BY <1>1 DEF IInv

LEMMA InitIInv == Init => IInv
<1> SUFFICES ASSUME Init PROVE IInv
  OBVIOUS
<1> USE DEF Init
<1>1. ASSUME NEW g \in Goroutines
      PROVE  /\ key[g] \in Keys /\ sending[g] \in Sendings /\ Request(g) \in Messages
             /\ outbox[g] = Request(g)
  <2>1. key[g] \in Keys /\ sending[g] \in Sendings
    OBVIOUS
  <2>2. XDRBytes(key[g]) \in Seq(Byte)
    BY <2>1, KeyType
  <2> QED BY <2>1, <2>2 DEF Request, Messages, MessageTypes
<1>2. Types
  <2>1. TypeOK
    BY Constants DEF TypeOK
  <2>2. outbox \in [Goroutines -> Messages]
    BY <1>1
  <2>3. content \in [Buffers -> Seq(Byte)] /\ \A b \in Buffers : Len(content[b]) = Capacity[b[1]]
    BY BufferFacts
  <2>4. head \in [Goroutines -> [type : MessageTypes \cup {"none"}, length : Nat]]
    BY DEF NoHead
  <2> QED BY <2>1, <2>2, <2>3, <2>4, EmptySeq DEF Types
<1>3. Exclusive
  BY BufferFacts DEF Exclusive, Holding
<1>4. ASSUME NEW g \in Goroutines PROVE Own(g)
  <2>1. Count(g) = 0 /\ Len(received[g]) = 0 /\ sent[g] = 0 /\ Len(sending[g]) \in Nat
    BY <1>1, EmptySeq, SendingFacts DEF Count
  <2>2. Kept(g)
    BY <2>1 DEF Kept
  <2>3. Stream(sending[g])[0] = <<>>
    <3>1. 0 \in 0..Len(sending[g]) /\ sending[g] \in Sendings
      BY <1>1, <2>1
    <3> QED BY <3>1, StreamType
  <2>4. Position(g) = 0 /\ Len(Sent(g)) = 0
    BY <2>1, <2>3, EmptySeq DEF Position, Base, Offset, Sent
  <2>5. Arriving(g)
    BY <2>4, EmptySeq DEF Arriving
  <2>6. Written(g)
    BY <1>1 DEF Written, Unasked
  <2>7. Understood(g)
    BY EmptySeq DEF Understood
  <2> QED BY <2>2, <2>5, <2>6, <2>7 DEF Own, Buffered, Announced, Ready
<1> QED BY <1>2, <1>3, <1>4 DEF IInv

-----------------------------------------------------------------------------
(* The pools. *)

LEMMA TakeFacts ==
  ASSUME IInv, NEW g \in Goroutines, NEW pool \in Pools, Take(g, pool), pc[g] \notin Holding,
         NEW place \in Holding, Goto(g, place)
  PROVE  /\ Exclusive' /\ buf' \in [Goroutines -> Buffers \cup {NoBuffer}] /\ idle' \subseteq Buffers
         /\ buf'[g] \in Buffers /\ buf'[g][1] = pool
         /\ \A h \in Goroutines \ {g} : buf'[h] = buf[h] /\ buf[h] # buf'[g]
<1>1. PICK b \in idle : b[1] = pool /\ buf' = [buf EXCEPT ![g] = b] /\ idle' = idle \ {b}
  BY DEF Take
<1>2. /\ buf \in [Goroutines -> Buffers \cup {NoBuffer}] /\ idle \subseteq Buffers
      /\ pc \in [Goroutines -> Places]
  BY DEF IInv, Types, TypeOK, Places
<1>3. b \in Buffers /\ b # NoBuffer
  BY <1>1, <1>2, BufferFacts
<1>4. /\ buf'[g] = b /\ pc'[g] = place
      /\ \A h \in Goroutines \ {g} : buf'[h] = buf[h] /\ pc'[h] = pc[h]
  BY <1>1, <1>2 DEF Goto
<1>5. \A h \in Goroutines : buf[h] # b
  BY <1>1 DEF IInv, Exclusive
<1>6. Exclusive'
  BY <1>1, <1>3, <1>4, <1>5 DEF IInv, Exclusive
<1> QED BY <1>1, <1>2, <1>3, <1>4, <1>5, <1>6

LEMMA PutFacts ==
  ASSUME IInv, NEW g \in Goroutines, Put(g), pc[g] \in Holding, NEW place, place \notin Holding,
         Goto(g, place)
  PROVE  /\ Exclusive' /\ buf' \in [Goroutines -> Buffers \cup {NoBuffer}] /\ idle' \subseteq Buffers
         /\ content' \in [Buffers -> Seq(Byte)] /\ \A b \in Buffers : Len(content'[b]) = Capacity[b[1]]
         /\ \A h \in Goroutines \ {g} :
              buf'[h] = buf[h] /\ (pc[h] \in Holding => content'[buf[h]] = content[buf[h]])
<1> DEFINE b == buf[g]
<1>1. /\ buf \in [Goroutines -> Buffers \cup {NoBuffer}] /\ idle \subseteq Buffers
      /\ pc \in [Goroutines -> Places] /\ content \in [Buffers -> Seq(Byte)]
      /\ \A c \in Buffers : Len(content[c]) = Capacity[c[1]]
  BY DEF IInv, Types, TypeOK, Places
<1>2. b # NoBuffer /\ b \in Buffers
  BY <1>1 DEF IInv, Exclusive
<1>3. \A h \in Goroutines \ {g} : buf[h] # b
  BY <1>2 DEF IInv, Exclusive
<1>4. \A h \in Goroutines : pc[h] \in Holding => buf[h] \in Buffers
  BY <1>1 DEF IInv, Exclusive
<1>5. /\ buf'[g] = NoBuffer /\ pc'[g] = place
      /\ \A h \in Goroutines \ {g} : buf'[h] = buf[h] /\ pc'[h] = pc[h]
  BY <1>1 DEF Put, Goto
<1> HIDE DEF b
<1>6. idle' = idle \cup {b} /\ content' = [content EXCEPT ![b] = Blank(b)]
  BY DEF Put, b
<1>7. Exclusive'
  <2>1. NoBuffer \notin idle'
    BY <1>1, <1>2, <1>6, BufferFacts
  <2>2. \A h \in Goroutines \ {g} : buf'[h] \notin idle'
    BY <1>3, <1>5, <1>6 DEF IInv, Exclusive
  <2> QED BY <1>3, <1>5, <2>1, <2>2 DEF IInv, Exclusive
<1>8. content' \in [Buffers -> Seq(Byte)] /\ \A c \in Buffers : Len(content'[c]) = Capacity[c[1]]
  BY <1>1, <1>2, <1>6, BufferFacts
<1>9. \A h \in Goroutines \ {g} : pc[h] \in Holding => content'[buf[h]] = content[buf[h]]
  BY <1>1, <1>3, <1>4, <1>6
<1>10. buf' \in [Goroutines -> Buffers \cup {NoBuffer}] /\ idle' \subseteq Buffers
  BY <1>1, <1>2, <1>6 DEF Put
<1> QED BY <1>5, <1>7, <1>8, <1>9, <1>10

\* What bytes put into the buffer of a goroutine leave.
LEMMA FillingFacts ==
  ASSUME IInv, NEW b \in Buffers, NEW n \in Nat, NEW bytes \in Seq(Byte),
         n + Len(bytes) <= Capacity[b[1]], Filling(b, n, bytes)
  PROVE  /\ content' \in [Buffers -> Seq(Byte)] /\ \A c \in Buffers : Len(content'[c]) = Capacity[c[1]]
         /\ \A i \in 1..n : content'[b][i] = content[b][i]
         /\ \A i \in 1..Len(bytes) : content'[b][n + i] = bytes[i]
         /\ \A c \in Buffers \ {b} : content'[c] = content[c]
<1> DEFINE r == First(content[b], n) \o bytes \o After(content[b], n + Len(bytes))
<1>1. content \in [Buffers -> Seq(Byte)] /\ \A c \in Buffers : Len(content[c]) = Capacity[c[1]]
  BY DEF IInv, Types
<1>2. content[b] \in Seq(Byte) /\ n + Len(bytes) <= Len(content[b])
  BY <1>1
<1>3. /\ r \in Seq(Byte) /\ Len(r) = Len(content[b])
      /\ \A i \in 1..n : r[i] = content[b][i]
      /\ \A i \in 1..Len(bytes) : r[n + i] = bytes[i]
  BY <1>2, FilledBuffer
<1>4. content' = [content EXCEPT ![b] = r]
  BY DEF Filling
<1> HIDE DEF r
<1>5. content'[b] = r /\ \A c \in Buffers \ {b} : content'[c] = content[c]
  BY <1>1, <1>4
<1>6. content' \in [Buffers -> Seq(Byte)]
  BY <1>1, <1>3, <1>4
<1>7. \A c \in Buffers : Len(content'[c]) = Capacity[c[1]]
  BY <1>1, <1>3, <1>5
<1> QED BY <1>3, <1>5, <1>6, <1>7

-----------------------------------------------------------------------------
(* Writing. *)

LEMMA OwnFacts ==
  ASSUME IInv, NEW g \in Goroutines
  PROVE  /\ sending[g] \in Sendings /\ key[g] \in Keys /\ outbox[g] \in Messages
         /\ pc[g] \in Places /\ filled[g] \in Nat /\ sent[g] \in Nat
         /\ incoming[g] \in Seq(Byte) /\ Len(incoming[g]) \in Nat /\ wire[g] \in Seq(Byte)
         /\ received[g] \in Seq(Messages) /\ Count(g) \in Nat
         /\ Own(g)
         /\ pc[g] \in Holding =>
              /\ buf[g] \in Buffers /\ content[buf[g]] \in Seq(Byte)
              /\ Len(content[buf[g]]) = Capacity[buf[g][1]]
<1>1. Types /\ Own(g) /\ Exclusive
  BY DEF IInv
<1>2. /\ sending[g] \in Sendings /\ key[g] \in Keys /\ outbox[g] \in Messages
      /\ pc[g] \in Places /\ filled[g] \in 0..MaxMessage /\ sent[g] \in Nat
      /\ incoming[g] \in Seq(Byte) /\ wire[g] \in Seq(Byte) /\ received[g] \in Seq(Messages)
  BY <1>1 DEF Types, TypeOK, Places
<1>3. filled[g] \in Nat
  BY <1>2, Constants
<1>4. Len(incoming[g]) \in Nat /\ Count(g) \in Nat
  BY <1>2 DEF Count
<1>5. pc[g] \in Holding => buf[g] \in Buffers
  BY <1>1 DEF Types, TypeOK, Exclusive
<1>6. pc[g] \in Holding =>
        content[buf[g]] \in Seq(Byte) /\ Len(content[buf[g]]) = Capacity[buf[g][1]]
  BY <1>1, <1>5 DEF Types
<1> QED BY <1>1, <1>2, <1>3, <1>4, <1>5, <1>6

LEMMA RequestFacts ==
  ASSUME IInv, NEW g \in Goroutines
  PROVE  /\ Request(g) \in Messages /\ Request(g).type = "connectRequest"
         /\ Framed(Request(g)) \in Seq(Byte) /\ Len(Framed(Request(g))) <= SmallCap
<1>1. XDRBytes(key[g]) \in Seq(Byte) /\ HeaderLen + Len(XDRBytes(key[g])) <= SmallCap
  BY OwnFacts, KeyType
<1>2. /\ Request(g) \in Messages /\ Request(g).type = "connectRequest"
      /\ Request(g).body = XDRBytes(key[g])
  BY <1>1 DEF Request, Messages, MessageTypes
<1> QED BY <1>1, <1>2, FramedFacts

\* What is written is the request or a pong; both fit a small buffer.
LEMMA OutboxFacts ==
  ASSUME IInv, NEW g \in Goroutines, pc[g] \in {"write", "send"}
  PROVE  /\ outbox[g] = Request(g) \/ outbox[g] = Pong
         /\ Framed(outbox[g]) \in Seq(Byte) /\ Len(Framed(outbox[g])) \in 0..SmallCap
<1>1. outbox[g] = Request(g) \/ outbox[g] = Pong
  BY OwnFacts DEF Own, Written, Unasked, Answered
<1>2. Framed(outbox[g]) \in Seq(Byte) /\ Len(Framed(outbox[g])) <= SmallCap
  BY <1>1, RequestFacts, PongType, Constants
<1>3. Len(Framed(outbox[g])) \in Nat
  BY <1>2
<1> QED BY <1>1, <1>2, <1>3, Constants

\* Where nothing is read, reading goes on later as it would have.
LEMMA StillReading ==
  ASSUME IInv, NEW g \in Goroutines, UNCHANGED sending,
         received'[g] = received[g], sent'[g] = sent[g], incoming'[g] = incoming[g], cut'[g] = cut[g],
         pc[g] \notin Ended \cup {"getBody", "header", "body"}, pc'[g] \notin {"getBody", "header", "body"},
         pc'[g] = "handle" => pc[g] = "handle"
  PROVE  Kept(g)' /\ Arriving(g)' /\ Buffered(g)' /\ Announced(g)'
<1>1. Count(g)' = Count(g) /\ Base(g)' = Base(g) /\ Offset(g)' = Offset(g) /\ Sent(g)' = Sent(g)
  BY DEF Count, Base, Offset, Sent
<1>2. Position(g)' = Position(g)
  BY <1>1 DEF Position
<1>3. Kept(g)'
  BY <1>1, OwnFacts DEF Own, Kept
<1>4. Arriving(g)'
  BY <1>1, <1>2, OwnFacts DEF Own, Arriving
<1> QED BY <1>3, <1>4 DEF Buffered, Announced

LEMMA WriteMessageStep == ASSUME IInv, NEW g \in Goroutines, WriteMessage(g) PROVE IInv'
<1> DEFINE b == buf'[g]
<1>1. /\ pc[g] = "write" /\ Take(g, "small") /\ Filling(buf'[g], 0, Framed(outbox[g])) /\ Goto(g, "send")
      /\ UNCHANGED <<key, sending, outbox, filled, head, sent, incoming, cut, wire, received, decoded>>
  BY DEF WriteMessage, conn
<1>2. Types /\ pc \in [Goroutines -> Places]
  BY DEF IInv, Types, TypeOK, Places
<1>3. pc'[g] = "send" /\ \A h \in Goroutines \ {g} : pc'[h] = pc[h]
  BY <1>1, <1>2 DEF Goto
<1>4. /\ Exclusive' /\ buf' \in [Goroutines -> Buffers \cup {NoBuffer}] /\ idle' \subseteq Buffers
      /\ b \in Buffers /\ b[1] = "small"
      /\ \A h \in Goroutines \ {g} : buf'[h] = buf[h] /\ buf[h] # b
  <2>1. "small" \in Pools /\ pc[g] \notin Holding /\ "send" \in Holding
    BY <1>1 DEF Pools, Holding
  <2> QED BY <1>1, <2>1, TakeFacts
<1>5. Framed(outbox[g]) \in Seq(Byte) /\ Len(Framed(outbox[g])) \in 0..SmallCap
  BY <1>1, OutboxFacts
<1> HIDE DEF b
<1>6. /\ content' \in [Buffers -> Seq(Byte)] /\ \A c \in Buffers : Len(content'[c]) = Capacity[c[1]]
      /\ \A i \in 1..Len(Framed(outbox[g])) : content'[b][0 + i] = Framed(outbox[g])[i]
      /\ \A c \in Buffers \ {b} : content'[c] = content[c]
  <2>1. 0 + Len(Framed(outbox[g])) <= Capacity[b[1]]
    BY <1>4, <1>5, Constants DEF Capacity
  <2>2. Filling(b, 0, Framed(outbox[g]))
    BY <1>1 DEF b
  <2> DEFINE z == 0
             bytes == Framed(outbox[g])
  <2>3. z \in Nat /\ z + Len(bytes) <= Capacity[b[1]] /\ Filling(b, z, bytes) /\ bytes \in Seq(Byte)
    BY <1>5, <2>1, <2>2
  <2> HIDE DEF z, bytes
  <2>4. /\ content' \in [Buffers -> Seq(Byte)] /\ \A c \in Buffers : Len(content'[c]) = Capacity[c[1]]
        /\ \A i \in 1..Len(bytes) : content'[b][z + i] = bytes[i]
        /\ \A c \in Buffers \ {b} : content'[c] = content[c]
    BY <1>4, <2>3, FillingFacts
  <2> QED BY <2>4 DEF z, bytes
<1>7. Types'
  <2>1. pc' \in [Goroutines -> Places]
    BY <1>1, <1>2 DEF Goto, Places
  <2> QED BY <1>1, <1>2, <1>4, <1>6, <2>1 DEF Types, TypeOK, Places
<1>8. Kept(g)' /\ Arriving(g)' /\ Buffered(g)' /\ Announced(g)'
  BY <1>1, <1>3, StillReading DEF Ended
<1>9. Ready(g)'
  <2>1. \A i \in 1..Len(Framed(outbox[g])) : content'[b][i] = Framed(outbox[g])[i]
    BY <1>5, <1>6
  <2> QED BY <1>1, <1>4, <2>1 DEF Ready, b
<1>10. Written(g)'
  <2>1. Count(g)' = Count(g) /\ Request(g)' = Request(g)
    BY <1>1 DEF Count, Request
  <2>2. Unasked(g) => Unasked(g)'
    BY <1>1, <1>3, <2>1 DEF Unasked
  <2>3. \A k \in 0..Count(g) : Answered(g, k) => Answered(g, k)'
    BY <1>1, <1>3, <2>1 DEF Answered
  <2> QED BY <2>1, <2>2, <2>3, OwnFacts DEF Own, Written
<1>11. Own(g)'
  <2>1. Understood(g)'
    BY <1>1, OwnFacts DEF Own, Understood
  <2> QED BY <1>8, <1>9, <1>10, <2>1 DEF Own
<1>12. \A h \in Goroutines \ {g} : pc[h] \in Holding => content'[buf[h]] = content[buf[h]]
  BY <1>4, <1>6, OwnFacts
<1> QED BY <1>1, <1>3, <1>4, <1>7, <1>11, <1>12, OneSteps

LEMMA SendStep == ASSUME IInv, NEW g \in Goroutines, Send(g) PROVE IInv'
<1> DEFINE frame == Framed(outbox[g])
           place == IF ~cut[g] \/ outbox[g].type = "pong" THEN "getHeader" ELSE "failed"
<1>1. /\ pc[g] = "send" /\ Put(g)
      /\ UNCHANGED <<key, sending, outbox, filled, head, sent, incoming, cut, received, decoded>>
      /\ ~cut[g] => wire' = [wire EXCEPT ![g] = @ \o First(content[buf[g]], Len(frame))]
      /\ cut[g] => UNCHANGED wire
      /\ Goto(g, place)
  BY DEF Send
<1>2. Types /\ pc \in [Goroutines -> Places] /\ wire \in [Goroutines -> Seq(Byte)]
  BY DEF IInv, Types, TypeOK, Places
<1>3. pc'[g] = place /\ \A h \in Goroutines \ {g} : pc'[h] = pc[h]
  BY <1>1, <1>2 DEF Goto
<1>4. /\ Exclusive' /\ buf' \in [Goroutines -> Buffers \cup {NoBuffer}] /\ idle' \subseteq Buffers
      /\ content' \in [Buffers -> Seq(Byte)] /\ \A c \in Buffers : Len(content'[c]) = Capacity[c[1]]
      /\ \A h \in Goroutines \ {g} :
           buf'[h] = buf[h] /\ (pc[h] \in Holding => content'[buf[h]] = content[buf[h]])
  <2>1. pc[g] \in Holding /\ place \notin Holding
    BY <1>1 DEF Holding
  <2> HIDE DEF place
  <2> QED BY <1>1, <2>1, PutFacts
<1>5. /\ outbox[g] = Request(g) \/ outbox[g] = Pong
      /\ frame \in Seq(Byte) /\ Len(frame) \in 0..SmallCap
  BY <1>1, OutboxFacts
<1>6. First(content[buf[g]], Len(frame)) = frame
  <2> DEFINE c == content[buf[g]]
  <2>1. pc[g] \in Holding
    BY <1>1 DEF Holding
  <2>2. c \in Seq(Byte) /\ Len(c) = SmallCap /\ \A i \in 1..Len(frame) : c[i] = frame[i]
    BY <1>1, <2>1, OwnFacts DEF Own, Ready, Capacity
  <2> HIDE DEF c, frame
  <2>3. First(c, Len(frame)) \in Seq(Byte) /\ Len(First(c, Len(frame))) = Len(frame)
        /\ \A i \in 1..Len(frame) : First(c, Len(frame))[i] = c[i]
    BY <1>5, <2>2, FirstFacts
  <2>4. First(c, Len(frame)) = frame
    BY <1>5, <2>2, <2>3, SeqEqual
  <2> QED BY <2>4 DEF c
<1> HIDE DEF frame
<1>7. /\ wire' \in [Goroutines -> Seq(Byte)] /\ \A h \in Goroutines \ {g} : wire'[h] = wire[h]
      /\ ~cut[g] => wire'[g] = wire[g] \o frame
      /\ cut[g] => wire'[g] = wire[g]
  <2>1. wire[g] \o frame \in Seq(Byte)
    BY <1>2, <1>5
  <2> QED BY <1>1, <1>2, <1>6, <2>1
<1>8. Types'
  <2>1. pc' \in [Goroutines -> Places]
    BY <1>1, <1>2 DEF Goto, Places
  <2> QED BY <1>1, <1>2, <1>4, <1>7, <2>1 DEF Types, TypeOK, Places
<1>9. Kept(g)' /\ Arriving(g)' /\ Buffered(g)' /\ Announced(g)'
  BY <1>1, <1>3, StillReading DEF Ended
<1>10. Written(g)'
  <2>1. Count(g)' = Count(g) /\ Request(g)' = Request(g) /\ Count(g) \in Nat
    BY <1>1, OwnFacts DEF Count, Request
  <2>2. CASE Unasked(g)
    <3>1. wire[g] = <<>> /\ outbox[g] = Request(g) /\ outbox[g].type = "connectRequest"
      BY <2>2, RequestFacts DEF Unasked
    <3>2. CASE cut[g]
      BY <1>1, <1>3, <1>7, <2>1, <3>1, <3>2 DEF Unasked, Written
    <3>3. CASE ~cut[g]
      <4>1. wire'[g] = frame \o <<>>
        BY <1>5, <1>7, <3>1, <3>3, ConcatEmptySeq
      <4>2. Pongs(sending[g])[0] = <<>>
        <5>1. sending[g] \in Sendings /\ 0 \in 0..Len(sending[g])
          BY OwnFacts, SendingFacts
        <5> QED BY <5>1, PongsType
      <4>3. Answered(g, 0)'
        BY <1>1, <1>3, <2>1, <3>1, <3>3, <4>1, <4>2 DEF Answered, frame
      <4>4. 0 \in 0..Count(g)'
        BY <2>1
      <4> QED BY <4>3, <4>4 DEF Written
    <3> QED BY <3>2, <3>3
  <2>3. ASSUME NEW k \in 0..Count(g), Answered(g, k) PROVE Written(g)'
    <3>1. wire[g] = Framed(Request(g)) \o Pongs(sending[g])[k] /\ k < Count(g) /\ outbox[g] = Pong
      BY <1>1, <2>3 DEF Answered
    <3>2. pc'[g] = "getHeader"
      BY <1>3, <3>1 DEF Pong
    <3>3. CASE cut[g]
      <4>1. Answered(g, k)'
        BY <1>1, <1>7, <2>1, <3>1, <3>2, <3>3 DEF Answered
      <4> QED BY <2>1, <4>1 DEF Written
    <3>4. CASE ~cut[g]
      <4>1. sending[g] \in Sendings /\ k \in Nat /\ k < Len(sending[g])
        BY <2>1, <3>1, OwnFacts, SendingFacts DEF Own, Kept
      <4>2. Pongs(sending[g])[k] \in Seq(Byte) /\ Pongs(sending[g])[k + 1] = Pongs(sending[g])[k] \o frame
        BY <3>1, <4>1, PongsNext DEF frame
      <4>3. Framed(Request(g)) \in Seq(Byte)
        BY RequestFacts
      <4>4. wire'[g] = (Framed(Request(g)) \o Pongs(sending[g])[k]) \o frame
        BY <1>7, <3>1, <3>4
      <4>5. wire'[g] = Framed(Request(g)) \o Pongs(sending[g])[k + 1]
        <5> DEFINE r == Framed(Request(g))
                   p == Pongs(sending[g])[k]
        <5>1. r \in Seq(Byte) /\ p \in Seq(Byte) /\ frame \in Seq(Byte)
          BY <1>5, <4>2, <4>3
        <5> HIDE DEF r, p
        <5>2. (r \o p) \o frame = r \o (p \o frame)
          BY <5>1, ConcatAssociative
        <5> QED BY <4>2, <4>4, <5>2 DEF r, p
      <4>6. Answered(g, k + 1)'
        BY <1>1, <2>1, <3>2, <4>5 DEF Answered
      <4>7. k + 1 \in 0..Count(g)'
        BY <2>1, <3>1
      <4> QED BY <4>6, <4>7 DEF Written
    <3> QED BY <3>3, <3>4
  <2> QED BY <2>2, <2>3, OwnFacts DEF Own, Written
<1>11. Own(g)'
  <2>1. Understood(g)' /\ Ready(g)'
    BY <1>1, <1>3, OwnFacts DEF Own, Understood, Ready
  <2> QED BY <1>9, <1>10, <2>1 DEF Own
<1> QED BY <1>1, <1>3, <1>4, <1>7, <1>8, <1>11, OneSteps

-----------------------------------------------------------------------------
(* Reading. *)

\* What a goroutine has written is none of what it reads.
LEMMA WrittenKeeps ==
  ASSUME IInv, NEW g \in Goroutines, UNCHANGED <<key, sending>>, wire'[g] = wire[g],
         outbox'[g] = outbox[g], pc[g] \notin {"write", "send"}, pc'[g] \notin {"write", "send"},
         Count(g)' \in Nat, Count(g)' >= Count(g),
         pc'[g] = "handle" => Count(g)' > Count(g) \/ pc[g] = "handle",
         pc[g] # "failed" \/ pc'[g] = "failed"
  PROVE  Written(g)'
<1>1. Count(g) \in Nat /\ Written(g)
  BY OwnFacts DEF Own
<1>2. Request(g)' = Request(g)
  BY DEF Request
<1>3. Unasked(g) => Unasked(g)'
  BY <1>2 DEF Unasked
<1>4. ASSUME NEW k \in 0..Count(g), Answered(g, k) PROVE Answered(g, k)' /\ k \in 0..Count(g)'
  <2>1. k \in 0..Count(g)'
    BY <1>1
  <2>2. pc'[g] = "handle" => k < Count(g)'
    BY <1>1, <1>4 DEF Answered
  <2> QED BY <1>2, <1>4, <2>1, <2>2 DEF Answered
<1> QED BY <1>1, <1>3, <1>4 DEF Written

LEMMA GetHeaderStep == ASSUME IInv, NEW g \in Goroutines, GetHeader(g) PROVE IInv'
<1>1. /\ pc[g] = "getHeader" /\ Take(g, "header") /\ Goto(g, "header")
      /\ filled' = [filled EXCEPT ![g] = 0]
      /\ UNCHANGED <<key, sending, outbox, head, sent, incoming, cut, wire, received, decoded, content>>
  BY DEF GetHeader, conn
<1>2. Types /\ pc \in [Goroutines -> Places] /\ filled \in [Goroutines -> 0..MaxMessage]
  BY DEF IInv, Types, TypeOK, Places
<1>3. /\ pc'[g] = "header" /\ \A h \in Goroutines \ {g} : pc'[h] = pc[h]
      /\ filled'[g] = 0 /\ \A h \in Goroutines \ {g} : filled'[h] = filled[h]
  BY <1>1, <1>2 DEF Goto
<1>4. /\ Exclusive' /\ buf' \in [Goroutines -> Buffers \cup {NoBuffer}] /\ idle' \subseteq Buffers
      /\ buf'[g] \in Buffers /\ buf'[g][1] = "header"
      /\ \A h \in Goroutines \ {g} : buf'[h] = buf[h]
  <2>1. "header" \in Pools /\ pc[g] \notin Holding /\ "header" \in Holding
    BY <1>1 DEF Pools, Holding
  <2> QED BY <1>1, <2>1, TakeFacts
<1>5. Types'
  <2>1. pc' \in [Goroutines -> Places] /\ filled' \in [Goroutines -> 0..MaxMessage]
    BY <1>1, <1>2, Constants DEF Goto, Places
  <2> QED BY <1>1, <1>2, <1>4, <2>1 DEF Types, TypeOK, Places
<1>6. Count(g)' = Count(g) /\ Sent(g)' = Sent(g) /\ Base(g)' = Base(g) /\ Offset(g)' = 0 /\ Offset(g) = 0
  BY <1>1, <1>3 DEF Count, Sent, Base, Offset
<1>7. Own(g)'
  <2>1. Kept(g)'
    BY <1>1, <1>3, <1>6, OwnFacts DEF Own, Kept
  <2>2. Arriving(g)'
    BY <1>1, <1>3, <1>6, OwnFacts DEF Own, Arriving, Position, Ended
  <2>3. Buffered(g)' /\ Announced(g)'
    BY <1>3, <1>4, Constants DEF Buffered, Announced
  <2>4. Written(g)'
    BY <1>1, <1>3, <1>6, OwnFacts, WrittenKeeps
  <2>5. Understood(g)' /\ Ready(g)'
    BY <1>1, <1>3, OwnFacts DEF Own, Understood, Ready
  <2> QED BY <2>1, <2>2, <2>3, <2>4, <2>5 DEF Own
<1> QED BY <1>1, <1>3, <1>4, <1>5, <1>7, OneSteps

LEMMA GetBodyStep == ASSUME IInv, NEW g \in Goroutines, GetBody(g) PROVE IInv'
<1> DEFINE pool == IF head[g].length <= SmallCap THEN "small" ELSE "large"
<1>1. /\ pc[g] = "getBody" /\ Take(g, pool) /\ Goto(g, "body")
      /\ filled' = [filled EXCEPT ![g] = 0]
      /\ UNCHANGED <<key, sending, outbox, head, sent, incoming, cut, wire, received, decoded, content>>
  BY DEF GetBody, conn
<1>2. /\ Types /\ pc \in [Goroutines -> Places] /\ filled \in [Goroutines -> 0..MaxMessage]
      /\ head[g].length \in Nat
  BY DEF IInv, Types, TypeOK, Places
<1>3. /\ pc'[g] = "body" /\ \A h \in Goroutines \ {g} : pc'[h] = pc[h]
      /\ filled'[g] = 0 /\ \A h \in Goroutines \ {g} : filled'[h] = filled[h]
  BY <1>1, <1>2 DEF Goto
<1>4. /\ Exclusive' /\ buf' \in [Goroutines -> Buffers \cup {NoBuffer}] /\ idle' \subseteq Buffers
      /\ buf'[g] \in Buffers /\ buf'[g][1] = pool
      /\ \A h \in Goroutines \ {g} : buf'[h] = buf[h]
  <2>1. pool \in Pools /\ pc[g] \notin Holding /\ "body" \in Holding
    BY <1>1 DEF Pools, Holding
  <2> HIDE DEF pool
  <2> QED BY <1>1, <2>1, TakeFacts
<1>5. Types'
  <2>1. pc' \in [Goroutines -> Places] /\ filled' \in [Goroutines -> 0..MaxMessage]
    BY <1>1, <1>2, Constants DEF Goto, Places
  <2> QED BY <1>1, <1>2, <1>4, <2>1 DEF Types, TypeOK, Places
<1>6. Count(g)' = Count(g) /\ Sent(g)' = Sent(g) /\ Base(g)' = Base(g) /\ Offset(g)' = 0 /\ Offset(g) = 0
  BY <1>1, <1>3 DEF Count, Sent, Base, Offset
<1>7. Own(g)'
  <2>1. Kept(g)'
    BY <1>1, <1>3, <1>6, OwnFacts DEF Own, Kept
  <2>2. Arriving(g)'
    BY <1>1, <1>3, <1>6, OwnFacts DEF Own, Arriving, Position, Ended
  <2>3. Buffered(g)'
    BY <1>3 DEF Buffered
  <2>4. Announced(g)'
    BY <1>1, <1>2, <1>3, <1>4, <1>6, OwnFacts DEF Own, Announced
  <2>5. Written(g)'
    BY <1>1, <1>3, <1>6, OwnFacts, WrittenKeeps
  <2>6. Understood(g)' /\ Ready(g)'
    BY <1>1, <1>3, OwnFacts DEF Own, Understood, Ready
  <2> QED BY <2>1, <2>2, <2>3, <2>4, <2>5, <2>6 DEF Own
<1> QED BY <1>1, <1>3, <1>4, <1>5, <1>7, OneSteps

LEMMA BaseFacts ==
  ASSUME IInv, NEW g \in Goroutines
  PROVE  LET start == Len(Stream(sending[g])[Count(g)]) IN
         /\ start \in Nat /\ Base(g) \in Nat
         /\ pc[g] \in {"getBody", "body"} => Base(g) = start + HeaderLen
         /\ pc[g] \notin {"getBody", "body"} => Base(g) = start
<1> DEFINE start == Len(Stream(sending[g])[Count(g)])
<1>1. start \in Nat
  <2>1. sending[g] \in Sendings /\ Count(g) \in 0..Len(sending[g])
    BY OwnFacts, SendingFacts DEF Own, Kept
  <2> QED BY <2>1, StreamType
<1>2. Base(g) = start + (IF pc[g] \in {"getBody", "body"} THEN HeaderLen ELSE 0)
  BY DEF Base
<1> HIDE DEF start
<1>3. pc[g] \in {"getBody", "body"} => Base(g) = start + HeaderLen /\ Base(g) \in Nat
  BY <1>1, <1>2, Constants
<1>4. pc[g] \notin {"getBody", "body"} => Base(g) = start /\ Base(g) \in Nat
  BY <1>1, <1>2
<1> QED BY <1>1, <1>3, <1>4 DEF start

\* The buffer has room for all that is read into it.
LEMMA RoomFacts ==
  ASSUME IInv, NEW g \in Goroutines, pc[g] \in {"header", "body"}
  PROVE  /\ Need(g) \in Nat /\ Need(g) <= Capacity[buf[g][1]] /\ Need(g) <= MaxMessage
         /\ filled[g] \in Nat /\ filled[g] <= Need(g)
<1>1. Announced(g) /\ filled[g] \in Nat /\ head[g].length \in Nat
  BY OwnFacts DEF IInv, Types, Own
<1>2. CASE pc[g] = "header"
  BY <1>1, <1>2, Constants DEF Announced, Need, Capacity
<1>3. CASE pc[g] = "body"
  BY <1>1, <1>3, Constants DEF Announced, Need, Capacity
<1> QED BY <1>2, <1>3

LEMMA ReadFailsStep == ASSUME IInv, NEW g \in Goroutines, ReadFails(g) PROVE IInv'
<1>1. /\ pc[g] \in {"header", "body"} /\ Put(g) /\ Goto(g, "failed")
      /\ UNCHANGED <<key, sending, outbox, filled, head, sent, incoming, cut, wire, received, decoded>>
  BY DEF ReadFails, Reading, conn
<1>2. Types /\ pc \in [Goroutines -> Places]
  BY DEF IInv, Types, TypeOK, Places
<1>3. pc'[g] = "failed" /\ \A h \in Goroutines \ {g} : pc'[h] = pc[h]
  BY <1>1, <1>2 DEF Goto
<1>4. /\ Exclusive' /\ buf' \in [Goroutines -> Buffers \cup {NoBuffer}] /\ idle' \subseteq Buffers
      /\ content' \in [Buffers -> Seq(Byte)] /\ \A c \in Buffers : Len(content'[c]) = Capacity[c[1]]
      /\ \A h \in Goroutines \ {g} :
           buf'[h] = buf[h] /\ (pc[h] \in Holding => content'[buf[h]] = content[buf[h]])
  <2>1. pc[g] \in Holding /\ "failed" \notin Holding
    BY <1>1 DEF Holding
  <2> QED BY <1>1, <2>1, PutFacts
<1>5. Types'
  <2>1. pc' \in [Goroutines -> Places]
    BY <1>1, <1>2 DEF Goto, Places
  <2> QED BY <1>1, <1>2, <1>4, <2>1 DEF Types, TypeOK, Places
<1>6. Own(g)'
  <2>1. Count(g)' = Count(g)
    BY <1>1 DEF Count
  <2>2. Kept(g)'
    BY <1>1, <1>3, <2>1, OwnFacts DEF Own, Kept
  <2>3. Written(g)'
    BY <1>1, <1>3, <2>1, OwnFacts, WrittenKeeps
  <2>4. Understood(g)'
    BY <1>1, OwnFacts DEF Own, Understood
  <2> QED BY <1>3, <2>2, <2>3, <2>4 DEF Own, Arriving, Buffered, Announced, Ready, Ended
<1> QED BY <1>1, <1>3, <1>4, <1>5, <1>6, OneSteps

LEMMA ReadSomeStep == ASSUME IInv, NEW g \in Goroutines, ReadSome(g) PROVE IInv'
<1> DEFINE n == Min({Piece, Need(g) - filled[g], Len(incoming[g])})
           b == buf[g]
           f == filled[g]
           bytes == First(incoming[g], n)
           rest == After(incoming[g], n)
<1>1. /\ pc[g] \in {"header", "body"} /\ f < Need(g)
      /\ Filling(b, f, bytes)
      /\ incoming' = [incoming EXCEPT ![g] = rest]
      /\ filled' = [filled EXCEPT ![g] = f + n]
      /\ UNCHANGED <<key, sending, pc, outbox, buf, head, sent, cut, wire, received, decoded, idle>>
  BY DEF ReadSome, Reading
<1>2. /\ Types /\ filled \in [Goroutines -> 0..MaxMessage]
      /\ incoming \in [Goroutines -> Seq(Byte)] /\ pc[g] \in Holding /\ pc[g] \notin Ended
  BY <1>1 DEF IInv, Types, TypeOK, Holding, Ended
<1>3. /\ incoming[g] \in Seq(Byte) /\ Len(incoming[g]) \in Nat /\ b \in Buffers
      /\ Need(g) \in Nat /\ Need(g) <= Capacity[b[1]] /\ Need(g) <= MaxMessage /\ f \in Nat
      /\ Capacity[b[1]] \in Nat /\ MaxMessage \in Nat
  BY <1>1, <1>2, OwnFacts, RoomFacts, BufferFacts, Constants
<1>4. n \in Nat /\ n <= Need(g) - f /\ n <= Len(incoming[g])
  <2>1. Piece \in Nat /\ Need(g) - f \in Nat /\ Len(incoming[g]) \in Nat
    BY <1>1, <1>3, Constants
  <2>2. n \in {Piece, Need(g) - f, Len(incoming[g])} /\ n <= Need(g) - f /\ n <= Len(incoming[g])
    BY <2>1, LeastOfThree
  <2> HIDE DEF n
  <2> QED BY <2>1, <2>2
<1> HIDE DEF n
<1>5. /\ bytes \in Seq(Byte) /\ Len(bytes) = n /\ \A i \in 1..n : bytes[i] = incoming[g][i]
      /\ rest \in Seq(Byte) /\ Len(rest) = Len(incoming[g]) - n
      /\ \A i \in 1..(Len(incoming[g]) - n) : rest[i] = incoming[g][n + i]
  <2>1. n \in 0..Len(incoming[g])
    BY <1>3, <1>4
  <2>2. bytes \in Seq(Byte) /\ Len(bytes) = n /\ \A i \in 1..n : bytes[i] = incoming[g][i]
    BY <1>3, <2>1, FirstFacts
  <2>3. /\ rest \in Seq(Byte) /\ Len(rest) = Len(incoming[g]) - n
        /\ \A i \in 1..(Len(incoming[g]) - n) : rest[i] = incoming[g][n + i]
    BY <1>3, <2>1, AfterFacts
  <2> QED BY <2>2, <2>3
<1> HIDE DEF bytes, rest, b, f
<1>6. /\ content' \in [Buffers -> Seq(Byte)] /\ \A c \in Buffers : Len(content'[c]) = Capacity[c[1]]
      /\ \A i \in 1..f : content'[b][i] = content[b][i]
      /\ \A i \in 1..n : content'[b][f + i] = bytes[i]
      /\ \A c \in Buffers \ {b} : content'[c] = content[c]
  <2>1. f + Len(bytes) <= Capacity[b[1]]
    BY <1>3, <1>4, <1>5
  <2>2. /\ content' \in [Buffers -> Seq(Byte)] /\ \A c \in Buffers : Len(content'[c]) = Capacity[c[1]]
        /\ \A i \in 1..f : content'[b][i] = content[b][i]
        /\ \A i \in 1..Len(bytes) : content'[b][f + i] = bytes[i]
        /\ \A c \in Buffers \ {b} : content'[c] = content[c]
    BY <1>1, <1>3, <1>5, <2>1, FillingFacts
  <2> QED BY <1>5, <2>2
<1>7. /\ incoming'[g] = rest /\ \A h \in Goroutines \ {g} : incoming'[h] = incoming[h]
      /\ filled'[g] = f + n /\ \A h \in Goroutines \ {g} : filled'[h] = filled[h]
  BY <1>1, <1>2
<1>8. Types'
  <2>1. f + n \in 0..MaxMessage
    BY <1>3, <1>4
  <2>2. incoming' \in [Goroutines -> Seq(Byte)] /\ filled' \in [Goroutines -> 0..MaxMessage]
    BY <1>1, <1>2, <1>5, <2>1
  <2> QED BY <1>1, <1>2, <1>6, <2>2 DEF Types, TypeOK
<1>9. Exclusive'
  BY <1>1 DEF IInv, Exclusive
<1>10. /\ Count(g)' = Count(g) /\ Sent(g)' = Sent(g) /\ Base(g)' = Base(g)
       /\ Offset(g)' = f + n /\ Offset(g) = f /\ Need(g)' = Need(g)
  BY <1>1, <1>7 DEF Count, Sent, Base, Offset, Need, f
<1>11. Base(g) \in Nat
  BY BaseFacts
<1>12. /\ Position(g)' = Position(g) + n /\ Position(g) = Base(g) + f /\ Position(g) \in Nat
       /\ Position(g) + n \in Nat
  BY <1>3, <1>4, <1>10, <1>11 DEF Position
<1>13. /\ Position(g) + Len(incoming[g]) <= Len(Sent(g))
       /\ ~cut[g] => Position(g) + Len(incoming[g]) = Len(Sent(g))
       /\ \A i \in 1..Len(incoming[g]) : incoming[g][i] = Sent(g)[Position(g) + i]
  BY <1>2, OwnFacts DEF Own, Arriving
<1>14. Arriving(g)'
  <2>1. (Position(g) + n) + Len(rest) = Position(g) + Len(incoming[g])
    BY <1>3, <1>4, <1>5, <1>12
  <2>2. ASSUME NEW i \in 1..Len(rest) PROVE rest[i] = Sent(g)[(Position(g) + n) + i]
    <3>1. n + i \in 1..Len(incoming[g]) /\ Position(g) + (n + i) = (Position(g) + n) + i
          /\ i \in 1..(Len(incoming[g]) - n)
      BY <1>3, <1>4, <1>5, <1>12
    <3>2. rest[i] = incoming[g][n + i] /\ incoming[g][n + i] = Sent(g)[Position(g) + (n + i)]
      BY <1>5, <1>13, <3>1
    <3> QED BY <3>1, <3>2
  <2> QED BY <1>1, <1>7, <1>10, <1>12, <1>13, <2>1, <2>2 DEF Arriving
<1>15. Buffered(g)'
  <2>1. \A i \in 1..f : content[b][i] = Sent(g)[Base(g) + i]
    BY <1>1, OwnFacts DEF Own, Buffered, b, f
  <2>2. ASSUME NEW i \in 1..(f + n) PROVE content'[b][i] = Sent(g)[Base(g) + i]
    <3>1. CASE i <= f
      <4>1. i \in 1..f
        BY <1>3, <1>4, <3>1
      <4> QED BY <1>6, <2>1, <4>1
    <3>2. CASE ~(i <= f)
      <4> DEFINE j == i - f
      <4>1. /\ j \in 1..n /\ j \in 1..Len(incoming[g]) /\ f + j = i
            /\ (Base(g) + f) + j = Base(g) + i
        BY <1>3, <1>4, <1>11, <3>2
      <4> HIDE DEF j
      <4>2. content'[b][f + j] = bytes[j] /\ bytes[j] = incoming[g][j]
        BY <1>5, <1>6, <4>1
      <4>3. incoming[g][j] = Sent(g)[(Base(g) + f) + j]
        BY <1>12, <1>13, <4>1
      <4> QED BY <4>1, <4>2, <4>3
    <3> QED BY <3>1, <3>2
  <2> QED BY <1>1, <1>7, <1>10, <2>2 DEF Buffered, b
<1>16. Announced(g)'
  <2>1. f + n <= Need(g)
    BY <1>3, <1>4
  <2> QED BY <1>1, <1>7, <1>10, <2>1, OwnFacts DEF Own, Announced, Need
<1>17. Own(g)'
  <2>1. Kept(g)'
    BY <1>1, <1>10, OwnFacts DEF Own, Kept
  <2>2. Written(g)'
    BY <1>1, <1>10, OwnFacts, WrittenKeeps
  <2>3. Understood(g)' /\ Ready(g)'
    BY <1>1, OwnFacts DEF Own, Understood, Ready
  <2> QED BY <1>14, <1>15, <1>16, <2>1, <2>2, <2>3 DEF Own
<1>18. \A h \in Goroutines \ {g} : pc[h] \in Holding => content'[buf[h]] = content[buf[h]]
  <2> SUFFICES ASSUME NEW h \in Goroutines \ {g}, pc[h] \in Holding
               PROVE  content'[buf[h]] = content[buf[h]]
    OBVIOUS
  <2>1. buf[h] \in Buffers /\ b # NoBuffer /\ buf[h] # b
    BY <1>2, OwnFacts, BufferFacts DEF IInv, Exclusive, b
  <2> QED BY <1>6, <2>1
<1> QED BY <1>1, <1>7, <1>8, <1>9, <1>17, <1>18, OneSteps

\* A message whose header or body is complete is the next of the stream.
LEMMA NextMessage ==
  ASSUME IInv, NEW g \in Goroutines, pc[g] \in {"header", "getBody", "body"},
         pc[g] = "header" => filled[g] = HeaderLen
  PROVE  LET msg == sending[g][Count(g) + 1]
             start == Len(Stream(sending[g])[Count(g)])
         IN /\ Count(g) < sent[g] /\ Count(g) + 1 <= Len(sending[g])
            /\ msg \in Messages /\ Fits(Len(msg.body)) /\ start \in Nat
            /\ Len(Stream(sending[g])[Count(g) + 1]) = start + HeaderLen + Len(msg.body)
            /\ \A i \in 1..HeaderLen : Sent(g)[start + i] = Header(msg.type, Len(msg.body))[i]
            /\ \A i \in 1..Len(msg.body) : Sent(g)[start + HeaderLen + i] = msg.body[i]
<1> DEFINE s == sending[g]
           start == Len(Stream(s)[Count(g)])
           msg == s[Count(g) + 1]
<1>1. /\ s \in Sendings /\ Len(s) \in Nat /\ Count(g) \in Nat /\ sent[g] \in Nat
      /\ Count(g) <= sent[g] /\ sent[g] <= Len(s) /\ Len(incoming[g]) \in Nat
  BY OwnFacts, SendingFacts DEF Own, Kept
<1>2. start \in Nat
  <2>1. Count(g) \in 0..Len(s)
    BY <1>1
  <2> QED BY <1>1, <2>1, StreamType
<1>3. Count(g) < sent[g]
  <2>1. CASE pc[g] = "header"
    <3>1. Position(g) + Len(incoming[g]) <= Len(Sent(g))
      BY <2>1, OwnFacts DEF Own, Arriving, Ended
    <3>2. Base(g) = start /\ Offset(g) = HeaderLen
      BY <2>1, BaseFacts DEF Offset
    <3>3. Count(g) = sent[g] => Len(Sent(g)) = start
      BY DEF Sent
    <3> HIDE DEF start
    <3>4. Count(g) # sent[g]
      <4> SUFFICES ASSUME Count(g) = sent[g] PROVE FALSE
        OBVIOUS
      <4>1. Len(Sent(g)) = start /\ Position(g) = start + HeaderLen
        BY <3>2, <3>3 DEF Position
      <4>2. (start + HeaderLen) + Len(incoming[g]) <= start
        BY <3>1, <4>1
      <4>3. HeaderLen \in Nat /\ HeaderLen > 0
        BY Constants
      <4>4. start \in Nat /\ Len(incoming[g]) \in Nat
        BY <1>1, <1>2
      <4>5. \A x, y, z \in Nat : y > 0 => ~((x + y) + z <= x)
        OBVIOUS
      <4> QED BY <4>2, <4>3, <4>4, <4>5
    <3> QED BY <1>1, <3>4
  <2>2. CASE pc[g] # "header"
    BY <2>2, OwnFacts DEF Own, Announced
  <2> QED BY <2>1, <2>2
<1>4. /\ msg \in Messages
      /\ Len(Stream(s)[Count(g) + 1]) = start + HeaderLen + Len(msg.body)
      /\ \A i \in 1..HeaderLen : Stream(s)[sent[g]][start + i] = Header(msg.type, Len(msg.body))[i]
      /\ \A i \in 1..Len(msg.body) : Stream(s)[sent[g]][start + HeaderLen + i] = msg.body[i]
  <2>1. /\ s \in Sendings /\ Count(g) \in Nat /\ sent[g] \in Nat
        /\ Count(g) < sent[g] /\ sent[g] <= Len(s)
    BY <1>1, <1>3
  <2> DEFINE n == Count(g)
             m == sent[g]
  <2> HIDE DEF n, m, s
  <2>2. /\ s[n + 1] \in Messages
        /\ Len(Stream(s)[n + 1]) = Len(Stream(s)[n]) + HeaderLen + Len(s[n + 1].body)
        /\ \A i \in 1..HeaderLen :
             Stream(s)[m][Len(Stream(s)[n]) + i] = Header(s[n + 1].type, Len(s[n + 1].body))[i]
        /\ \A i \in 1..Len(s[n + 1].body) :
             Stream(s)[m][Len(Stream(s)[n]) + HeaderLen + i] = s[n + 1].body[i]
    BY <2>1, StreamPart DEF n, m
  <2> QED BY <2>2 DEF n, m, s
<1>5. Count(g) + 1 \in 1..Len(s)
  BY <1>1, <1>3
<1>6. Fits(Len(msg.body))
  BY <1>1, <1>5, SendingFacts DEF GoodMessage
<1> HIDE DEF s, start, msg
<1>7. Sent(g) = Stream(s)[sent[g]]
  BY DEF Sent, s
<1>8. Count(g) + 1 <= Len(s)
  BY <1>1, <1>3
<1>9. \A i \in 1..HeaderLen : Sent(g)[start + i] = Header(msg.type, Len(msg.body))[i]
  BY <1>4, <1>7
<1>10. \A i \in 1..Len(msg.body) : Sent(g)[start + HeaderLen + i] = msg.body[i]
  BY <1>4, <1>7
<1> QED BY <1>2, <1>3, <1>4, <1>6, <1>8, <1>9, <1>10 DEF s, start, msg

\* A message more has been read.
LEMMA OneMore ==
  ASSUME IInv, NEW g \in Goroutines, pc[g] \in {"header", "body"}, UNCHANGED <<sending, sent>>,
         Count(g) < sent[g],
         received' = [received EXCEPT ![g] = Append(@, sending[g][Count(g) + 1])]
  PROVE  /\ received' \in [Goroutines -> Seq(Messages)]
         /\ \A h \in Goroutines \ {g} : received'[h] = received[h]
         /\ Count(g)' = Count(g) + 1 /\ Count(g) \in Nat /\ Kept(g)'
<1> DEFINE msg == sending[g][Count(g) + 1]
           r == received[g]
<1>1. /\ received \in [Goroutines -> Seq(Messages)] /\ r \in Seq(Messages) /\ Len(r) = Count(g)
      /\ Count(g) \in Nat /\ sent[g] \in Nat
  BY OwnFacts DEF IInv, Types, Count
<1>2. /\ sent[g] <= Len(sending[g]) /\ \A i \in 1..Len(r) : r[i] = sending[g][i]
      /\ Len(sending[g]) \in Nat /\ sending[g] \in Sendings
  BY OwnFacts, SendingFacts DEF Own, Kept, Count
<1>3. msg \in Messages
  <2>1. Count(g) + 1 \in 1..Len(sending[g])
    BY <1>1, <1>2
  <2> QED BY <1>2, <2>1, SendingFacts
<1> HIDE DEF msg, r
<1>4. /\ Append(r, msg) \in Seq(Messages) /\ Len(Append(r, msg)) = Len(r) + 1
      /\ \A i \in 1..Len(r) : Append(r, msg)[i] = r[i]
      /\ Append(r, msg)[Len(r) + 1] = msg
  BY <1>1, <1>3, AppendProperties
<1>5. /\ received'[g] = Append(r, msg) /\ \A h \in Goroutines \ {g} : received'[h] = received[h]
      /\ received' \in [Goroutines -> Seq(Messages)]
  BY <1>1, <1>4 DEF msg, r
<1>6. Count(g)' = Count(g) + 1
  BY <1>1, <1>4, <1>5 DEF Count
<1>7. ASSUME NEW i \in 1..(Count(g) + 1) PROVE received'[g][i] = sending[g][i]
  <2>1. CASE i = Count(g) + 1
    BY <1>1, <1>4, <1>5, <2>1 DEF msg
  <2>2. CASE i # Count(g) + 1
    <3>1. i \in 1..Len(r)
      BY <1>1, <2>2
    <3> QED BY <1>2, <1>4, <1>5, <3>1
  <2> QED BY <2>1, <2>2
<1>8. Kept(g)'
  <2>1. Count(g)' <= sent'[g] /\ sent'[g] <= Len(sending'[g]) /\ Count(g)' > 0
    BY <1>1, <1>2, <1>6
  <2>2. \A i \in 1..Count(g)' : received'[g][i] = sending'[g][i]
    BY <1>6, <1>7
  <2> QED BY <2>1, <2>2 DEF Kept
<1> QED BY <1>1, <1>5, <1>6, <1>8

LEMMA ParseHeaderStep == ASSUME IInv, NEW g \in Goroutines, ParseHeader(g) PROVE IInv'
<1> DEFINE c == content[buf[g]]
           word(i) == Uint(SubSeq(c, i * WordLen + 1, (i + 1) * WordLen))
           type == CHOOSE t \in MessageTypes : TypeNumber[t] = word(1)
           msg == sending[g][Count(g) + 1]
           len == Len(msg.body)
           start == Len(Stream(sending[g])[Count(g)])
           place == IF len > MaxMessage THEN "failed" ELSE IF len > 0 THEN "getBody" ELSE "handle"
<1>1. /\ pc[g] = "header" /\ filled[g] = HeaderLen /\ Put(g)
      /\ UNCHANGED <<key, sending, outbox, filled, sent, incoming, cut, wire, decoded>>
  BY DEF ParseHeader, conn
<1>2. /\ Types /\ pc \in [Goroutines -> Places]
      /\ head \in [Goroutines -> [type : MessageTypes \cup {"none"}, length : Nat]]
  BY DEF IInv, Types, TypeOK, Places
<1>3. /\ Count(g) < sent[g] /\ Count(g) + 1 <= Len(sending[g]) /\ msg \in Messages /\ Fits(len)
      /\ start \in Nat
      /\ Len(Stream(sending[g])[Count(g) + 1]) = start + HeaderLen + len
      /\ \A i \in 1..HeaderLen : Sent(g)[start + i] = Header(msg.type, len)[i]
  BY <1>1, NextMessage
<1>4. msg.type \in MessageTypes /\ msg.body \in Seq(Byte) /\ len \in Nat
  BY <1>3, FramedFacts
<1>5. word(0) = Magic /\ word(1) = TypeNumber[msg.type] /\ word(2) = len
  <2>1. c \in Seq(Byte) /\ Len(c) = HeaderLen
    BY <1>1, OwnFacts DEF Own, Announced, Holding, Capacity
  <2>2. \A i \in 1..HeaderLen : c[i] = Sent(g)[start + i]
    <3>1. Base(g) = start
      BY <1>1, <1>3 DEF Base
    <3> QED BY <1>1, <3>1, OwnFacts DEF Own, Buffered
  <2>3. \A i \in 1..HeaderLen : c[i] = Header(msg.type, len)[i]
    BY <1>3, <2>2
  <2> DEFINE t == msg.type
  <2>4. t \in MessageTypes /\ len \in Nat /\ Fits(len) /\ \A i \in 1..HeaderLen : c[i] = Header(t, len)[i]
    BY <1>3, <1>4, <2>3
  <2> HIDE DEF c, len, msg, t
  <2>5. Word(c, 0) = Magic /\ Word(c, 1) = TypeNumber[t] /\ Word(c, 2) = len
    BY <2>1, <2>4, HeaderRead
  <2> QED BY <2>5 DEF Word, t
<1>6. type = msg.type
  BY <1>4, <1>5, TypeRead
<1>7. /\ Goto(g, place)
      /\ len <= MaxMessage => head' = [head EXCEPT ![g] = [type |-> msg.type, length |-> len]]
      /\ len > MaxMessage => UNCHANGED head
      /\ len > MaxMessage \/ len > 0 => UNCHANGED received
      /\ len = 0 => received' = [received EXCEPT ![g] = Append(@, [type |-> msg.type, body |-> <<>>])]
  <2>1. IF Magic = Magic /\ len <= MaxMessage
          THEN /\ head' = [head EXCEPT ![g] = [type |-> msg.type, length |-> len]]
               /\ Goto(g, IF len > 0 THEN "getBody" ELSE "handle")
               /\ received' = IF len > 0 THEN received
                    ELSE [received EXCEPT ![g] = Append(@, [type |-> msg.type, body |-> <<>>])]
          ELSE Goto(g, "failed") /\ UNCHANGED <<head, received>>
    BY <1>5, <1>6 DEF ParseHeader
  <2> HIDE DEF len, msg
  <2> QED BY <1>4, <2>1, Constants
<1> HIDE DEF word, type, c, len, start, msg
<1>8. pc'[g] = place /\ \A h \in Goroutines \ {g} : pc'[h] = pc[h]
  BY <1>2, <1>7 DEF Goto
<1>9. /\ Exclusive' /\ buf' \in [Goroutines -> Buffers \cup {NoBuffer}] /\ idle' \subseteq Buffers
      /\ content' \in [Buffers -> Seq(Byte)] /\ \A d \in Buffers : Len(content'[d]) = Capacity[d[1]]
      /\ \A h \in Goroutines \ {g} :
           buf'[h] = buf[h] /\ (pc[h] \in Holding => content'[buf[h]] = content[buf[h]])
  <2>1. pc[g] \in Holding /\ place \notin Holding
    BY <1>1 DEF Holding
  <2> HIDE DEF place
  <2> QED BY <1>1, <1>7, <2>1, PutFacts
<1>10. head' \in [Goroutines -> [type : MessageTypes \cup {"none"}, length : Nat]]
       /\ \A h \in Goroutines \ {g} : head'[h] = head[h]
  <2>1. CASE len <= MaxMessage
    <3>1. [type |-> msg.type, length |-> len] \in [type : MessageTypes \cup {"none"}, length : Nat]
      BY <1>4
    <3> QED BY <1>2, <1>7, <2>1, <3>1
  <2>2. CASE len > MaxMessage
    BY <1>2, <1>7, <2>2
  <2> QED BY <1>4, <2>1, <2>2, Constants
<1>11. /\ received' \in [Goroutines -> Seq(Messages)]
       /\ \A h \in Goroutines \ {g} : received'[h] = received[h]
       /\ Count(g) \in Nat /\ Kept(g)'
       /\ Count(g)' = IF len = 0 THEN Count(g) + 1 ELSE Count(g)
  <2>1. CASE len = 0
    <3>1. msg = [type |-> msg.type, body |-> <<>>]
      <4>1. msg.body = <<>>
        BY <1>4, <2>1, EmptySeq DEF len
      <4> QED BY <1>3, <4>1 DEF Messages
    <3>2. received' = [received EXCEPT ![g] = Append(@, sending[g][Count(g) + 1])]
      BY <1>7, <2>1, <3>1 DEF msg
    <3>3. /\ received' \in [Goroutines -> Seq(Messages)]
          /\ \A h \in Goroutines \ {g} : received'[h] = received[h]
          /\ Count(g)' = Count(g) + 1 /\ Count(g) \in Nat /\ Kept(g)'
      BY <1>1, <1>3, <3>2, OneMore
    <3> QED BY <2>1, <3>3
  <2>2. CASE len # 0
    <3>1. UNCHANGED received /\ pc'[g] # "handle"
      BY <1>4, <1>7, <1>8, <2>2, Constants
    <3>2. Count(g)' = Count(g)
      BY <3>1 DEF Count
    <3> QED BY <1>1, <1>2, <2>2, <3>1, <3>2, OwnFacts DEF Own, Kept, Types
  <2> QED BY <2>1, <2>2
<1>12. Types'
  <2>1. pc' \in [Goroutines -> Places]
    BY <1>2, <1>7 DEF Goto, Places
  <2> QED BY <1>1, <1>2, <1>9, <1>10, <1>11, <2>1 DEF Types, TypeOK, Places
<1>13. Arriving(g)'
  <2>1. CASE pc'[g] = "failed"
    BY <2>1 DEF Arriving, Ended
  <2>2. CASE pc'[g] # "failed"
    <3>1. Position(g) = start + HeaderLen /\ Sent(g)' = Sent(g)
      BY <1>1, <1>3, Constants DEF Position, Base, Offset, Sent, start
    <3>2. Offset(g)' = 0 /\ Base(g)' = start + HeaderLen
      <4>1. CASE len = 0
        <5>1. pc'[g] = "handle"
          BY <1>8, <4>1, Constants
        <5> QED BY <1>1, <1>3, <1>11, <4>1, <5>1, Constants DEF Base, Offset
      <4>2. CASE len # 0
        <5>1. pc'[g] = "getBody"
          BY <1>4, <1>8, <2>2, <4>2, Constants
        <5> QED BY <1>1, <1>11, <4>2, <5>1 DEF Base, Offset, start
      <4> QED BY <4>1, <4>2
    <3>3. Position(g)' = Position(g)
      BY <1>3, <3>1, <3>2, Constants DEF Position
    <3> QED BY <1>1, <3>1, <3>3, OwnFacts DEF Own, Arriving, Ended
  <2> QED BY <2>1, <2>2
<1>14. Announced(g)'
  <2>1. CASE pc'[g] = "getBody"
    <3>1. len # 0 /\ len <= MaxMessage
      BY <1>4, <1>8, <2>1, Constants
    <3>2. head'[g] = [type |-> msg.type, length |-> len]
      BY <1>2, <1>7, <3>1
    <3> QED BY <1>1, <1>3, <1>11, <2>1, <3>1, <3>2 DEF Announced, msg, len
  <2>2. CASE pc'[g] # "getBody"
    BY <1>8, <2>2 DEF Announced
  <2> QED BY <2>1, <2>2
<1>15. Own(g)'
  <2>1. Written(g)'
    <3>1. pc'[g] = "handle" => Count(g)' > Count(g)
      BY <1>4, <1>8, <1>11, Constants
    <3>2. Count(g)' \in Nat /\ Count(g)' >= Count(g)
      BY <1>11
    <3> QED BY <1>1, <1>8, <3>1, <3>2, WrittenKeeps
  <2>2. Understood(g)' /\ Ready(g)' /\ Buffered(g)'
    BY <1>1, <1>8, OwnFacts DEF Own, Understood, Ready, Buffered
  <2> QED BY <1>11, <1>13, <1>14, <2>1, <2>2 DEF Own
<1> QED BY <1>1, <1>8, <1>9, <1>10, <1>11, <1>12, <1>15, OneSteps

LEMMA CopyBodyStep == ASSUME IInv, NEW g \in Goroutines, CopyBody(g) PROVE IInv'
<1> DEFINE c == content[buf[g]]
           msg == sending[g][Count(g) + 1]
           len == Len(msg.body)
           start == Len(Stream(sending[g])[Count(g)])
           copy == First(c, len)
<1>1. /\ pc[g] = "body" /\ filled[g] = head[g].length /\ Put(g) /\ Goto(g, "handle")
      /\ received' = [received EXCEPT ![g] =
           Append(@, [type |-> head[g].type, body |-> First(c, head[g].length)])]
      /\ UNCHANGED <<key, sending, outbox, filled, head, sent, incoming, cut, wire, decoded>>
  BY DEF CopyBody, conn
<1>2. Types /\ pc \in [Goroutines -> Places]
  BY DEF IInv, Types, TypeOK, Places
<1>3. /\ Count(g) < sent[g] /\ msg \in Messages /\ start \in Nat
      /\ Len(Stream(sending[g])[Count(g) + 1]) = start + HeaderLen + len
      /\ \A i \in 1..len : Sent(g)[start + HeaderLen + i] = msg.body[i]
  BY <1>1, NextMessage
<1>4. msg.body \in Seq(Byte) /\ len \in Nat
  BY <1>3, FramedFacts
<1>5. head[g].type = msg.type /\ head[g].length = len
  BY <1>1, OwnFacts DEF Own, Announced
<1>6. copy = msg.body
  <2>1. c \in Seq(Byte) /\ Len(c) = Capacity[buf[g][1]] /\ len <= Capacity[buf[g][1]]
    <3>1. pc[g] \in Holding /\ Need(g) = len
      BY <1>1, <1>5 DEF Holding, Need
    <3> QED BY <1>1, <3>1, OwnFacts, RoomFacts
  <2>2. \A i \in 1..len : c[i] = msg.body[i]
    <3>1. Base(g) = start + HeaderLen
      BY <1>1, BaseFacts
    <3>2. \A i \in 1..len : c[i] = Sent(g)[Base(g) + i]
      BY <1>1, <1>5, OwnFacts DEF Own, Buffered
    <3> QED BY <1>3, <3>1, <3>2
  <2> DEFINE body == msg.body
  <2> HIDE DEF c, msg
  <2>3. len \in 0..Len(c)
    <3>1. Len(c) \in Nat
      BY <2>1
    <3> QED BY <1>4, <2>1, <3>1
  <2>4. copy \in Seq(Byte) /\ Len(copy) = len /\ \A i \in 1..len : copy[i] = c[i]
    BY <2>1, <2>3, FirstFacts
  <2> HIDE DEF copy
  <2>5. \A i \in 1..len : copy[i] = body[i]
    BY <2>2, <2>4
  <2> QED BY <1>4, <2>4, <2>5, SeqEqual
<1>7. received' = [received EXCEPT ![g] = Append(@, sending[g][Count(g) + 1])]
  <2>1. msg = [type |-> msg.type, body |-> msg.body]
    BY <1>3 DEF Messages
  <2>2. [type |-> head[g].type, body |-> First(c, head[g].length)] = msg
    BY <1>5, <1>6, <2>1
  <2> QED BY <1>1, <2>2
<1> HIDE DEF c, len, start, msg, copy
<1>8. pc'[g] = "handle" /\ \A h \in Goroutines \ {g} : pc'[h] = pc[h]
  BY <1>1, <1>2 DEF Goto
<1>9. /\ Exclusive' /\ buf' \in [Goroutines -> Buffers \cup {NoBuffer}] /\ idle' \subseteq Buffers
      /\ content' \in [Buffers -> Seq(Byte)] /\ \A d \in Buffers : Len(content'[d]) = Capacity[d[1]]
      /\ \A h \in Goroutines \ {g} :
           buf'[h] = buf[h] /\ (pc[h] \in Holding => content'[buf[h]] = content[buf[h]])
  <2>1. pc[g] \in Holding /\ "handle" \notin Holding
    BY <1>1 DEF Holding
  <2> QED BY <1>1, <2>1, PutFacts
<1>10. /\ received' \in [Goroutines -> Seq(Messages)]
       /\ \A h \in Goroutines \ {g} : received'[h] = received[h]
       /\ Count(g)' = Count(g) + 1 /\ Count(g) \in Nat /\ Kept(g)'
  BY <1>1, <1>3, <1>7, OneMore
<1>11. Types'
  <2>1. pc' \in [Goroutines -> Places]
    BY <1>1, <1>2 DEF Goto, Places
  <2> QED BY <1>1, <1>2, <1>9, <1>10, <2>1 DEF Types, TypeOK, Places
<1>12. Arriving(g)'
  <2>1. Base(g) = start + HeaderLen /\ Offset(g) = len /\ Sent(g)' = Sent(g)
    BY <1>1, <1>5, BaseFacts DEF Offset, Sent, start
  <2>2. Offset(g)' = 0
    BY <1>8 DEF Offset
  <2>3. Base(g)' = start + HeaderLen + len
    <3>1. Base(g)' = Len(Stream(sending[g])[Count(g) + 1]) + 0
      BY <1>1, <1>8, <1>10 DEF Base
    <3> QED BY <1>3, <1>4, <3>1, Constants
  <2>4. Position(g)' = Position(g)
    BY <1>3, <1>4, <2>1, <2>2, <2>3, Constants DEF Position
  <2> QED BY <1>1, <2>1, <2>4, OwnFacts DEF Own, Arriving, Ended
<1>13. Own(g)'
  <2>1. Written(g)'
    <3>1. Count(g)' \in Nat /\ Count(g)' >= Count(g) /\ Count(g)' > Count(g)
      BY <1>10
    <3> QED BY <1>1, <1>8, <3>1, WrittenKeeps
  <2>2. Understood(g)' /\ Ready(g)' /\ Buffered(g)' /\ Announced(g)'
    BY <1>1, <1>8, OwnFacts DEF Own, Understood, Ready, Buffered, Announced
  <2> QED BY <1>10, <1>12, <2>1, <2>2 DEF Own
<1> QED BY <1>1, <1>8, <1>9, <1>10, <1>11, <1>13, OneSteps

-----------------------------------------------------------------------------
(* Handling messages. *)

\* A goroutine that handles a message has no buffer and takes none.
LEMMA HandleFacts ==
  ASSUME IInv, NEW g \in Goroutines, pc[g] = "handle",
         NEW place \in {"write", "getHeader", "done", "failed"}, Goto(g, place),
         UNCHANGED <<key, sending, buf, filled, head, sent, incoming, cut, wire, received, idle, content>>
  PROVE  /\ pc' \in [Goroutines -> Places] /\ pc'[g] = place
         /\ \A h \in Goroutines \ {g} : pc'[h] = pc[h]
         /\ Exclusive'
         /\ Kept(g)' /\ Arriving(g)' /\ Buffered(g)' /\ Announced(g)' /\ Ready(g)'
         /\ Count(g)' = Count(g) /\ Count(g) \in Nat /\ Count(g) > 0
<1>1. pc \in [Goroutines -> Places]
  BY DEF IInv, Types, TypeOK, Places
<1>2. /\ pc'[g] = place /\ \A h \in Goroutines \ {g} : pc'[h] = pc[h]
      /\ pc' \in [Goroutines -> Places]
  BY <1>1 DEF Goto, Places
<1>3. Exclusive'
  BY <1>2 DEF IInv, Exclusive, Holding
<1>4. Kept(g)' /\ Arriving(g)' /\ Buffered(g)' /\ Announced(g)'
  BY <1>2, StillReading DEF Ended
<1>5. Ready(g)'
  BY <1>2 DEF Ready
<1>6. Count(g)' = Count(g) /\ Count(g) \in Nat /\ Count(g) > 0
  BY OwnFacts DEF Own, Kept, Count
<1> QED BY <1>2, <1>3, <1>4, <1>5, <1>6

LEMMA HandlePingStep == ASSUME IInv, NEW g \in Goroutines, HandlePing(g) PROVE IInv'
<1>1. /\ pc[g] = "handle" /\ Goto(g, "write") /\ outbox' = [outbox EXCEPT ![g] = Pong]
      /\ UNCHANGED <<key, sending, buf, filled, head, sent, incoming, cut, wire, received, decoded,
                     idle, content>>
  BY DEF HandlePing, Handling, Pong, conn, pools
<1>2. /\ pc' \in [Goroutines -> Places] /\ pc'[g] = "write"
      /\ \A h \in Goroutines \ {g} : pc'[h] = pc[h]
      /\ Exclusive'
      /\ Kept(g)' /\ Arriving(g)' /\ Buffered(g)' /\ Announced(g)' /\ Ready(g)'
      /\ Count(g)' = Count(g) /\ Count(g) \in Nat /\ Count(g) > 0
  BY <1>1, HandleFacts
<1>3. Types /\ outbox \in [Goroutines -> Messages]
  BY DEF IInv, Types
<1>4. /\ outbox' \in [Goroutines -> Messages] /\ outbox'[g] = Pong
      /\ \A h \in Goroutines \ {g} : outbox'[h] = outbox[h]
  BY <1>1, <1>3, PongType
<1>5. Types'
  BY <1>1, <1>2, <1>3, <1>4 DEF Types, TypeOK, Places
<1>6. Written(g)'
  <2>1. PICK k \in 0..Count(g) : Answered(g, k)
    BY <1>1, OwnFacts DEF Own, Written, Unasked
  <2>2. Answered(g, k)'
    BY <1>1, <1>2, <1>4, <2>1 DEF Answered, Request
  <2> QED BY <1>2, <2>2 DEF Written
<1>7. Own(g)'
  <2>1. Understood(g)'
    BY <1>1, OwnFacts DEF Own, Understood
  <2> QED BY <1>2, <1>6, <2>1 DEF Own
<1> QED BY <1>1, <1>2, <1>4, <1>5, <1>7, OneSteps

\* The other messages are not answered.
LEMMA HandledStep ==
  ASSUME IInv, NEW g \in Goroutines, pc[g] = "handle",
         NEW place \in {"getHeader", "done", "failed"}, Goto(g, place),
         UNCHANGED <<key, sending, outbox, buf, filled, head, sent, incoming, cut, wire, received,
                     idle, content>>,
         decoded' \in [Goroutines -> Seq([body : Seq(Byte), inv : {DecodeInvitation(b) : b \in Seq(Byte)}])],
         \A h \in Goroutines \ {g} : decoded'[h] = decoded[h], Understood(g)'
  PROVE  IInv'
<1>1. /\ pc' \in [Goroutines -> Places] /\ pc'[g] = place
      /\ \A h \in Goroutines \ {g} : pc'[h] = pc[h]
      /\ Exclusive'
      /\ Kept(g)' /\ Arriving(g)' /\ Buffered(g)' /\ Announced(g)' /\ Ready(g)'
      /\ Count(g)' = Count(g) /\ Count(g) \in Nat /\ Count(g) > 0
  BY HandleFacts
<1>2. Types'
  BY <1>1 DEF IInv, Types, TypeOK, Places
<1>3. Written(g)'
  BY <1>1, WrittenKeeps
<1>4. Own(g)'
  BY <1>1, <1>3 DEF Own
<1> QED BY <1>1, <1>2, <1>4, OneSteps

LEMMA HandleOtherStep ==
  ASSUME IInv, NEW g \in Goroutines, HandleResponse(g) \/ HandleUnexpected(g)
  PROVE  IInv'
<1>1. PICK place \in {"getHeader", "done", "failed"} : Goto(g, place)
  BY DEF HandleResponse, HandleUnexpected
<1>2. /\ pc[g] = "handle"
      /\ UNCHANGED <<key, sending, outbox, buf, filled, head, sent, incoming, cut, wire, received, decoded,
                     idle, content>>
  BY DEF HandleResponse, HandleUnexpected, Handling, conn, pools
<1>3. decoded' \in [Goroutines -> Seq([body : Seq(Byte), inv : {DecodeInvitation(b) : b \in Seq(Byte)}])]
  BY <1>2 DEF IInv, Types
<1>4. Understood(g)'
  BY <1>2, OwnFacts DEF Own, Understood
<1> QED BY <1>1, <1>2, <1>3, <1>4, HandledStep

LEMMA HandleInvitationStep == ASSUME IInv, NEW g \in Goroutines, HandleInvitation(g) PROVE IInv'
<1> DEFINE msg == Last(received[g])
           d == [body |-> msg.body, inv |-> DecodeInvitation(msg.body)]
           D == [body : Seq(Byte), inv : {DecodeInvitation(b) : b \in Seq(Byte)}]
           r == decoded[g]
<1>1. PICK place \in {"getHeader", "done", "failed"} : Goto(g, place)
  BY DEF HandleInvitation
<1>2. /\ pc[g] = "handle" /\ msg.type = "sessionInvitation"
      /\ UNCHANGED <<key, sending, outbox, buf, filled, head, sent, incoming, cut, wire, received,
                     idle, content>>
      /\ decoded' = [decoded EXCEPT ![g] = Append(@, d)]
  BY DEF HandleInvitation, Handling, conn, pools
<1>3. decoded \in [Goroutines -> Seq(D)] /\ r \in Seq(D)
  BY DEF IInv, Types
<1>4. /\ sending[g] \in Sendings /\ Count(g) \in 1..Len(sending[g])
      /\ msg = sending[g][Count(g)]
  <2>1. /\ sending[g] \in Sendings /\ Len(sending[g]) \in Nat /\ sent[g] \in Nat /\ Count(g) \in Nat
        /\ Count(g) > 0 /\ Count(g) <= sent[g] /\ sent[g] <= Len(sending[g])
        /\ \A i \in 1..Count(g) : received[g][i] = sending[g][i]
    BY <1>2, OwnFacts, SendingFacts DEF Own, Kept
  <2>2. msg = received[g][Count(g)]
    BY DEF Last, Count
  <2> HIDE DEF msg
  <2>3. Count(g) \in 1..Count(g) /\ Count(g) \in 1..Len(sending[g])
    BY <2>1
  <2> QED BY <2>1, <2>2, <2>3
<1>5. d \in D
  <2>1. msg \in Messages
    BY <1>4, SendingFacts
  <2>2. msg.body \in Seq(Byte)
    BY <2>1 DEF Messages
  <2> QED BY <2>2
<1> HIDE DEF D, d, r
<1>6. /\ Append(r, d) \in Seq(D) /\ Len(Append(r, d)) = Len(r) + 1 /\ Len(r) \in Nat
      /\ \A i \in 1..Len(r) : Append(r, d)[i] = r[i]
      /\ Append(r, d)[Len(r) + 1] = d
  BY <1>3, <1>5, AppendProperties
<1>7. /\ decoded' \in [Goroutines -> Seq(D)] /\ decoded'[g] = Append(r, d)
      /\ \A h \in Goroutines \ {g} : decoded'[h] = decoded[h]
  BY <1>2, <1>3, <1>6 DEF r
<1>8. Understood(g)'
  <2> DEFINE Meant(x) == /\ x.inv = DecodeInvitation(x.body)
                         /\ \E s \in Sendings : \E j \in 1..Len(s) :
                              s[j].type = "sessionInvitation" /\ s[j].body = x.body
  <2>1. Meant(d)
    BY <1>2, <1>4 DEF d
  <2>2. \A i \in 1..Len(r) : Meant(r[i])
    BY OwnFacts DEF Own, Understood, r
  <2> HIDE DEF Meant
  <2>3. ASSUME NEW i \in 1..(Len(r) + 1) PROVE Meant(Append(r, d)[i])
    <3>1. CASE i = Len(r) + 1
      BY <1>6, <2>1, <3>1
    <3>2. CASE i # Len(r) + 1
      <4>1. i \in 1..Len(r)
        BY <1>6, <3>2
      <4> QED BY <1>6, <2>2, <4>1
    <3> QED BY <3>1, <3>2
  <2>4. \A i \in 1..Len(decoded'[g]) : Meant(decoded'[g][i])
    BY <1>6, <1>7, <2>3
  <2> QED BY <2>4 DEF Understood, Meant
<1> QED BY <1>1, <1>2, <1>7, <1>8, HandledStep DEF D

-----------------------------------------------------------------------------
(* The relay and the connection. *)

LEMMA RelaySendsStep == ASSUME IInv, NEW g \in Goroutines, RelaySends(g) PROVE IInv'
<1> DEFINE s == sending[g]
           frame == Framed(s[sent[g] + 1])
           inc == incoming[g]
<1>1. /\ ~cut[g] /\ sent[g] < Len(s) /\ sent' = [sent EXCEPT ![g] = @ + 1]
      /\ incoming' = [incoming EXCEPT ![g] = @ \o Framed(sending[g][sent'[g]])]
      /\ UNCHANGED <<key, sending, pc, outbox, buf, filled, head, cut, wire, received, decoded, idle, content>>
  BY DEF RelaySends, pools
<1>2. /\ Types /\ sent \in [Goroutines -> Nat] /\ incoming \in [Goroutines -> Seq(Byte)]
  BY DEF IInv, Types
<1>3. /\ s \in Sendings /\ Len(s) \in Nat /\ sent[g] \in Nat /\ Count(g) \in Nat /\ Count(g) <= sent[g]
      /\ inc \in Seq(Byte) /\ Len(inc) \in Nat
  BY OwnFacts, SendingFacts DEF Own, Kept
<1>4. /\ Sent(g) \in Seq(Byte) /\ Stream(s)[sent[g] + 1] = Sent(g) \o frame
  BY <1>1, <1>3, StreamNext DEF Sent
<1>5. frame \in Seq(Byte)
  <2>1. sent[g] + 1 \in 1..Len(s)
    BY <1>1, <1>3
  <2> QED BY <1>3, <2>1, SendingFacts, FramedFacts
<1>6. sent'[g] = sent[g] + 1 /\ \A h \in Goroutines \ {g} : sent'[h] = sent[h]
  BY <1>1, <1>2
<1> HIDE DEF frame
<1>7. /\ incoming' = [incoming EXCEPT ![g] = inc \o frame]
      /\ inc \o frame \in Seq(Byte) /\ Len(inc \o frame) = Len(inc) + Len(frame) /\ Len(frame) \in Nat
      /\ \A i \in 1..Len(inc) : (inc \o frame)[i] = inc[i]
      /\ \A i \in 1..Len(frame) : (inc \o frame)[Len(inc) + i] = frame[i]
  BY <1>1, <1>3, <1>5, <1>6, Concat DEF frame
<1>8. /\ incoming'[g] = inc \o frame /\ \A h \in Goroutines \ {g} : incoming'[h] = incoming[h]
      /\ incoming' \in [Goroutines -> Seq(Byte)] /\ sent' \in [Goroutines -> Nat]
  <2>1. sent[g] + 1 \in Nat
    BY <1>3
  <2>2. sent' \in [Goroutines -> Nat]
    BY <1>1, <1>2, <2>1
  <2> DEFINE more == inc \o frame
  <2>3. more \in Seq(Byte) /\ incoming' = [incoming EXCEPT ![g] = more]
    BY <1>7
  <2> HIDE DEF more
  <2>4. /\ incoming'[g] = more /\ \A h \in Goroutines \ {g} : incoming'[h] = incoming[h]
        /\ incoming' \in [Goroutines -> Seq(Byte)]
    BY <1>2, <2>3
  <2> QED BY <2>2, <2>4 DEF more
<1>9. /\ Sent(g)' = Sent(g) \o frame /\ Len(Sent(g)) \in Nat
      /\ Len(Sent(g) \o frame) = Len(Sent(g)) + Len(frame)
      /\ \A i \in 1..Len(Sent(g)) : (Sent(g) \o frame)[i] = Sent(g)[i]
      /\ \A i \in 1..Len(frame) : (Sent(g) \o frame)[Len(Sent(g)) + i] = frame[i]
  <2>1. Sent(g)' = Sent(g) \o frame
    BY <1>1, <1>4, <1>6 DEF Sent
  <2> DEFINE z == Sent(g)
  <2>2. z \in Seq(Byte)
    BY <1>4
  <2> HIDE DEF z
  <2>3. /\ Len(z) \in Nat /\ Len(z \o frame) = Len(z) + Len(frame)
        /\ \A i \in 1..Len(z) : (z \o frame)[i] = z[i]
        /\ \A i \in 1..Len(frame) : (z \o frame)[Len(z) + i] = frame[i]
    BY <1>5, <2>2, Concat
  <2> QED BY <2>1, <2>3 DEF z
<1>10. Count(g)' = Count(g) /\ Base(g)' = Base(g) /\ Offset(g)' = Offset(g) /\ Position(g)' = Position(g)
  BY <1>1 DEF Count, Base, Offset, Position
<1>11. Base(g) \in Nat /\ Offset(g) \in Nat /\ Position(g) \in Nat /\ Position(g) = Base(g) + Offset(g)
  BY BaseFacts, OwnFacts DEF Offset, Position
<1>12. Types'
  BY <1>1, <1>2, <1>8 DEF Types, TypeOK
<1>13. Exclusive'
  BY <1>1 DEF IInv, Exclusive
<1>14. Kept(g)'
  BY <1>1, <1>3, <1>6, <1>10, OwnFacts DEF Own, Kept
<1> HIDE DEF inc
<1>15. ASSUME pc[g] \notin Ended
       PROVE  /\ Position(g) + Len(inc) = Len(Sent(g))
              /\ \A i \in 1..Len(inc) : inc[i] = Sent(g)[Position(g) + i]
  BY <1>1, <1>15, OwnFacts DEF Own, Arriving, inc
<1>16. Arriving(g)'
  <2> SUFFICES ASSUME pc[g] \notin Ended
               PROVE  /\ Position(g) + Len(inc \o frame) = Len(Sent(g) \o frame)
                      /\ \A i \in 1..Len(inc \o frame) :
                           (inc \o frame)[i] = (Sent(g) \o frame)[Position(g) + i]
    <3>1. Len(Sent(g) \o frame) \in Nat
      BY <1>7, <1>9
    <3> DEFINE all == Sent(g) \o frame
               more == inc \o frame
    <3>2. Sent(g)' = all /\ incoming'[g] = more /\ Len(all) \in Nat
      BY <1>8, <1>9, <3>1
    <3> HIDE DEF all, more
    <3>3. ASSUME pc'[g] \notin Ended
          PROVE  /\ Position(g) + Len(more) = Len(all)
                 /\ \A i \in 1..Len(more) : more[i] = all[Position(g) + i]
      BY <1>1, <3>3 DEF all, more
    <3>4. ASSUME pc'[g] \notin Ended
          PROVE  /\ Position(g)' + Len(incoming'[g]) <= Len(Sent(g)')
                 /\ ~cut'[g] => Position(g)' + Len(incoming'[g]) = Len(Sent(g)')
                 /\ \A i \in 1..Len(incoming'[g]) : incoming'[g][i] = Sent(g)'[Position(g)' + i]
      <4>1. Position(g)' + Len(incoming'[g]) = Len(Sent(g)') /\ Len(Sent(g)') \in Nat
        BY <1>10, <3>2, <3>3, <3>4
      <4>2. \A i \in 1..Len(incoming'[g]) : incoming'[g][i] = Sent(g)'[Position(g)' + i]
        BY <1>10, <3>2, <3>3, <3>4
      <4> QED BY <4>1, <4>2
    <3> QED BY <3>4 DEF Arriving
  <2>1. Position(g) + Len(inc \o frame) = Len(Sent(g) \o frame)
    <3>1. Len(inc) \in Nat
      BY <1>3 DEF inc
    <3>2. Len(inc \o frame) = Len(inc) + Len(frame) /\ Len(frame) \in Nat
      BY <1>7
    <3>3. Len(Sent(g) \o frame) = (Position(g) + Len(inc)) + Len(frame)
      BY <1>9, <1>15
    <3> QED BY <1>11, <3>1, <3>2, <3>3
  <2>2. ASSUME NEW i \in 1..(Len(inc) + Len(frame))
        PROVE  (inc \o frame)[i] = (Sent(g) \o frame)[Position(g) + i]
    <3>1. Len(inc) \in Nat
      BY <1>3 DEF inc
    <3>2. CASE i <= Len(inc)
      <4>1. i \in 1..Len(inc) /\ Position(g) + i \in 1..Len(Sent(g))
        BY <1>7, <1>9, <1>11, <1>15, <3>1, <3>2
      <4> QED BY <1>7, <1>9, <1>15, <4>1
    <3>3. CASE ~(i <= Len(inc))
      <4> DEFINE j == i - Len(inc)
      <4>a. Len(frame) \in Nat /\ Position(g) \in Nat /\ Len(Sent(g)) = Position(g) + Len(inc)
        BY <1>7, <1>11, <1>15
      <4>b. \A x, y, z \in Nat : \A k \in 1..(x + y) :
              ~(k <= x) => k - x \in 1..y /\ x + (k - x) = k /\ (z + x) + (k - x) = z + k
        OBVIOUS
      <4>1. j \in 1..Len(frame) /\ Len(inc) + j = i /\ Len(Sent(g)) + j = Position(g) + i
        BY <4>a, <4>b, <3>1, <3>3
      <4> HIDE DEF j
      <4>2. (inc \o frame)[Len(inc) + j] = frame[j] /\ (Sent(g) \o frame)[Len(Sent(g)) + j] = frame[j]
        BY <1>7, <1>9, <4>1
      <4> QED BY <4>1, <4>2
    <3> QED BY <3>2, <3>3
  <2> QED BY <1>7, <2>1, <2>2
<1>17. Buffered(g)'
  <2> SUFFICES ASSUME pc[g] \in {"header", "body"}, NEW i \in 1..filled[g]
               PROVE  content[buf[g]][i] = (Sent(g) \o frame)[Base(g) + i]
    BY <1>1, <1>9, <1>10 DEF Buffered
  <2>1. pc[g] \notin Ended /\ Offset(g) = filled[g] /\ filled[g] \in Nat
    BY OwnFacts DEF Ended, Offset
  <2>2. content[buf[g]][i] = Sent(g)[Base(g) + i]
    BY OwnFacts DEF Own, Buffered
  <2>3. Base(g) + i \in 1..Len(Sent(g))
    <3>1. Len(inc) \in Nat
      BY <1>3 DEF inc
    <3>2. (Base(g) + filled[g]) + Len(inc) = Len(Sent(g))
      BY <1>11, <1>15, <2>1
    <3> QED BY <1>9, <1>11, <2>1, <3>1, <3>2
  <2> QED BY <1>9, <2>2, <2>3
<1>18. Announced(g)'
  BY <1>1, <1>3, <1>6, <1>10, OwnFacts DEF Own, Announced
<1>19. Own(g)'
  <2>1. Written(g)'
    <3>1. Unasked(g) => Unasked(g)'
      BY <1>1 DEF Unasked, Request
    <3>2. \A k \in 0..Count(g) : Answered(g, k) => Answered(g, k)'
      BY <1>1, <1>10 DEF Answered, Request
    <3> QED BY <1>10, <3>1, <3>2, OwnFacts DEF Own, Written
  <2>2. Understood(g)' /\ Ready(g)'
    BY <1>1, OwnFacts DEF Own, Understood, Ready
  <2> QED BY <1>14, <1>16, <1>17, <1>18, <2>1, <2>2 DEF Own
<1> QED BY <1>1, <1>6, <1>8, <1>12, <1>13, <1>19, OneSteps

LEMMA CutStep == ASSUME IInv, NEW g \in Goroutines, Cut(g) PROVE IInv'
<1> DEFINE inc == incoming[g]
<1>1. /\ cut' = [cut EXCEPT ![g] = TRUE]
      /\ UNCHANGED <<key, sending, pc, outbox, buf, filled, head, sent, wire, received, decoded, idle, content>>
  BY DEF Cut, pools
<1>2. PICK n \in 0..Len(inc) : incoming' = [incoming EXCEPT ![g] = First(@, n)]
  BY DEF Cut
<1>3. /\ Types /\ cut \in [Goroutines -> BOOLEAN] /\ incoming \in [Goroutines -> Seq(Byte)]
      /\ inc \in Seq(Byte) /\ Len(inc) \in Nat
  <2>1. /\ Types /\ cut \in [Goroutines -> BOOLEAN] /\ incoming \in [Goroutines -> Seq(Byte)]
    BY DEF IInv, Types, TypeOK
  <2>2. inc \in Seq(Byte)
    BY <2>1
  <2> HIDE DEF inc
  <2> QED BY <2>1, <2>2
<1>4. First(inc, n) \in Seq(Byte) /\ Len(First(inc, n)) = n /\ \A i \in 1..n : First(inc, n)[i] = inc[i]
  BY <1>3, FirstFacts
<1>5. /\ cut'[g] = TRUE /\ \A h \in Goroutines \ {g} : cut'[h] = cut[h] /\ incoming'[h] = incoming[h]
      /\ incoming'[g] = First(inc, n)
      /\ incoming' \in [Goroutines -> Seq(Byte)] /\ cut' \in [Goroutines -> BOOLEAN]
  BY <1>1, <1>2, <1>3, <1>4
<1>6. Types'
  BY <1>1, <1>3, <1>5 DEF Types, TypeOK
<1>7. Exclusive'
  BY <1>1 DEF IInv, Exclusive
<1>8. /\ Count(g)' = Count(g) /\ Base(g)' = Base(g) /\ Offset(g)' = Offset(g) /\ Position(g)' = Position(g)
      /\ Sent(g)' = Sent(g)
  BY <1>1 DEF Count, Base, Offset, Position, Sent
<1>9. Position(g) \in Nat
  BY BaseFacts, OwnFacts DEF Offset, Position
<1>10. Arriving(g)'
  <2> SUFFICES ASSUME pc[g] \notin Ended
               PROVE  /\ Position(g) + n <= Len(Sent(g))
                      /\ \A i \in 1..n : First(inc, n)[i] = Sent(g)[Position(g) + i]
    BY <1>1, <1>4, <1>5, <1>8 DEF Arriving
  <2>1. /\ Position(g) + Len(inc) <= Len(Sent(g))
        /\ \A i \in 1..Len(inc) : inc[i] = Sent(g)[Position(g) + i]
    BY OwnFacts DEF Own, Arriving
  <2>2. Len(Sent(g)) \in Nat
    <3>1. sending[g] \in Sendings /\ sent[g] \in 0..Len(sending[g])
      BY OwnFacts, SendingFacts DEF Own, Kept
    <3> QED BY <3>1, StreamType DEF Sent
  <2> HIDE DEF inc
  <2>3. Position(g) + n <= Len(Sent(g))
    BY <1>3, <1>9, <2>1, <2>2
  <2>4. \A i \in 1..n : i \in 1..Len(inc)
    BY <1>3
  <2> QED BY <1>4, <2>1, <2>3, <2>4
<1>11. Own(g)'
  <2>1. Kept(g)' /\ Buffered(g)' /\ Announced(g)'
    BY <1>1, <1>8, OwnFacts DEF Own, Kept, Buffered, Announced
  <2>2. Written(g)'
    <3>1. Unasked(g) => Unasked(g)'
      BY <1>1 DEF Unasked, Request
    <3>2. \A k \in 0..Count(g) : Answered(g, k) => Answered(g, k)'
      BY <1>1, <1>8 DEF Answered, Request
    <3> QED BY <1>8, <3>1, <3>2, OwnFacts DEF Own, Written
  <2>3. Understood(g)' /\ Ready(g)'
    BY <1>1, OwnFacts DEF Own, Understood, Ready
  <2> QED BY <1>10, <2>1, <2>2, <2>3 DEF Own
<1> QED BY <1>1, <1>5, <1>6, <1>7, <1>11, OneSteps

-----------------------------------------------------------------------------
(* The invariant. *)

LEMMA StutterStep == ASSUME IInv, UNCHANGED vars PROVE IInv'
<1>1. UNCHANGED <<key, sending, pc, outbox, buf, filled, head, sent, incoming, cut, wire, received,
                  decoded, idle, content>>
  BY DEF vars, conn, pools
<1>2. Types'
  BY <1>1 DEF IInv, Types, TypeOK
<1>3. Exclusive'
  BY <1>1 DEF IInv, Exclusive
<1>4. ASSUME NEW h \in Goroutines PROVE Own(h)'
  <2>1. Own(h)
    BY DEF IInv
  <2> QED BY <1>1, <2>1, OthersKeep
<1> QED BY <1>2, <1>3, <1>4 DEF IInv

\* Where every byte is: what has been read, what is in the buffer, what is on the
\* way and what is still to come make up what the relay sends (wire.go:45-157).
THEOREM Inductive == Spec => []IInv
<1>1. Init => IInv
  BY InitIInv
<1>2. IInv /\ [Next]_vars => IInv'
  <2> SUFFICES ASSUME IInv, [Next]_vars PROVE IInv'
    OBVIOUS
  <2>1. CASE UNCHANGED vars
    BY <2>1, StutterStep
  <2>2. CASE Next
    <3> PICK g \in Goroutines :
          \/ WriteMessage(g) \/ Send(g)
          \/ GetHeader(g) \/ ReadSome(g) \/ ReadFails(g) \/ ParseHeader(g)
          \/ GetBody(g) \/ CopyBody(g)
          \/ HandlePing(g) \/ HandleResponse(g) \/ HandleInvitation(g) \/ HandleUnexpected(g)
          \/ RelaySends(g) \/ Cut(g)
      BY <2>2 DEF Next
    <3>1. CASE WriteMessage(g) \/ Send(g)
      BY <3>1, WriteMessageStep, SendStep
    <3>2. CASE GetHeader(g) \/ ReadSome(g) \/ ReadFails(g) \/ ParseHeader(g)
      BY <3>2, GetHeaderStep, ReadSomeStep, ReadFailsStep, ParseHeaderStep
    <3>3. CASE GetBody(g) \/ CopyBody(g)
      BY <3>3, GetBodyStep, CopyBodyStep
    <3>4. CASE HandlePing(g) \/ HandleResponse(g) \/ HandleInvitation(g) \/ HandleUnexpected(g)
      BY <3>4, HandlePingStep, HandleOtherStep, HandleInvitationStep
    <3>5. CASE RelaySends(g) \/ Cut(g)
      BY <3>5, RelaySendsStep, CutStep
    <3> QED BY <3>1, <3>2, <3>3, <3>4, <3>5
  <2> QED BY <2>1, <2>2
<1> QED BY <1>1, <1>2, PTL DEF Spec

LEMMA PrefixAt ==
  ASSUME NEW S, NEW s \in Seq(S), NEW t \in Seq(S), Len(s) <= Len(t),
         \A i \in 1..Len(s) : t[i] = s[i]
  PROVE  IsPrefix(s, t)
<1> DEFINE n == Len(s)
<1>1. n \in Nat /\ Len(t) \in Nat /\ n \in 0..Len(s) /\ n \in 0..Len(t)
  OBVIOUS
<1>2. First(s, n) \in Seq(S) /\ Len(First(s, n)) = n /\ \A i \in 1..n : First(s, n)[i] = s[i]
  BY <1>1, FirstFacts
<1>3. First(t, n) \in Seq(S) /\ Len(First(t, n)) = n /\ \A i \in 1..n : First(t, n)[i] = t[i]
  BY <1>1, FirstFacts
<1> DEFINE a == First(s, n)
           b == First(t, n)
<1>4. /\ a \in Seq(S) /\ b \in Seq(S) /\ Len(a) = Len(b)
      /\ \A i \in 1..Len(a) : a[i] = b[i]
  BY <1>2, <1>3
<1> HIDE DEF a, b
<1>5. a = b
  BY <1>4, SeqEqual
<1> QED BY <1>5 DEF a, b, IsPrefix, First

\* The counts and buffers of the readers keep their types: no buffer is taken
\* twice from its pool or filled beyond the largest message (TypeOK).
THEOREM TypeCorrect == Spec => []TypeOK
<1>1. IInv => TypeOK
  BY DEF IInv, Types
<1> QED BY <1>1, Inductive, PTL

LEMMA ReceivedIntact == ASSUME IInv, NEW g \in Goroutines PROVE IsPrefix(received[g], sending[g])
<1>1. /\ received[g] \in Seq(Messages) /\ Len(received[g]) \in Nat
      /\ Len(received[g]) <= sent[g] /\ sent[g] \in Nat /\ sent[g] <= Len(sending[g])
      /\ \A i \in 1..Len(received[g]) : received[g][i] = sending[g][i]
  BY OwnFacts DEF Own, Kept, Count
<1>2. sending[g] \in Seq(Messages) /\ Len(sending[g]) \in Nat
  BY OwnFacts, SendingFacts
<1>3. Len(received[g]) <= Len(sending[g])
  BY <1>1, <1>2
<1> QED BY <1>1, <1>2, <1>3, PrefixAt

LEMMA WireIntact ==
  ASSUME IInv, NEW g \in Goroutines
  PROVE  IsPrefix(wire[g], Framed(Request(g)) \o FlattenSeq(PongFrames(sending[g])))
<1> DEFINE f == Framed(Request(g))
           s == sending[g]
           all == FlattenSeq(PongFrames(s))
<1>1. f \in Seq(Byte)
  BY RequestFacts
<1>2. s \in Sendings /\ Len(s) \in Nat /\ Count(g) \in Nat /\ Count(g) <= Len(s) /\ 0 \in 0..Len(s)
  <2>1. s \in Sendings /\ Count(g) \in Nat /\ sent[g] \in Nat /\ Count(g) <= sent[g] /\ sent[g] <= Len(s)
    BY OwnFacts DEF Own, Kept
  <2>2. Len(s) \in Nat
    BY <2>1, SendingFacts
  <2> HIDE DEF s
  <2> QED BY <2>1, <2>2
<1>3. all \in Seq(Byte)
  BY <1>2, PongsGrow
<1>4. wire[g] = <<>> \/ \E k \in 0..Count(g) : wire[g] = f \o Pongs(s)[k]
  BY OwnFacts DEF Own, Written, Unasked, Answered
<1> HIDE DEF f, s
<1>5. ASSUME NEW k \in 0..Len(s) PROVE IsPrefix(f \o Pongs(s)[k], f \o all)
  <2> DEFINE p == Pongs(s)[k]
  <2>1. p \in Seq(Byte) /\ Len(p) <= Len(all) /\ \A i \in 1..Len(p) : all[i] = p[i]
    <3>1. p \in Seq(Byte)
      BY <1>2, PongsType
    <3>2. Len(p) <= Len(all) /\ \A i \in 1..Len(p) : all[i] = p[i]
      BY <1>2, PongsGrow
    <3> QED BY <3>1, <3>2
  <2> HIDE DEF p, all
  <2> DEFINE x == f \o p
             y == f \o all
  <2>2. /\ x \in Seq(Byte) /\ Len(x) = Len(f) + Len(p) /\ Len(f) \in Nat /\ Len(p) \in Nat
        /\ \A i \in 1..Len(f) : x[i] = f[i]
        /\ \A i \in 1..Len(p) : x[Len(f) + i] = p[i]
    BY <1>1, <2>1, Concat
  <2>3. /\ y \in Seq(Byte) /\ Len(y) = Len(f) + Len(all) /\ Len(all) \in Nat
        /\ \A i \in 1..Len(f) : y[i] = f[i]
        /\ \A i \in 1..Len(all) : y[Len(f) + i] = all[i]
    BY <1>1, <1>3, Concat DEF all
  <2> HIDE DEF x, y
  <2>4. Len(x) <= Len(y)
    BY <2>1, <2>2, <2>3
  <2>5. ASSUME NEW i \in 1..Len(x) PROVE y[i] = x[i]
    <3>1. CASE i \in 1..Len(f)
      BY <2>2, <2>3, <3>1
    <3>2. CASE i \notin 1..Len(f)
      <4> DEFINE j == i - Len(f)
      <4>1. j \in 1..Len(p) /\ j \in 1..Len(all) /\ Len(f) + j = i
        BY <2>1, <2>2, <2>3, <3>2
      <4> HIDE DEF j
      <4>2. x[Len(f) + j] = p[j] /\ y[Len(f) + j] = all[j] /\ all[j] = p[j]
        BY <2>1, <2>2, <2>3, <4>1
      <4> QED BY <4>1, <4>2
    <3> QED BY <3>1, <3>2
  <2>6. IsPrefix(x, y)
    BY <2>2, <2>3, <2>4, <2>5, PrefixAt
  <2> QED BY <2>6 DEF x, y, p
<1>6. IsPrefix(<<>>, f \o all)
  <2> DEFINE y == f \o all
             e == <<>>
  <2>1. y \in Seq(Byte) /\ Len(y) \in Nat /\ e \in Seq(Byte) /\ Len(e) = 0
    BY <1>1, <1>3, Concat
  <2> HIDE DEF y, e
  <2>2. Len(e) <= Len(y) /\ \A i \in 1..Len(e) : y[i] = e[i]
    BY <2>1
  <2>3. IsPrefix(e, y)
    BY <2>1, <2>2, PrefixAt
  <2> QED BY <2>3 DEF e, y
<1>7. CASE wire[g] = <<>>
  BY <1>6, <1>7 DEF f, s
<1>8. CASE \E k \in 0..Count(g) : wire[g] = f \o Pongs(s)[k]
  <2>1. PICK k \in 0..Count(g) : wire[g] = f \o Pongs(s)[k]
    BY <1>8
  <2>2. k \in 0..Len(s)
    BY <1>2, <2>1
  <2>3. IsPrefix(wire[g], f \o all)
    BY <1>5, <2>1, <2>2
  <2> QED BY <2>3 DEF f, s
<1> QED BY <1>4, <1>7, <1>8

\* What a goroutine reads is what its own relay sent, message by message, and
\* what a relay gets is the request and then pongs, however the bytes come and
\* whoever used the buffers meanwhile; no message outgrows its buffer
\* (wire.go:45-64, 105-157).
THEOREM MessagesAreIntact == Spec => []MessagesIntact
<1>1. ASSUME IInv PROVE MessagesIntact
  <2>1. ASSUME NEW g \in Goroutines
        PROVE  /\ IsPrefix(received[g], sending[g])
               /\ IsPrefix(wire[g], Framed(Request(g)) \o FlattenSeq(PongFrames(sending[g])))
               /\ pc[g] \in {"header", "body"} => Need(g) <= Capacity[buf[g][1]]
    BY <1>1, <2>1, ReceivedIntact, WireIntact, RoomFacts
  <2> QED BY <2>1 DEF MessagesIntact, PongFrames
<1>2. IInv => MessagesIntact
  BY <1>1
<1> QED BY <1>2, Inductive, PTL

-----------------------------------------------------------------------------
(* Invitations. *)

\* Bytes that stand between others.
Stands(c, o, b) == \A i \in 1..Len(b) : c[o + i] = b[i]

LEMMA Behind ==
  ASSUME NEW c \in Seq(Byte), NEW b \in Seq(Byte), NEW d \in Seq(Byte), NEW o \in Nat,
         o + Len(b) <= Len(c), Stands(c, o, b)
  PROVE  /\ c \o d \in Seq(Byte) /\ Len(c \o d) = Len(c) + Len(d) /\ Len(c) \in Nat /\ Len(d) \in Nat
         /\ Stands(c \o d, o, b) /\ Stands(c \o d, Len(c), d)
<1> DEFINE x == c \o d
<1>1. /\ x \in Seq(Byte) /\ Len(x) = Len(c) + Len(d) /\ Len(c) \in Nat /\ Len(d) \in Nat
      /\ \A i \in 1..Len(c) : x[i] = c[i]
      /\ \A i \in 1..Len(d) : x[Len(c) + i] = d[i]
  BY Concat
<1> HIDE DEF x
<1>2. ASSUME NEW i \in 1..Len(b) PROVE x[o + i] = b[i]
  <2>1. Len(b) \in Nat
    OBVIOUS
  <2>2. o + i \in 1..Len(c)
    BY <1>1, <2>1
  <2> QED BY <1>1, <2>2 DEF Stands
<1>3. Stands(x, o, b) /\ Stands(x, Len(c), d)
  BY <1>1, <1>2 DEF Stands
<1> QED BY <1>1, <1>3 DEF x

\* Five pieces that stand one behind the other.
Pieces(c, f, k, a, p, s) ==
  /\ c \in Seq(Byte)
  /\ Len(f) \in Nat /\ Len(k) \in Nat /\ Len(a) \in Nat /\ Len(p) \in Nat /\ Len(s) \in Nat
  /\ Len(f \o k) = Len(f) + Len(k)
  /\ Len(c) = Len(f) + Len(k) + Len(a) + Len(p) + Len(s)
  /\ \A i \in 1..Len(f) : c[i] = f[i]
  /\ Stands(c, Len(f), k) /\ Stands(c, Len(f) + Len(k), a)
  /\ Stands(c, Len(f) + Len(k) + Len(a), p)
  /\ Stands(c, Len(f) + Len(k) + Len(a) + Len(p), s)

LEMMA FivePieces ==
  ASSUME NEW f \in Seq(Byte), NEW k \in Seq(Byte), NEW a \in Seq(Byte), NEW p \in Seq(Byte),
         NEW s \in Seq(Byte)
  PROVE  Pieces(f \o k \o a \o p \o s, f, k, a, p, s)
<1> DEFINE fk == f \o k
           fka == fk \o a
           fkap == fka \o p
           c == fkap \o s
           z == 0
<1>1. /\ Len(f) \in Nat /\ Len(k) \in Nat /\ Len(a) \in Nat /\ Len(p) \in Nat /\ Len(s) \in Nat
      /\ z \in Nat /\ z + Len(f) = Len(f)
  OBVIOUS
<1>a. Stands(f, z, f)
  BY DEF Stands
<1> HIDE DEF z, fk, fka, fkap, c
<1>2. /\ fk \in Seq(Byte) /\ Len(fk) = Len(f) + Len(k)
      /\ Stands(fk, z, f) /\ Stands(fk, Len(f), k)
  <2>1. z + Len(f) <= Len(f)
    BY <1>1
  <2> QED BY <1>1, <1>a, <2>1, Behind DEF fk
<1>3. /\ fka \in Seq(Byte) /\ Len(fka) = Len(f) + Len(k) + Len(a)
      /\ Stands(fka, z, f) /\ Stands(fka, Len(f), k) /\ Stands(fka, Len(f) + Len(k), a)
  <2>1. z + Len(f) <= Len(fk) /\ Len(f) + Len(k) <= Len(fk)
    BY <1>1, <1>2
  <2>2. /\ fka \in Seq(Byte) /\ Len(fka) = Len(fk) + Len(a)
        /\ Stands(fka, z, f) /\ Stands(fka, Len(fk), a)
    <3>1. z + Len(f) <= Len(fk) /\ Stands(fk, z, f) /\ fk \in Seq(Byte) /\ z \in Nat
      BY <1>1, <1>2, <2>1
    <3>2. /\ fk \o a \in Seq(Byte) /\ Len(fk \o a) = Len(fk) + Len(a)
          /\ Stands(fk \o a, z, f) /\ Stands(fk \o a, Len(fk), a)
      BY <3>1, Behind
    <3> QED BY <3>2 DEF fka
  <2>3. Stands(fka, Len(f), k)
    BY <1>1, <1>2, <2>1, Behind DEF fka
  <2> QED BY <1>2, <2>2, <2>3
<1>4. /\ fkap \in Seq(Byte) /\ Len(fkap) = Len(f) + Len(k) + Len(a) + Len(p)
      /\ Stands(fkap, z, f) /\ Stands(fkap, Len(f), k) /\ Stands(fkap, Len(f) + Len(k), a)
      /\ Stands(fkap, Len(f) + Len(k) + Len(a), p)
  <2>1. /\ z + Len(f) <= Len(fka) /\ Len(f) + Len(k) <= Len(fka)
        /\ (Len(f) + Len(k)) + Len(a) <= Len(fka) /\ Len(f) + Len(k) \in Nat
    BY <1>1, <1>3
  <2>2. /\ fkap \in Seq(Byte) /\ Len(fkap) = Len(fka) + Len(p)
        /\ Stands(fkap, z, f) /\ Stands(fkap, Len(fka), p)
    <3>1. z + Len(f) <= Len(fka) /\ Stands(fka, z, f) /\ fka \in Seq(Byte) /\ z \in Nat
      BY <1>1, <1>3, <2>1
    <3>2. /\ fka \o p \in Seq(Byte) /\ Len(fka \o p) = Len(fka) + Len(p)
          /\ Stands(fka \o p, z, f) /\ Stands(fka \o p, Len(fka), p)
      BY <3>1, Behind
    <3> QED BY <3>2 DEF fkap
  <2>3. Stands(fkap, Len(f), k)
    BY <1>1, <1>3, <2>1, Behind DEF fkap
  <2>4. Stands(fkap, Len(f) + Len(k), a)
    BY <1>1, <1>3, <2>1, Behind DEF fkap
  <2> QED BY <1>3, <2>2, <2>3, <2>4
<1>5. /\ c \in Seq(Byte) /\ Len(c) = Len(f) + Len(k) + Len(a) + Len(p) + Len(s)
      /\ Stands(c, z, f) /\ Stands(c, Len(f), k) /\ Stands(c, Len(f) + Len(k), a)
      /\ Stands(c, Len(f) + Len(k) + Len(a), p)
      /\ Stands(c, Len(f) + Len(k) + Len(a) + Len(p), s)
  <2>1. /\ z + Len(f) <= Len(fkap) /\ Len(f) + Len(k) <= Len(fkap)
        /\ (Len(f) + Len(k)) + Len(a) <= Len(fkap) /\ Len(f) + Len(k) \in Nat
        /\ (Len(f) + Len(k) + Len(a)) + Len(p) <= Len(fkap) /\ Len(f) + Len(k) + Len(a) \in Nat
    BY <1>1, <1>4
  <2>2. /\ c \in Seq(Byte) /\ Len(c) = Len(fkap) + Len(s)
        /\ Stands(c, z, f) /\ Stands(c, Len(fkap), s)
    <3>1. z + Len(f) <= Len(fkap) /\ Stands(fkap, z, f) /\ fkap \in Seq(Byte) /\ z \in Nat
      BY <1>1, <1>4, <2>1
    <3>2. /\ fkap \o s \in Seq(Byte) /\ Len(fkap \o s) = Len(fkap) + Len(s)
          /\ Stands(fkap \o s, z, f) /\ Stands(fkap \o s, Len(fkap), s)
      BY <3>1, Behind
    <3> QED BY <3>2 DEF c
  <2>3. Stands(c, Len(f), k)
    BY <1>1, <1>4, <2>1, Behind DEF c
  <2>4. Stands(c, Len(f) + Len(k), a)
    BY <1>1, <1>4, <2>1, Behind DEF c
  <2>5. Stands(c, Len(f) + Len(k) + Len(a), p)
    BY <1>1, <1>4, <2>1, Behind DEF c
  <2> QED BY <1>4, <2>2, <2>3, <2>4, <2>5
<1>6. \A i \in 1..Len(f) : c[i] = f[i]
  <2>1. \A i \in 1..Len(f) : z + i = i
    BY <1>1 DEF z
  <2> QED BY <1>5, <2>1 DEF Stands
<1>7. Len(f \o k) = Len(f) + Len(k)
  BY <1>2 DEF fk
<1>8. Pieces(c, f, k, a, p, s)
  BY <1>1, <1>5, <1>6, <1>7 DEF Pieces
<1> QED BY <1>8 DEF c, fkap, fka, fk

\* Opaque data that is there is read, its padding skipped.
LEMMA OpaqueRead ==
  ASSUME NEW data \in Seq(Byte), NEW o \in Nat, NEW b \in Seq(Byte), Fits(Len(b)),
         o + WordLen + Len(b) <= Len(data),
         \A i \in 1..(WordLen + Len(b)) : data[o + i] = XDRBytes(b)[i]
  PROVE  ReadOpaque(data, o) = [ok |-> TRUE, val |-> b, offset |-> o + Len(XDRBytes(b))]
<1> DEFINE l == Uint(SubSeq(data, o + 1, o + WordLen))
           m == Len(b)
           val == SubSeq(data, o + WordLen + 1, o + WordLen + m)
<1>1. m \in Nat /\ WordLen \in Nat /\ Len(data) \in Nat
  BY Constants
<1>2. /\ Len(XDRBytes(b)) = WordLen + m + Padding(m) /\ Padding(m) \in Nat
      /\ \A i \in 1..WordLen : XDRBytes(b)[i] = PutUint(m)[i]
      /\ \A i \in 1..m : XDRBytes(b)[WordLen + i] = b[i]
  BY XDRFacts
<1>3. l = m
  <2>1. \A i \in 1..WordLen : data[o + i] = PutUint(m)[i]
    <3>1. \A i \in 1..WordLen : i \in 1..(WordLen + m)
      BY <1>1
    <3> QED BY <1>2, <3>1
  <2>2. o + WordLen <= Len(data)
    BY <1>1
  <2> HIDE DEF m
  <2>3. Fits(m)
    BY DEF m
  <2> QED BY <1>1, <2>1, <2>2, <2>3, WordAt
<1>4. val = b
  <2>1. o + WordLen \in Nat /\ m \in Nat /\ (o + WordLen) + m <= Len(data)
    BY <1>1
  <2> DEFINE q == o + WordLen
  <2>2. \A i \in (q + 1)..(q + m) : data[i] \in Byte
    BY <1>1
  <2>3. ASSUME NEW i \in 1..m PROVE data[q + i] = b[i]
    <3>1. WordLen + i \in 1..(WordLen + m) /\ o + (WordLen + i) = q + i
      BY <1>1
    <3> QED BY <1>2, <3>1
  <2> HIDE DEF q, m
  <2> DEFINE v == SubSeq(data, q + 1, q + m)
  <2>4. /\ v \in Seq(Byte)
        /\ Len(v) = IF q + 1 <= q + m THEN (q + m) - (q + 1) + 1 ELSE 0
        /\ \A i \in 1..((q + m) - (q + 1) + 1) : v[i] = data[(q + 1) + i - 1]
    BY <1>1, <2>1, <2>2, SubSeqProperties DEF q
  <2> HIDE DEF v
  <2>5. q \in Nat
    BY <2>1 DEF q
  <2>6. Len(v) = m /\ \A i \in 1..m : v[i] = data[q + i]
    BY <2>1, <2>4, <2>5
  <2>7. v = b
    BY <2>3, <2>4, <2>6, SeqEqual DEF m
  <2> QED BY <2>7 DEF v, q
<1> HIDE DEF m, l, val
<1>5. ~(o + WordLen > Len(data) \/ o + WordLen + l > Len(data))
  BY <1>1, <1>3 DEF m
<1>6. ReadOpaque(data, o) = [ok |-> TRUE, val |-> SubSeq(data, o + WordLen + 1, o + WordLen + l),
                             offset |-> o + WordLen + l + Padding(l)]
  BY <1>5 DEF ReadOpaque, l
<1>7. o + WordLen + l + Padding(l) = o + Len(XDRBytes(b))
  BY <1>1, <1>2, <1>3
<1>8. SubSeq(data, o + WordLen + 1, o + WordLen + l) = b
  BY <1>3, <1>4 DEF val
<1> QED BY <1>6, <1>7, <1>8

\* Opaque data that is cut short is refused.
LEMMA OpaqueCut ==
  ASSUME NEW data \in Seq(Byte), NEW o \in Nat, NEW b \in Seq(Byte), Fits(Len(b)),
         Len(data) < o + WordLen + Len(b),
         \A i \in 1..WordLen : o + i <= Len(data) => data[o + i] = XDRBytes(b)[i]
  PROVE  ReadOpaque(data, o).ok = FALSE
<1> DEFINE l == Uint(SubSeq(data, o + 1, o + WordLen))
           m == Len(b)
<1>1. m \in Nat /\ WordLen \in Nat /\ Len(data) \in Nat
  BY Constants
<1>2. \A i \in 1..WordLen : XDRBytes(b)[i] = PutUint(m)[i]
  BY XDRFacts
<1>3. o + WordLen <= Len(data) => l = m
  <2> SUFFICES ASSUME o + WordLen <= Len(data) PROVE l = m
    OBVIOUS
  <2>1. \A i \in 1..WordLen : data[o + i] = PutUint(m)[i]
    <3>1. \A i \in 1..WordLen : o + i <= Len(data)
      BY <1>1
    <3> QED BY <1>2, <3>1
  <2> HIDE DEF m
  <2>2. Fits(m)
    BY DEF m
  <2> QED BY <1>1, <2>1, <2>2, WordAt
<1> HIDE DEF l
<1>4. o + WordLen > Len(data) \/ o + WordLen + l > Len(data)
  BY <1>1, <1>3
<1>5. ReadOpaque(data, o) = [ok |-> FALSE, val |-> <<>>, offset |-> o]
  BY <1>4 DEF ReadOpaque, l
<1> QED BY <1>5

\* What an invitation says, with what it leaves out.
Told(inv) ==
  [from |-> inv.from, key |-> inv.key, address |-> inv.address,
   port |-> IF inv.fields > 0 THEN inv.port ELSE 0,
   serverSocket |-> inv.fields > 1 /\ inv.serverSocket]

\* Where the opaque data of an invitation ends.
KeyStart(inv) == Len(XDRBytes(inv.from))
AddressStart(inv) == KeyStart(inv) + Len(XDRBytes(inv.key))
NumbersStart(inv) == AddressStart(inv) + Len(XDRBytes(inv.address))
Flag(inv) == IF inv.serverSocket THEN 1 ELSE 0

LEMMA PortType == ASSUME NEW n \in Port PROVE n \in Nat /\ n < 65536
<1>1. MaxPort \in Nat /\ MaxPort < 65536
  BY DEF MaxPort
<1>2. n \in Nat /\ n <= MaxPort
  BY <1>1 DEF Port
<1> QED BY <1>1, <1>2

LEMMA InvitationFacts ==
  ASSUME NEW inv, GoodInvitation(inv)
  PROVE  LET c == InvitationBody(inv) IN
         /\ inv.from \in Seq(Byte) /\ inv.key \in Seq(Byte) /\ inv.address \in Seq(Byte)
         /\ inv.port \in Nat /\ inv.port < 65536 /\ inv.serverSocket \in BOOLEAN /\ inv.fields \in 0..2
         /\ Fits(Len(inv.from)) /\ Fits(Len(inv.key)) /\ Fits(Len(inv.address))
         /\ Fits(inv.port) /\ Fits(Flag(inv)) /\ Flag(inv) \in Nat
         /\ KeyStart(inv) \in Nat /\ AddressStart(inv) \in Nat /\ NumbersStart(inv) \in Nat
         /\ Len(XDRBytes(inv.from) \o XDRBytes(inv.key)) = AddressStart(inv)
         /\ c \in Seq(Byte) /\ Len(c) = NumbersStart(inv) + inv.fields * WordLen
         /\ \A i \in 1..KeyStart(inv) : c[i] = XDRBytes(inv.from)[i]
         /\ Stands(c, KeyStart(inv), XDRBytes(inv.key))
         /\ Stands(c, AddressStart(inv), XDRBytes(inv.address))
         /\ inv.fields > 0 => Stands(c, NumbersStart(inv), PutUint(inv.port))
         /\ inv.fields > 1 => Stands(c, NumbersStart(inv) + WordLen, PutUint(Flag(inv)))
<1>1. /\ inv.from \in Seq(Byte) /\ inv.key \in Seq(Byte) /\ inv.address \in Seq(Byte)
      /\ inv.port \in Nat /\ inv.port < 65536 /\ inv.serverSocket \in BOOLEAN /\ inv.fields \in 0..2
  <2>1. /\ inv.from \in Seq(Byte) /\ inv.key \in Seq(Byte) /\ inv.address \in Seq(Byte)
        /\ inv.port \in Port /\ inv.serverSocket \in BOOLEAN /\ inv.fields \in 0..2
    BY DEF GoodInvitation
  <2>2. inv.port \in Nat /\ inv.port < 65536
    BY <2>1, PortType
  <2> QED BY <2>1, <2>2
<1>2. Fits(Len(inv.from)) /\ Fits(Len(inv.key)) /\ Fits(Len(inv.address)) /\ Fits(inv.port)
  BY DEF GoodInvitation
<1>3. Flag(inv) \in Nat /\ Fits(Flag(inv))
  <2>1. Flag(inv) \in Byte /\ Flag(inv) \in Nat
    BY DEF Flag, Byte
  <2> QED BY <2>1, ByteFits
<1> DEFINE x == XDRBytes(inv.from)
           y == XDRBytes(inv.key)
           w == XDRBytes(inv.address)
<1>a. x \in Seq(Byte)
  <2>1. inv.from \in Seq(Byte)
    BY <1>1
  <2> QED BY <2>1, XDRFacts
<1>b. y \in Seq(Byte)
  <2>1. inv.key \in Seq(Byte)
    BY <1>1
  <2> QED BY <2>1, XDRFacts
<1>c. w \in Seq(Byte)
  <2>1. inv.address \in Seq(Byte)
    BY <1>1
  <2> QED BY <2>1, XDRFacts
<1> DEFINE f == XDRBytes(inv.from)
           k == XDRBytes(inv.key)
           a == XDRBytes(inv.address)
           p == IF inv.fields > 0 THEN PutUint(inv.port) ELSE <<>>
           s == IF inv.fields > 1 THEN PutUint(Flag(inv)) ELSE <<>>
           c == f \o k \o a \o p \o s
<1>4. f \in Seq(Byte) /\ k \in Seq(Byte) /\ a \in Seq(Byte)
  BY <1>a, <1>b, <1>c
<1>5. /\ p \in Seq(Byte) /\ Len(p) = IF inv.fields > 0 THEN WordLen ELSE 0
      /\ s \in Seq(Byte) /\ Len(s) = IF inv.fields > 1 THEN WordLen ELSE 0
  <2>1. /\ PutUint(inv.port) \in Seq(Byte) /\ Len(PutUint(inv.port)) = WordLen
        /\ PutUint(Flag(inv)) \in Seq(Byte) /\ Len(PutUint(Flag(inv))) = WordLen
    BY <1>1, <1>3, PutUintType
  <2> QED BY <2>1
<1>6. InvitationBody(inv) = c
  BY DEF InvitationBody, Flag
<1>7. inv.fields > 0 => p = PutUint(inv.port)
  OBVIOUS
<1>8. inv.fields > 1 => s = PutUint(Flag(inv))
  OBVIOUS
<1> HIDE DEF p, s, f, k, a
<1>9. /\ c \in Seq(Byte)
      /\ Len(f) \in Nat /\ Len(k) \in Nat /\ Len(a) \in Nat /\ Len(p) \in Nat /\ Len(s) \in Nat
      /\ Len(f \o k) = Len(f) + Len(k)
      /\ Len(c) = Len(f) + Len(k) + Len(a) + Len(p) + Len(s)
      /\ \A i \in 1..Len(f) : c[i] = f[i]
      /\ Stands(c, Len(f), k) /\ Stands(c, Len(f) + Len(k), a)
      /\ Stands(c, Len(f) + Len(k) + Len(a), p)
      /\ Stands(c, Len(f) + Len(k) + Len(a) + Len(p), s)
  <2>1. f \in Seq(Byte) /\ k \in Seq(Byte) /\ a \in Seq(Byte) /\ p \in Seq(Byte) /\ s \in Seq(Byte)
    BY <1>4, <1>5
  <2>2. Pieces(c, f, k, a, p, s)
    BY <2>1, FivePieces
  <2> HIDE DEF c
  <2> QED BY <2>2 DEF Pieces
<1> HIDE DEF c
<1>10. KeyStart(inv) = Len(f) /\ AddressStart(inv) = Len(f) + Len(k)
       /\ NumbersStart(inv) = Len(f) + Len(k) + Len(a)
  BY DEF KeyStart, AddressStart, NumbersStart, f, k, a
<1>11. KeyStart(inv) \in Nat /\ AddressStart(inv) \in Nat /\ NumbersStart(inv) \in Nat
  BY <1>9, <1>10
<1>12. Len(c) = NumbersStart(inv) + inv.fields * WordLen
  <2>1. inv.fields = 0 \/ inv.fields = 1 \/ inv.fields = 2
    BY <1>1
  <2>2. WordLen \in Nat
    BY Constants
  <2>3. Len(p) + Len(s) = inv.fields * WordLen
    BY <1>5, <2>1, <2>2
  <2> QED BY <1>9, <1>10, <2>3
<1>13. inv.fields > 1 => Stands(c, NumbersStart(inv) + WordLen, s)
  <2> SUFFICES ASSUME inv.fields > 1 PROVE Stands(c, NumbersStart(inv) + WordLen, s)
    OBVIOUS
  <2>1. inv.fields > 0
    BY <1>1
  <2>2. Len(p) = WordLen
    BY <1>5, <2>1
  <2> QED BY <1>9, <1>10, <2>2
<1>14. /\ Stands(c, KeyStart(inv), k) /\ Stands(c, AddressStart(inv), a)
       /\ Stands(c, NumbersStart(inv), p)
       /\ \A i \in 1..KeyStart(inv) : c[i] = f[i]
       /\ Len(f \o k) = AddressStart(inv)
  BY <1>9, <1>10
<1>15. /\ inv.fields > 0 => Stands(c, NumbersStart(inv), PutUint(inv.port))
       /\ inv.fields > 1 => Stands(c, NumbersStart(inv) + WordLen, PutUint(Flag(inv)))
  BY <1>7, <1>8, <1>13, <1>14
<1>16. /\ InvitationBody(inv) = c /\ c \in Seq(Byte)
       /\ Stands(c, KeyStart(inv), XDRBytes(inv.key)) /\ Stands(c, AddressStart(inv), XDRBytes(inv.address))
       /\ \A i \in 1..KeyStart(inv) : c[i] = XDRBytes(inv.from)[i]
       /\ Len(XDRBytes(inv.from) \o XDRBytes(inv.key)) = AddressStart(inv)
  BY <1>6, <1>9, <1>14 DEF f, k, a
<1> QED BY <1>1, <1>2, <1>3, <1>11, <1>12, <1>15, <1>16

\* A body that begins with the bytes of an invitation, and is long enough for
\* the opaque data up to one of them, is read that far.
Begins(data, inv) == \A i \in 1..Len(data) : data[i] = InvitationBody(inv)[i]

LEMMA OpaqueAt ==
  ASSUME NEW inv, GoodInvitation(inv), NEW data \in Seq(Byte), Len(data) <= Len(InvitationBody(inv)),
         Begins(data, inv), NEW o \in Nat, NEW b \in Seq(Byte), Fits(Len(b)),
         \A i \in 1..Len(XDRBytes(b)) : InvitationBody(inv)[o + i] = XDRBytes(b)[i]
  PROVE  /\ o + WordLen + Len(b) <= Len(data) =>
              ReadOpaque(data, o) = [ok |-> TRUE, val |-> b, offset |-> o + Len(XDRBytes(b))]
         /\ Len(data) < o + WordLen + Len(b) => ReadOpaque(data, o).ok = FALSE
<1> DEFINE c == InvitationBody(inv)
           x == XDRBytes(b)
<1>1. Len(x) = WordLen + Len(b) + Padding(Len(b)) /\ Padding(Len(b)) \in Nat /\ Len(b) \in Nat
  BY XDRFacts
<1>2. WordLen \in Nat /\ Len(data) \in Nat
  BY Constants
<1> HIDE DEF c, x
<1>3. ASSUME NEW i \in 1..(WordLen + Len(b)), o + i <= Len(data) PROVE data[o + i] = x[i]
  <2>1. i \in 1..Len(x) /\ o + i \in 1..Len(data)
    BY <1>1, <1>2, <1>3
  <2> QED BY <2>1 DEF Begins, c, x
<1>4. ASSUME o + WordLen + Len(b) <= Len(data)
      PROVE  ReadOpaque(data, o) = [ok |-> TRUE, val |-> b, offset |-> o + Len(XDRBytes(b))]
  <2>1. \A i \in 1..(WordLen + Len(b)) : o + i <= Len(data)
    BY <1>1, <1>2, <1>4
  <2>2. \A i \in 1..(WordLen + Len(b)) : data[o + i] = XDRBytes(b)[i]
    BY <1>3, <2>1 DEF x
  <2> QED BY <1>4, <2>2, OpaqueRead
<1>5. ASSUME Len(data) < o + WordLen + Len(b) PROVE ReadOpaque(data, o).ok = FALSE
  <2>1. \A i \in 1..WordLen : i \in 1..(WordLen + Len(b))
    BY <1>1, <1>2
  <2>2. \A i \in 1..WordLen : o + i <= Len(data) => data[o + i] = XDRBytes(b)[i]
    BY <1>3, <2>1 DEF x
  <2> QED BY <1>5, <2>2, OpaqueCut
<1> QED BY <1>4, <1>5

\* The lengths of an invitation's opaque data, as they stand in its body.
LEMMA OpaqueLengths ==
  ASSUME NEW inv, GoodInvitation(inv)
  PROVE  /\ Len(inv.from) \in Nat /\ Len(inv.key) \in Nat /\ Len(inv.address) \in Nat
         /\ WordLen + Len(inv.from) <= KeyStart(inv)
         /\ KeyStart(inv) + WordLen + Len(inv.key) <= AddressStart(inv)
         /\ AddressStart(inv) + WordLen + Len(inv.address) <= NumbersStart(inv)
         /\ KeyStart(inv) \in Nat /\ AddressStart(inv) \in Nat /\ NumbersStart(inv) \in Nat
         /\ Len(InvitationBody(inv)) \in Nat /\ NumbersStart(inv) <= Len(InvitationBody(inv))
         /\ KeyStart(inv) <= AddressStart(inv) /\ AddressStart(inv) <= NumbersStart(inv)
<1>1. /\ inv.from \in Seq(Byte) /\ inv.key \in Seq(Byte) /\ inv.address \in Seq(Byte)
      /\ KeyStart(inv) \in Nat /\ AddressStart(inv) \in Nat /\ NumbersStart(inv) \in Nat
      /\ InvitationBody(inv) \in Seq(Byte) /\ inv.fields \in 0..2
      /\ Len(InvitationBody(inv)) = NumbersStart(inv) + inv.fields * WordLen
  BY InvitationFacts
<1>2. \A b \in Seq(Byte) : /\ Len(b) \in Nat /\ Padding(Len(b)) \in Nat
                           /\ Len(XDRBytes(b)) = WordLen + Len(b) + Padding(Len(b))
  BY XDRFacts
<1> DEFINE f == inv.from
           k == inv.key
           a == inv.address
<1>3. f \in Seq(Byte) /\ k \in Seq(Byte) /\ a \in Seq(Byte)
  BY <1>1
<1>4. /\ KeyStart(inv) = Len(XDRBytes(f)) /\ AddressStart(inv) = KeyStart(inv) + Len(XDRBytes(k))
      /\ NumbersStart(inv) = AddressStart(inv) + Len(XDRBytes(a))
  BY DEF KeyStart, AddressStart, NumbersStart
<1> HIDE DEF f, k, a
<1>5. /\ Len(f) \in Nat /\ Padding(Len(f)) \in Nat
      /\ KeyStart(inv) = WordLen + Len(f) + Padding(Len(f))
  BY <1>2, <1>3, <1>4
<1>6. /\ Len(k) \in Nat /\ Padding(Len(k)) \in Nat
      /\ AddressStart(inv) = KeyStart(inv) + (WordLen + Len(k) + Padding(Len(k)))
  BY <1>2, <1>3, <1>4
<1>7. /\ Len(a) \in Nat /\ Padding(Len(a)) \in Nat
      /\ NumbersStart(inv) = AddressStart(inv) + (WordLen + Len(a) + Padding(Len(a)))
  BY <1>2, <1>3, <1>4
<1>8. WordLen \in Nat
  BY Constants
<1>9. inv.fields * WordLen \in Nat
  BY <1>1, <1>8
<1>10. /\ WordLen + Len(f) <= KeyStart(inv)
       /\ KeyStart(inv) + WordLen + Len(k) <= AddressStart(inv)
       /\ AddressStart(inv) + WordLen + Len(a) <= NumbersStart(inv)
       /\ KeyStart(inv) <= AddressStart(inv) /\ AddressStart(inv) <= NumbersStart(inv)
  <2>1. \A x, l, p, s \in Nat : x = s + (WordLen + l + p) => s + WordLen + l <= x /\ s <= x
    BY <1>8
  <2>2. \A x, l, p \in Nat : x = WordLen + l + p => WordLen + l <= x
    BY <1>8
  <2>3. WordLen + Len(f) <= KeyStart(inv)
    BY <1>1, <1>5, <2>2
  <2>4. KeyStart(inv) + WordLen + Len(k) <= AddressStart(inv) /\ KeyStart(inv) <= AddressStart(inv)
    BY <1>1, <1>6, <2>1
  <2>5. /\ AddressStart(inv) + WordLen + Len(a) <= NumbersStart(inv)
        /\ AddressStart(inv) <= NumbersStart(inv)
    BY <1>1, <1>7, <2>1
  <2> QED BY <2>3, <2>4, <2>5
<1>11. Len(InvitationBody(inv)) \in Nat /\ NumbersStart(inv) <= Len(InvitationBody(inv))
  BY <1>1, <1>9
<1> QED BY <1>1, <1>5, <1>6, <1>7, <1>10, <1>11 DEF f, k, a

\* What is read of a body that begins as an invitation does.
LEMMA OpaqueParts ==
  ASSUME NEW inv, GoodInvitation(inv), NEW data \in Seq(Byte), Len(data) <= Len(InvitationBody(inv)),
         Begins(data, inv)
  PROVE  LET Reads(o, b) == ReadOpaque(data, o) = [ok |-> TRUE, val |-> b, offset |-> o + Len(XDRBytes(b))]
         IN /\ IF WordLen + Len(inv.from) <= Len(data) THEN Reads(0, inv.from)
               ELSE ReadOpaque(data, 0).ok = FALSE
            /\ IF KeyStart(inv) + WordLen + Len(inv.key) <= Len(data) THEN Reads(KeyStart(inv), inv.key)
               ELSE ReadOpaque(data, KeyStart(inv)).ok = FALSE
            /\ IF AddressStart(inv) + WordLen + Len(inv.address) <= Len(data)
               THEN Reads(AddressStart(inv), inv.address)
               ELSE ReadOpaque(data, AddressStart(inv)).ok = FALSE
<1> DEFINE f == inv.from
           k == inv.key
           a == inv.address
           c == InvitationBody(inv)
           z == 0
<1>1. /\ f \in Seq(Byte) /\ k \in Seq(Byte) /\ a \in Seq(Byte)
      /\ Fits(Len(f)) /\ Fits(Len(k)) /\ Fits(Len(a))
      /\ KeyStart(inv) \in Nat /\ AddressStart(inv) \in Nat
      /\ \A i \in 1..KeyStart(inv) : c[i] = XDRBytes(f)[i]
      /\ Stands(c, KeyStart(inv), XDRBytes(k)) /\ Stands(c, AddressStart(inv), XDRBytes(a))
  BY InvitationFacts
<1>2. Len(f) \in Nat /\ Len(k) \in Nat /\ Len(a) \in Nat /\ Len(data) \in Nat /\ WordLen \in Nat
  BY OpaqueLengths, Constants
<1>3. /\ \A i \in 1..Len(XDRBytes(f)) : c[z + i] = XDRBytes(f)[i]
      /\ \A i \in 1..Len(XDRBytes(k)) : c[KeyStart(inv) + i] = XDRBytes(k)[i]
      /\ \A i \in 1..Len(XDRBytes(a)) : c[AddressStart(inv) + i] = XDRBytes(a)[i]
  <2>1. KeyStart(inv) = Len(XDRBytes(f))
    BY DEF KeyStart
  <2>2. \A i \in 1..KeyStart(inv) : z + i = i
    BY <1>1
  <2> HIDE DEF z, f, k, a, c
  <2> QED BY <1>1, <2>1, <2>2 DEF Stands
<1>4. z \in Nat /\ z + WordLen + Len(f) = WordLen + Len(f)
  BY <1>2
<1> HIDE DEF z, f, k, a
<1>5. /\ z + WordLen + Len(f) <= Len(data) =>
           ReadOpaque(data, z) = [ok |-> TRUE, val |-> f, offset |-> z + Len(XDRBytes(f))]
      /\ Len(data) < z + WordLen + Len(f) => ReadOpaque(data, z).ok = FALSE
  <2>1. /\ z \in Nat /\ f \in Seq(Byte) /\ Fits(Len(f))
        /\ \A i \in 1..Len(XDRBytes(f)) : InvitationBody(inv)[z + i] = XDRBytes(f)[i]
    BY <1>1, <1>3, <1>4
  <2> HIDE DEF c
  <2> QED BY <2>1, OpaqueAt
<1>6. /\ KeyStart(inv) + WordLen + Len(k) <= Len(data) =>
           ReadOpaque(data, KeyStart(inv)) =
             [ok |-> TRUE, val |-> k, offset |-> KeyStart(inv) + Len(XDRBytes(k))]
      /\ Len(data) < KeyStart(inv) + WordLen + Len(k) => ReadOpaque(data, KeyStart(inv)).ok = FALSE
  <2>1. /\ KeyStart(inv) \in Nat /\ k \in Seq(Byte) /\ Fits(Len(k))
        /\ \A i \in 1..Len(XDRBytes(k)) : InvitationBody(inv)[KeyStart(inv) + i] = XDRBytes(k)[i]
    BY <1>1, <1>3, <1>4
  <2> HIDE DEF c
  <2> QED BY <2>1, OpaqueAt
<1>7. /\ AddressStart(inv) + WordLen + Len(a) <= Len(data) =>
           ReadOpaque(data, AddressStart(inv)) =
             [ok |-> TRUE, val |-> a, offset |-> AddressStart(inv) + Len(XDRBytes(a))]
      /\ Len(data) < AddressStart(inv) + WordLen + Len(a) => ReadOpaque(data, AddressStart(inv)).ok = FALSE
  <2>1. /\ AddressStart(inv) \in Nat /\ a \in Seq(Byte) /\ Fits(Len(a))
        /\ \A i \in 1..Len(XDRBytes(a)) : InvitationBody(inv)[AddressStart(inv) + i] = XDRBytes(a)[i]
    BY <1>1, <1>3, <1>4
  <2> HIDE DEF c
  <2> QED BY <2>1, OpaqueAt
<1>8. \A x, y \in Nat : ~(x <= y) => y < x
  OBVIOUS
<1>9. /\ WordLen + Len(f) \in Nat /\ KeyStart(inv) + WordLen + Len(k) \in Nat
      /\ AddressStart(inv) + WordLen + Len(a) \in Nat
  BY <1>1, <1>2
<1> QED BY <1>2, <1>4, <1>5, <1>6, <1>7, <1>8, <1>9 DEF z, f, k, a

\* A whole invitation is understood as it was meant.
LEMMA WholeInvitation ==
  ASSUME NEW inv, GoodInvitation(inv)
  PROVE  DecodeInvitation(InvitationBody(inv)) = Told(inv)
<1> DEFINE c == InvitationBody(inv)
           o == NumbersStart(inv)
           from == ReadOpaque(c, 0)
           invKey == ReadOpaque(c, from.offset)
           address == ReadOpaque(c, invKey.offset)
           number(i) == Uint(SubSeq(c, address.offset + i * WordLen + 1, address.offset + (i + 1) * WordLen))
           has(i) == address.offset + (i + 1) * WordLen <= Len(c)
<1>1. DecodeInvitation(c) =
        IF ~(from.ok /\ invKey.ok /\ address.ok) THEN Malformed
        ELSE [from |-> from.val, key |-> invKey.val, address |-> address.val,
              port |-> IF has(0) THEN number(0) % 65536 ELSE 0,
              serverSocket |-> has(1) /\ number(1) = 1]
  BY DEF DecodeInvitation
<1>2. /\ c \in Seq(Byte) /\ Len(c) = o + inv.fields * WordLen /\ o \in Nat
      /\ inv.port \in Nat /\ inv.port < 65536 /\ Fits(inv.port) /\ inv.fields \in 0..2
      /\ inv.serverSocket \in BOOLEAN /\ Flag(inv) \in Nat /\ Fits(Flag(inv))
      /\ inv.fields > 0 => Stands(c, o, PutUint(inv.port))
      /\ inv.fields > 1 => Stands(c, o + WordLen, PutUint(Flag(inv)))
  BY InvitationFacts
<1>3. /\ WordLen + Len(inv.from) <= Len(c) /\ KeyStart(inv) + WordLen + Len(inv.key) <= Len(c)
      /\ AddressStart(inv) + WordLen + Len(inv.address) <= Len(c) /\ WordLen \in Nat /\ WordLen > 0
      /\ KeyStart(inv) \in Nat /\ Len(c) \in Nat
  <2>1. WordLen \in Nat /\ WordLen > 0
    BY Constants
  <2>2. /\ Len(inv.from) \in Nat /\ Len(inv.key) \in Nat /\ Len(inv.address) \in Nat
        /\ WordLen + Len(inv.from) <= KeyStart(inv)
        /\ KeyStart(inv) + WordLen + Len(inv.key) <= AddressStart(inv)
        /\ AddressStart(inv) + WordLen + Len(inv.address) <= NumbersStart(inv)
        /\ KeyStart(inv) \in Nat /\ AddressStart(inv) \in Nat /\ NumbersStart(inv) \in Nat
        /\ Len(c) \in Nat /\ NumbersStart(inv) <= Len(c)
        /\ KeyStart(inv) <= AddressStart(inv) /\ AddressStart(inv) <= NumbersStart(inv)
    BY OpaqueLengths
  <2> HIDE DEF c
  <2> DEFINE f == Len(inv.from)
             k == Len(inv.key)
             a == Len(inv.address)
             x == KeyStart(inv)
             y == AddressStart(inv)
             w == NumbersStart(inv)
             e == Len(c)
  <2>3. /\ f \in Nat /\ k \in Nat /\ a \in Nat /\ x \in Nat /\ y \in Nat /\ w \in Nat /\ e \in Nat
        /\ WordLen + f <= x /\ x + WordLen + k <= y /\ y + WordLen + a <= w /\ w <= e
        /\ x <= y /\ y <= w
    BY <2>2
  <2> HIDE DEF f, k, a, x, y, w, e
  <2>4. WordLen + f <= e /\ x + WordLen + k <= e /\ y + WordLen + a <= e
    BY <2>1, <2>3
  <2> QED BY <2>1, <2>3, <2>4 DEF f, k, a, x, y, w, e
<1>4. /\ from = [ok |-> TRUE, val |-> inv.from, offset |-> 0 + Len(XDRBytes(inv.from))]
      /\ ReadOpaque(c, KeyStart(inv)) =
           [ok |-> TRUE, val |-> inv.key, offset |-> KeyStart(inv) + Len(XDRBytes(inv.key))]
      /\ ReadOpaque(c, AddressStart(inv)) =
           [ok |-> TRUE, val |-> inv.address, offset |-> AddressStart(inv) + Len(XDRBytes(inv.address))]
  <2>1. Begins(c, inv) /\ Len(c) <= Len(InvitationBody(inv))
    BY <1>3 DEF Begins
  <2> DEFINE Reads(q, b) == ReadOpaque(c, q) = [ok |-> TRUE, val |-> b, offset |-> q + Len(XDRBytes(b))]
  <2>2. /\ WordLen + Len(inv.from) <= Len(c) => Reads(0, inv.from)
        /\ KeyStart(inv) + WordLen + Len(inv.key) <= Len(c) => Reads(KeyStart(inv), inv.key)
        /\ AddressStart(inv) + WordLen + Len(inv.address) <= Len(c) =>
             Reads(AddressStart(inv), inv.address)
    <3>1. c \in Seq(Byte)
      BY <1>2
    <3> QED BY <2>1, <3>1, OpaqueParts
  <2> QED BY <1>3, <2>2
<1>5. from.ok /\ from.val = inv.from /\ from.offset = KeyStart(inv)
  <2>1. 0 + Len(XDRBytes(inv.from)) = KeyStart(inv)
    BY <1>3 DEF KeyStart
  <2> HIDE DEF from
  <2> QED BY <1>4, <2>1
<1>6. invKey.ok /\ invKey.val = inv.key /\ invKey.offset = AddressStart(inv)
  <2>1. invKey = ReadOpaque(c, KeyStart(inv))
    BY <1>5
  <2>2. AddressStart(inv) = KeyStart(inv) + Len(XDRBytes(inv.key))
    BY DEF AddressStart
  <2> HIDE DEF invKey
  <2> QED BY <1>4, <2>1, <2>2
<1>7. address.ok /\ address.val = inv.address /\ address.offset = o
  <2>1. address = ReadOpaque(c, AddressStart(inv))
    BY <1>6
  <2>2. o = AddressStart(inv) + Len(XDRBytes(inv.address))
    BY DEF NumbersStart
  <2> HIDE DEF address
  <2> QED BY <1>4, <2>1, <2>2
<1> HIDE DEF from, invKey, address
<1>8. inv.fields = 0 \/ inv.fields = 1 \/ inv.fields = 2
  BY <1>2
<1>9. /\ has(0) <=> inv.fields > 0
      /\ has(1) <=> inv.fields > 1
  <2>1. CASE inv.fields = 0
    BY <1>2, <1>3, <1>7, <2>1
  <2>2. CASE inv.fields = 1
    BY <1>2, <1>3, <1>7, <2>2
  <2>3. CASE inv.fields = 2
    BY <1>2, <1>3, <1>7, <2>3
  <2> QED BY <1>8, <2>1, <2>2, <2>3
<1>10. ASSUME inv.fields > 0 PROVE number(0) = inv.port
  <2>1. o + WordLen <= Len(c)
    <3>1. inv.fields \in Nat /\ inv.fields >= 1
      BY <1>8, <1>10
    <3>2. Len(c) = o + inv.fields * WordLen /\ o \in Nat /\ WordLen \in Nat
      BY <1>2, <1>3
    <3> HIDE DEF o, c
    <3>3. inv.fields * WordLen >= WordLen
      <4>1. inv.fields = 1 \/ inv.fields = 2
        BY <1>8, <1>10
      <4> QED BY <3>2, <4>1
    <3> QED BY <3>1, <3>2, <3>3
  <2>2. \A i \in 1..WordLen : c[o + i] = PutUint(inv.port)[i]
    <3>1. Len(PutUint(inv.port)) = WordLen
      BY <1>2, PutUintType
    <3> QED BY <1>2, <1>10, <3>1 DEF Stands
  <2> DEFINE n == inv.port
  <2>3. /\ n \in Nat /\ Fits(n) /\ o \in Nat /\ o + WordLen <= Len(c) /\ c \in Seq(Byte)
        /\ \A i \in 1..WordLen : c[o + i] = PutUint(n)[i]
    BY <1>2, <2>1, <2>2
  <2> HIDE DEF n, o, c
  <2>4. Uint(SubSeq(c, o + 1, o + WordLen)) = n
    BY <2>3, WordAt
  <2>5. address.offset + 0 * WordLen + 1 = o + 1 /\ address.offset + (0 + 1) * WordLen = o + WordLen
    <3>1. address.offset = o /\ o \in Nat /\ WordLen \in Nat
      BY <1>2, <1>3, <1>7
    <3> QED BY <3>1
  <2> QED BY <2>4, <2>5 DEF n
<1>11. ASSUME inv.fields > 1 PROVE number(1) = Flag(inv)
  <2>1. (o + WordLen) + WordLen <= Len(c) /\ o + WordLen \in Nat
    <3>1. inv.fields = 2
      BY <1>8, <1>11
    <3>2. Len(c) = o + 2 * WordLen /\ o \in Nat /\ WordLen \in Nat
      BY <1>2, <1>3, <3>1
    <3> HIDE DEF o, c
    <3> QED BY <3>2
  <2>2. \A i \in 1..WordLen : c[(o + WordLen) + i] = PutUint(Flag(inv))[i]
    <3>1. Len(PutUint(Flag(inv))) = WordLen
      BY <1>2, PutUintType
    <3> QED BY <1>2, <1>11, <3>1 DEF Stands
  <2> DEFINE n == Flag(inv)
             q == o + WordLen
  <2>3. /\ n \in Nat /\ Fits(n) /\ q \in Nat /\ q + WordLen <= Len(c) /\ c \in Seq(Byte)
        /\ \A i \in 1..WordLen : c[q + i] = PutUint(n)[i]
    BY <1>2, <2>1, <2>2
  <2> HIDE DEF n, q, c
  <2>4. Uint(SubSeq(c, q + 1, q + WordLen)) = n
    BY <2>3, WordAt
  <2>5. /\ address.offset + 1 * WordLen + 1 = (o + WordLen) + 1
        /\ address.offset + (1 + 1) * WordLen = (o + WordLen) + WordLen
    <3>1. address.offset = o /\ o \in Nat /\ WordLen \in Nat
      BY <1>2, <1>3, <1>7
    <3> QED BY <3>1
  <2> QED BY <2>4, <2>5 DEF n, q
<1> DEFINE port == IF has(0) THEN number(0) % 65536 ELSE 0
           socket == has(1) /\ number(1) = 1
<1>12. port = IF inv.fields > 0 THEN inv.port ELSE 0
  <2>1. inv.port % 65536 = inv.port
    BY <1>2
  <2> HIDE DEF has, number
  <2> QED BY <1>9, <1>10, <2>1
<1>13. socket = (inv.fields > 1 /\ inv.serverSocket)
  <2>1. Flag(inv) = 1 <=> inv.serverSocket
    BY <1>2 DEF Flag
  <2> HIDE DEF has, number
  <2>2. socket <=> (inv.fields > 1 /\ inv.serverSocket)
    BY <1>9, <1>11, <2>1
  <2>3. socket \in BOOLEAN /\ (inv.fields > 1 /\ inv.serverSocket) \in BOOLEAN
    OBVIOUS
  <2> QED BY <2>2, <2>3
<1>14. DecodeInvitation(c) = [from |-> inv.from, key |-> inv.key, address |-> inv.address,
                              port |-> port, serverSocket |-> socket]
  <2> HIDE DEF has, number, c
  <2> QED BY <1>1, <1>5, <1>6, <1>7
<1> HIDE DEF port, socket
<1>15. DecodeInvitation(c) =
         [from |-> inv.from, key |-> inv.key, address |-> inv.address,
          port |-> IF inv.fields > 0 THEN inv.port ELSE 0,
          serverSocket |-> inv.fields > 1 /\ inv.serverSocket]
  BY <1>12, <1>13, <1>14
<1> QED BY <1>15 DEF Told

\* One that is cut short is refused.
LEMMA CutInvitation ==
  ASSUME NEW inv, GoodInvitation(inv), NEW body, CutShort(body, inv)
  PROVE  DecodeInvitation(body) = Malformed
<1> DEFINE c == InvitationBody(inv)
           last == AddressStart(inv) + WordLen + Len(inv.address)
<1>1. PICK n \in 0..(last - 1) : body = SubSeq(c, 1, n)
  <2>1. Len(XDRBytes(inv.from) \o XDRBytes(inv.key)) = AddressStart(inv)
    BY InvitationFacts
  <2>2. Len(inv.address) \in Nat /\ AddressStart(inv) \in Nat /\ WordLen \in Nat
    BY OpaqueLengths, Constants
  <2> DEFINE end == Len(XDRBytes(inv.from) \o XDRBytes(inv.key)) + WordLen + Len(inv.address) - 1
  <2>3. end = last - 1
    BY <2>1, <2>2
  <2>4. \E n \in 0..end : body = SubSeq(InvitationBody(inv), 1, n)
    BY DEF CutShort
  <2> HIDE DEF end, last
  <2> QED BY <2>3, <2>4
<1>2. /\ c \in Seq(Byte) /\ Len(c) \in Nat /\ last \in Nat /\ last <= Len(c) /\ WordLen \in Nat
      /\ KeyStart(inv) \in Nat /\ AddressStart(inv) \in Nat
  <2>1. c \in Seq(Byte) /\ WordLen \in Nat
    BY InvitationFacts, Constants
  <2>2. /\ Len(inv.address) \in Nat /\ last <= NumbersStart(inv) /\ NumbersStart(inv) \in Nat
        /\ KeyStart(inv) \in Nat /\ AddressStart(inv) \in Nat
        /\ Len(c) \in Nat /\ NumbersStart(inv) <= Len(c)
    BY OpaqueLengths
  <2> HIDE DEF c
  <2> QED BY <2>1, <2>2
<1> HIDE DEF last, c
<1>3. n \in Nat /\ n < last /\ n \in 0..Len(c)
  BY <1>1, <1>2
<1>4. body \in Seq(Byte) /\ Len(body) = n /\ \A i \in 1..n : body[i] = c[i]
  <2>1. First(c, n) \in Seq(Byte) /\ Len(First(c, n)) = n /\ \A i \in 1..n : First(c, n)[i] = c[i]
    BY <1>2, <1>3, FirstFacts
  <2> QED BY <1>1, <2>1 DEF First
<1>5. Begins(body, inv) /\ Len(body) <= Len(InvitationBody(inv)) /\ ~(last <= Len(body))
  BY <1>2, <1>3, <1>4 DEF Begins, c
<1> DEFINE from == ReadOpaque(body, 0)
           invKey == ReadOpaque(body, from.offset)
           address == ReadOpaque(body, invKey.offset)
<1>6. /\ from = [ok |-> TRUE, val |-> inv.from, offset |-> 0 + Len(XDRBytes(inv.from))]
           \/ from.ok = FALSE
      /\ ReadOpaque(body, KeyStart(inv)) =
             [ok |-> TRUE, val |-> inv.key, offset |-> KeyStart(inv) + Len(XDRBytes(inv.key))]
           \/ ReadOpaque(body, KeyStart(inv)).ok = FALSE
      /\ ReadOpaque(body, AddressStart(inv)).ok = FALSE
  BY <1>4, <1>5, OpaqueParts DEF last
<1>7. from.ok => from.offset = KeyStart(inv)
  <2>1. 0 + Len(XDRBytes(inv.from)) = KeyStart(inv)
    BY <1>2 DEF KeyStart
  <2> HIDE DEF from
  <2> QED BY <1>6, <2>1
<1>8. from.ok /\ invKey.ok => invKey.offset = AddressStart(inv)
  <2>1. AddressStart(inv) = KeyStart(inv) + Len(XDRBytes(inv.key))
    BY DEF AddressStart
  <2>2. from.ok => invKey = ReadOpaque(body, KeyStart(inv))
    BY <1>7
  <2> HIDE DEF invKey, from
  <2> QED BY <1>6, <2>1, <2>2
<1>9. ~(from.ok /\ invKey.ok /\ address.ok)
  <2>1. from.ok /\ invKey.ok => address = ReadOpaque(body, AddressStart(inv))
    BY <1>8
  <2> HIDE DEF from, invKey, address
  <2> QED BY <1>6, <2>1
<1> QED BY <1>9 DEF DecodeInvitation

\* Whatever a relay sends for an invitation is understood as it meant it, or
\* refused when the data of it is cut short, in whatever pieces it came
\* (wire.go:168-219).
THEOREM InvitationsAreUnderstood == Spec => []InvitationUnderstood
<1>1. ASSUME IInv, NEW g \in Goroutines, NEW d \in Range(decoded[g])
      PROVE  LET meant == {inv \in Invitations : InvitationBody(inv) = d.body}
             IN \/ d.inv = Malformed /\ meant = {}
                \/ \E inv \in meant : d.inv = Told(inv)
  <2>1. /\ d.inv = DecodeInvitation(d.body)
        /\ \E s \in Sendings : \E j \in 1..Len(s) : s[j].type = "sessionInvitation" /\ s[j].body = d.body
    <3>1. Understood(g) /\ decoded[g] \in Seq([body : Seq(Byte), inv : {DecodeInvitation(b) : b \in Seq(Byte)}])
      BY <1>1 DEF IInv, Own, Types
    <3>2. PICK i \in 1..Len(decoded[g]) : d = decoded[g][i]
      BY <1>1, <3>1 DEF Range
    <3> QED BY <3>1, <3>2 DEF Understood
  <2>2. PICK inv \in Invitations : d.body = InvitationBody(inv) \/ CutShort(d.body, inv)
    <3>1. PICK s \in Sendings : \E j \in 1..Len(s) : s[j].type = "sessionInvitation" /\ s[j].body = d.body
      BY <2>1
    <3>2. PICK j \in 1..Len(s) : s[j].type = "sessionInvitation" /\ s[j].body = d.body
      BY <3>1
    <3>3. GoodMessage(s[j])
      BY SendingFacts
    <3> QED BY <3>2, <3>3 DEF GoodMessage
  <2>3. \A i \in Invitations : GoodInvitation(i)
    BY MessageAssumption
  <2>4. CASE \E i \in Invitations : d.body = InvitationBody(i)
    <3>1. PICK i \in Invitations : d.body = InvitationBody(i)
      BY <2>4
    <3>2. d.inv = Told(i)
      BY <2>1, <2>3, <3>1, WholeInvitation
    <3> QED BY <3>1, <3>2
  <2>5. CASE ~\E i \in Invitations : d.body = InvitationBody(i)
    <3>1. d.inv = Malformed
      BY <2>1, <2>2, <2>3, <2>5, CutInvitation
    <3> QED BY <2>5, <3>1
  <2> QED BY <2>4, <2>5
<1>2. IInv => InvitationUnderstood
  BY <1>1 DEF InvitationUnderstood, Told
<1> QED BY <1>2, Inductive, PTL
=============================================================================
