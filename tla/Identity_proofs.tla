--------------------------- MODULE Identity_proofs ---------------------------
(***************************************************************************)
(* The ID that a server announces is the one a client reads, for a key     *)
(* space, an alphabet and IDs of any size: what is encoded is decoded to   *)
(* itself, the forms an ID and its hint can have are told apart by their   *)
(* lengths and letters, and the check digits notice one wrong letter and   *)
(* two that changed places: proofs for DeviceID and DeviceIDEntry.  And    *)
(* that all starts with an identity file run with one identity, for any    *)
(* number of processes, starts and seeds: proofs for IdentityStore.        *)
(***************************************************************************)
EXTENDS IdentityStore, DeviceIDEntry, FiniteSetTheorems, SequenceTheorems, WellFoundedInduction, TLAPS

\* The order of the numbers, as a relation.
Smaller == {p \in Nat \X Nat : p[1] < p[2]}

\* The order of the numbers has no endless descent.
LEMMA SmallerWellFounded == IsWellFoundedOn(Smaller, Nat)
<1>1. OpToRel(<, Nat) = Smaller
  BY DEF OpToRel, Smaller
<1>2. QED BY <1>1, NatLessThanWellFounded

\* A set of numbers that has 0 and with each number the next has all.
LEMMA CountingReaches ==
  ASSUME NEW S, 0 \in S, \A n \in Nat : n \in S => n + 1 \in S
  PROVE  \A n \in Nat : n \in S
<1>1. SUFFICES ASSUME Nat \ S # {} PROVE FALSE
  OBVIOUS
<1>2. PICK m \in Nat \ S : \A y \in Nat \ S : <<y, m>> \notin Smaller
  BY <1>1, SmallerWellFounded, WFMin
<1>3. m \in Nat /\ m # 0 /\ m - 1 \in Nat /\ m - 1 < m
  BY <1>2
<1>4. <<m - 1, m>> \in Smaller
  BY <1>3 DEF Smaller
<1>5. m - 1 \in S
  BY <1>2, <1>3, <1>4
<1>6. (m - 1) + 1 = m
  BY <1>3
<1>7. QED BY <1>2, <1>3, <1>5, <1>6

\* The same up to a bound.
LEMMA CountingTo ==
  ASSUME NEW m \in Nat, NEW S, 0 \in S, \A n \in Nat : n \in S /\ n < m => n + 1 \in S
  PROVE  \A n \in 0..m : n \in S
<1> DEFINE T == {n \in Nat : n <= m => n \in S}
<1>1. 0 \in T
  OBVIOUS
<1>2. \A n \in Nat : n \in T => n + 1 \in T
  OBVIOUS
<1>3. \A n \in Nat : n \in T
  <2> HIDE DEF T
  <2> QED BY <1>1, <1>2, CountingReaches
<1> QED BY <1>3

\* f begins with a and goes on, m times, by what h says of each step.
IsRun(f, a, m, h) == f[0] = a /\ \A n \in 1..m : f[n] = h[n][f[n - 1]]
Computable(V, a, m, h) == \E f \in [0..m -> V] : IsRun(f, a, m, h)

\* A chain of m steps, each a function of the one before, exists; it is what a
\* recursive definition over 0..m chooses.
LEMMA StepsExist ==
  ASSUME NEW V, NEW a \in V, NEW m \in Nat, NEW h \in [1..m -> [V -> V]]
  PROVE  Computable(V, a, m, h)
<1> DEFINE S == {k \in Nat : k <= m => Computable(V, a, k, h)}
<1>1. 0 \in S
  <2> DEFINE f == [i \in 0..0 |-> a]
  <2>1. f \in [0..0 -> V] /\ IsRun(f, a, 0, h)
    BY DEF IsRun
  <2> QED BY <2>1 DEF Computable
<1>2. ASSUME NEW k \in Nat, k \in S, k < m PROVE k + 1 \in S
  <2>1. PICK f \in [0..k -> V] : IsRun(f, a, k, h)
    BY <1>2 DEF Computable
  <2> DEFINE g == [i \in 0..(k + 1) |-> IF i = k + 1 THEN h[k + 1][f[k]] ELSE f[i]]
  <2>2. f[k] \in V /\ h[k + 1] \in [V -> V]
    BY <1>2
  <2>3. h[k + 1][f[k]] \in V
    BY <2>2
  <2>4. g \in [0..(k + 1) -> V] /\ g[0] = a
    BY <2>1, <2>3 DEF IsRun
  <2>5. ASSUME NEW n \in 1..(k + 1) PROVE g[n] = h[n][g[n - 1]]
    <3>1. CASE n = k + 1
      <4>1. n - 1 = k /\ g[n - 1] = f[k]
        BY <3>1
      <4> QED BY <3>1, <4>1
    <3>2. CASE n # k + 1
      <4>1. n \in 1..k /\ g[n] = f[n] /\ g[n - 1] = f[n - 1]
        BY <3>2
      <4> QED BY <2>1, <4>1 DEF IsRun
    <3> QED BY <3>1, <3>2
  <2>6. IsRun(g, a, k + 1, h)
    <3> HIDE DEF g
    <3> QED BY <2>4, <2>5 DEF IsRun
  <2>7. Computable(V, a, k + 1, h)
    <3> HIDE DEF g
    <3> QED BY <2>4, <2>6 DEF Computable
  <2> QED BY <2>7
<1> HIDE DEF S
<1>3. \A k \in 0..m : k \in S
  BY <1>1, <1>2, CountingTo
<1> QED BY <1>3 DEF S

-----------------------------------------------------------------------------
(* Numbers as digits. *)

\* Quotient and remainder.
LEMMA DivMod ==
  ASSUME NEW n \in Nat, NEW b \in Nat, b > 0
  PROVE  n \div b \in Nat /\ n % b \in Nat /\ n % b < b /\ n = b * (n \div b) + (n % b)
  BY SMT

\* The quotient and the remainder of a division, when both are seen.
LEMMA DivModUnique ==
  ASSUME NEW q \in Nat, NEW r \in Nat, NEW b \in Nat, b > 0, r < b
  PROVE  (b * q + r) \div b = q /\ (b * q + r) % b = r
  BY SMT

\* A number below the base is its own last digit.
LEMMA SmallNumber ==
  ASSUME NEW r \in Nat, NEW b \in Nat, r < b
  PROVE  r \div b = 0 /\ r % b = r
  BY SMT

\* A larger factor gives a larger product.
LEMMA ProductGrows ==
  ASSUME NEW x \in Nat, NEW y \in Nat, NEW b \in Nat, x <= y
  PROVE  b * x <= b * y
  BY SMT

\* A larger number has the larger quotient.
LEMMA QuotientGrows ==
  ASSUME NEW m \in Nat, NEW n \in Nat, NEW b \in Nat, b > 0, m <= n
  PROVE  m \div b <= n \div b
<1> DEFINE q == m \div b
           p == n \div b
           r == m % b
           t == n % b
<1>1. q \in Nat /\ r \in Nat /\ r < b /\ m = b * q + r
  BY DivMod
<1>2. p \in Nat /\ t \in Nat /\ t < b /\ n = b * p + t
  BY DivMod
<1> HIDE DEF q, p, r, t
<1>3. ASSUME q > p PROVE FALSE
  <2>1. b * (p + 1) <= b * q
    BY <1>1, <1>2, <1>3, ProductGrows
  <2>2. b * (p + 1) = b * p + b
    BY <1>1, <1>2
  <2> QED BY <2>1, <2>2, <1>1, <1>2
<1> QED BY <1>1, <1>2, <1>3 DEF q, p

\* What the functions that take a number apart and put it together again do.
Shifting(r, n, b, len) ==
  r \in [0..len -> Nat] /\ r[0] = n /\ \A k \in 1..len : r[k] = r[k - 1] \div b
Valuing(v, s, b) ==
  v \in [0..Len(s) -> Nat] /\ v[0] = 0 /\ \A i \in 1..Len(s) : v[i] = b * v[i - 1] + s[i]

\* Shifted does what its definition says, in every step.
LEMMA ShiftedSteps ==
  ASSUME NEW n \in Nat, NEW b \in Nat, b > 0, NEW len \in Nat
  PROVE  Shifting(Shifted(n, b, len), n, b, len)
<1> DEFINE h == [k \in 1..len |-> [x \in Nat |-> x \div b]]
<1>1. h \in [1..len -> [Nat -> Nat]]
  BY DivMod
<1>2. \A k \in 1..len : \A x \in Nat : h[k][x] = x \div b
  OBVIOUS
<1> HIDE DEF h
<1>3. PICK f \in [0..len -> Nat] : IsRun(f, n, len, h)
  <2>1. Computable(Nat, n, len, h)
    BY <1>1, StepsExist
  <2> QED BY <2>1 DEF Computable
<1>4. f[0] = n /\ \A k \in 1..len : f[k] = f[k - 1] \div b
  <2>1. ASSUME NEW k \in 1..len PROVE f[k] = f[k - 1] \div b
    <3>1. f[k - 1] \in Nat /\ f[k] = h[k][f[k - 1]]
      BY <1>3 DEF IsRun
    <3>2. h[k][f[k - 1]] = f[k - 1] \div b
      BY <1>2, <3>1
    <3> QED BY <3>1, <3>2
  <2> QED BY <1>3, <2>1 DEF IsRun
<1>5. f = [k \in 0..len |-> IF k = 0 THEN n ELSE f[k - 1] \div b]
  <2>1. f = [k \in 0..len |-> f[k]]
    OBVIOUS
  <2>2. \A k \in 0..len : f[k] = IF k = 0 THEN n ELSE f[k - 1] \div b
    BY <1>4
  <2> QED BY <2>1, <2>2
<1>6. Shifted(n, b, len) = [k \in 0..len |-> IF k = 0 THEN n ELSE Shifted(n, b, len)[k - 1] \div b]
  BY <1>5, ZenonT(60) DEF Shifted
<1> DEFINE r == Shifted(n, b, len)
<1> HIDE DEF r
<1>7. r = [k \in 0..len |-> IF k = 0 THEN n ELSE r[k - 1] \div b]
  BY <1>6 DEF r
<1>8. r[0] = n /\ \A k \in 1..len : r[k] = r[k - 1] \div b
  BY <1>7
<1> DEFINE S == {k \in 0..len : r[k] \in Nat}
<1>9. \A k \in 0..len : k \in S
  <2>1. 0 \in S
    BY <1>8
  <2>2. ASSUME NEW k \in Nat, k \in S, k < len PROVE k + 1 \in S
    <3>1. r[k] \in Nat /\ k + 1 \in 1..len /\ (k + 1) - 1 = k
      BY <2>2
    <3>2. r[k + 1] = r[k] \div b
      BY <1>8, <3>1
    <3>3. r[k] \div b \in Nat
      BY <3>1, DivMod
    <3> QED BY <3>1, <3>2, <3>3
  <2> HIDE DEF S
  <2> QED BY <2>1, <2>2, CountingTo
<1>10. r \in [0..len -> Nat]
  BY <1>7, <1>9
<1> QED BY <1>8, <1>10 DEF r, Shifting

\* How often a number is shifted does not depend on how often it might be.
LEMMA ShiftedAgree ==
  ASSUME NEW n \in Nat, NEW b \in Nat, b > 0, NEW len \in Nat, NEW m \in 0..len
  PROVE  Shifted(n, b, len)[m] = Shifted(n, b, m)[m]
<1> DEFINE r == Shifted(n, b, len)
           t == Shifted(n, b, m)
<1>1. r \in [0..len -> Nat] /\ r[0] = n /\ \A k \in 1..len : r[k] = r[k - 1] \div b
  BY ShiftedSteps DEF Shifting
<1>2. m \in Nat
  OBVIOUS
<1>3. t \in [0..m -> Nat] /\ t[0] = n /\ \A k \in 1..m : t[k] = t[k - 1] \div b
  BY <1>2, ShiftedSteps DEF Shifting
<1> HIDE DEF r, t
<1> DEFINE S == {k \in 0..m : r[k] = t[k]}
<1>4. 0 \in S
  BY <1>1, <1>2, <1>3
<1>5. ASSUME NEW k \in Nat, k \in S, k < m PROVE k + 1 \in S
  <2>1. k + 1 \in 1..len /\ k + 1 \in 1..m /\ (k + 1) - 1 = k /\ r[k] = t[k]
    BY <1>5
  <2> QED BY <1>1, <1>3, <2>1
<1> HIDE DEF S
<1>6. \A k \in 0..m : k \in S
  BY <1>2, <1>4, <1>5, CountingTo
<1>7. r[m] = t[m]
  BY <1>2, <1>6 DEF S
<1> QED BY <1>7 DEF r, t

\* A smaller number needs no more digits, and 0 needs none.
LEMMA SmallerFits ==
  ASSUME NEW m \in Nat, NEW n \in Nat, m <= n, NEW b \in Nat, b > 0, NEW len \in Nat, Fits(n, b, len)
  PROVE  Fits(m, b, len)
<1> DEFINE r == Shifted(m, b, len)
           t == Shifted(n, b, len)
<1>1. Shifting(r, m, b, len) /\ Shifting(t, n, b, len)
  BY ShiftedSteps
<1>2. t[len] = 0
  BY DEF Fits
<1> HIDE DEF r, t
<1>3. /\ r \in [0..len -> Nat] /\ r[0] = m /\ \A k \in 1..len : r[k] = r[k - 1] \div b
      /\ t \in [0..len -> Nat] /\ t[0] = n /\ \A k \in 1..len : t[k] = t[k - 1] \div b
  BY <1>1 DEF Shifting
<1> DEFINE S == {k \in 0..len : r[k] <= t[k]}
<1>4. 0 \in S
  BY <1>3
<1>5. ASSUME NEW k \in Nat, k \in S, k < len PROVE k + 1 \in S
  <2>1. k \in 0..len /\ k + 1 \in 1..len /\ (k + 1) - 1 = k /\ r[k] <= t[k]
    BY <1>5
  <2>2. r[k] \in Nat /\ t[k] \in Nat /\ r[k + 1] = r[k] \div b /\ t[k + 1] = t[k] \div b
    BY <1>3, <2>1
  <2>3. r[k] \div b <= t[k] \div b
    BY <2>1, <2>2, QuotientGrows
  <2> QED BY <2>1, <2>2, <2>3
<1> HIDE DEF S
<1>6. \A k \in 0..len : k \in S
  BY <1>4, <1>5, CountingTo
<1>7. r[len] <= t[len] /\ r[len] \in Nat
  BY <1>3, <1>6 DEF S
<1>8. r[len] = 0
  BY <1>2, <1>7
<1> QED BY <1>8 DEF Fits, r

\* 0 fits in any number of digits.
LEMMA ZeroFits ==
  ASSUME NEW b \in Nat, b > 0, NEW len \in Nat
  PROVE  Fits(0, b, len)
<1> DEFINE r == Shifted(0, b, len)
<1>1. r[0] = 0 /\ \A k \in 1..len : r[k] = r[k - 1] \div b
  BY ShiftedSteps DEF Shifting
<1> HIDE DEF r
<1> DEFINE S == {k \in 0..len : r[k] = 0}
<1>2. 0 \in S
  BY <1>1
<1>3. ASSUME NEW k \in Nat, k \in S, k < len PROVE k + 1 \in S
  <2>1. k + 1 \in 1..len /\ (k + 1) - 1 = k /\ r[k] = 0
    BY <1>3
  <2>2. r[k + 1] = 0 \div b
    BY <1>1, <2>1
  <2>3. 0 \div b = 0
    BY DivMod, SMT
  <2> QED BY <2>1, <2>2, <2>3
<1> HIDE DEF S
<1>4. \A k \in 0..len : k \in S
  BY <1>2, <1>3, CountingTo
<1>5. r[len] = 0
  BY <1>4 DEF S
<1> QED BY <1>5 DEF Fits, r

\* n in exactly len digits.
Fixed(n, b, len) == [i \in 1..len |-> Shifted(n, b, len)[len - i] % b]

\* A number in len digits is a string of len digits.
LEMMA FixedType ==
  ASSUME NEW n \in Nat, NEW b \in Nat, b > 0, NEW len \in Nat
  PROVE  Fixed(n, b, len) \in Seq(0..b - 1) /\ Len(Fixed(n, b, len)) = len
<1>1. \A i \in 1..len : Shifted(n, b, len)[len - i] % b \in 0..b - 1
  <2> SUFFICES ASSUME NEW i \in 1..len PROVE Shifted(n, b, len)[len - i] % b \in 0..b - 1
    OBVIOUS
  <2>1. Shifted(n, b, len)[len - i] \in Nat
    BY ShiftedSteps DEF Shifting
  <2> QED BY <2>1, DivMod
<1>2. Fixed(n, b, len) \in [1..len -> 0..b - 1]
  BY <1>1 DEF Fixed
<1> QED BY <1>2

\* A number that fits has the digits asked for, one that does not has more.
LEMMA DigitsThatFit ==
  ASSUME NEW n \in Nat, NEW b \in Nat, NEW len \in Nat, Fits(n, b, len)
  PROVE  Digits(n, b, len) = Fixed(n, b, len)
<1> DEFINE P(k) == Fits(n, b, k) /\ \A j \in len..k - 1 : ~Fits(n, b, j)
           l == CHOOSE k \in len..len + n : P(k)
<1>1. len \in len..len + n /\ P(len)
  OBVIOUS
<1>2. \A k \in len..len + n : P(k) => k = len
  <2> SUFFICES ASSUME NEW k \in len..len + n, P(k), k # len PROVE FALSE
    OBVIOUS
  <2>1. len \in len..k - 1
    OBVIOUS
  <2> QED BY <2>1
<1>3. l = len
  <2> HIDE DEF P
  <2> QED BY <1>1, <1>2
<1> QED BY <1>3 DEF Digits, Fixed

\* A number that takes one digit more than asked for is written with it
\* (identity.go:161-169).
LEMMA DigitsThatOverflow ==
  ASSUME NEW n \in Nat, NEW b \in Nat, b > 0, NEW len \in Nat, ~Fits(n, b, len), Fits(n, b, len + 1)
  PROVE  Digits(n, b, len) = Fixed(n, b, len + 1)
<1> DEFINE P(k) == Fits(n, b, k) /\ \A j \in len..k - 1 : ~Fits(n, b, j)
           l == CHOOSE k \in len..len + n : P(k)
<1>1. n > 0
  <2>1. n # 0
    BY ZeroFits
  <2> QED BY <2>1
<1>2. len + 1 \in len..len + n /\ P(len + 1)
  <2>1. \A j \in len..(len + 1) - 1 : j = len
    OBVIOUS
  <2> QED BY <1>1, <2>1
<1>3. \A k \in len..len + n : P(k) => k = len + 1
  <2> SUFFICES ASSUME NEW k \in len..len + n, P(k), k # len + 1 PROVE FALSE
    OBVIOUS
  <2>1. k # len
    OBVIOUS
  <2>2. len + 1 \in len..k - 1
    BY <2>1
  <2> QED BY <2>2
<1>4. l = len + 1
  <2> HIDE DEF P
  <2> QED BY <1>2, <1>3
<1>5. Digits(n, b, len) = [i \in 1..l |-> Shifted(n, b, l)[l - i] % b]
  BY DEF Digits
<1> HIDE DEF l
<1> QED BY <1>4, <1>5 DEF Fixed

\* Values does what its definition says, in every step.
LEMMA ValuesSteps ==
  ASSUME NEW s \in Seq(Nat), NEW b \in Nat
  PROVE  Valuing(Values(s, b), s, b)
<1> DEFINE m == Len(s)
           h == [i \in 1..m |-> [x \in Nat |-> b * x + s[i]]]
<1>1. m \in Nat /\ \A i \in 1..m : s[i] \in Nat
  OBVIOUS
<1> HIDE DEF m
<1>2. h \in [1..m -> [Nat -> Nat]]
  <2>1. \A i \in 1..m : \A x \in Nat : b * x + s[i] \in Nat
    BY <1>1
  <2> QED BY <2>1
<1>3. \A i \in 1..m : \A x \in Nat : h[i][x] = b * x + s[i]
  OBVIOUS
<1> HIDE DEF h
<1>4. PICK f \in [0..m -> Nat] : IsRun(f, 0, m, h)
  <2>1. Computable(Nat, 0, m, h)
    BY <1>1, <1>2, StepsExist
  <2> QED BY <2>1 DEF Computable
<1>5. f[0] = 0 /\ \A i \in 1..m : f[i] = b * f[i - 1] + s[i]
  <2>1. ASSUME NEW i \in 1..m PROVE f[i] = b * f[i - 1] + s[i]
    <3>1. f[i - 1] \in Nat /\ f[i] = h[i][f[i - 1]]
      BY <1>1, <1>4 DEF IsRun
    <3>2. h[i][f[i - 1]] = b * f[i - 1] + s[i]
      BY <1>3, <3>1
    <3> QED BY <3>1, <3>2
  <2> QED BY <1>4, <2>1 DEF IsRun
<1>6. f = [i \in 0..m |-> IF i = 0 THEN 0 ELSE b * f[i - 1] + s[i]]
  <2>1. f = [i \in 0..m |-> f[i]]
    OBVIOUS
  <2>2. \A i \in 0..m : f[i] = IF i = 0 THEN 0 ELSE b * f[i - 1] + s[i]
    BY <1>1, <1>5
  <2> QED BY <2>1, <2>2
<1>7. Values(s, b) = [i \in 0..m |-> IF i = 0 THEN 0 ELSE b * Values(s, b)[i - 1] + s[i]]
  BY <1>6, ZenonT(60) DEF Values, m
<1> DEFINE r == Values(s, b)
<1> HIDE DEF r
<1>8. r = [i \in 0..m |-> IF i = 0 THEN 0 ELSE b * r[i - 1] + s[i]]
  BY <1>7 DEF r
<1>9. r[0] = 0 /\ \A i \in 1..m : r[i] = b * r[i - 1] + s[i]
  BY <1>1, <1>8
<1> DEFINE S == {i \in 0..m : r[i] \in Nat}
<1>10. \A i \in 0..m : i \in S
  <2>1. 0 \in S
    BY <1>1, <1>9
  <2>2. ASSUME NEW i \in Nat, i \in S, i < m PROVE i + 1 \in S
    <3>1. r[i] \in Nat /\ i + 1 \in 1..m /\ (i + 1) - 1 = i /\ s[i + 1] \in Nat
      BY <1>1, <2>2
    <3>2. r[i + 1] = b * r[i] + s[i + 1]
      BY <1>9, <3>1
    <3>3. b * r[i] \in Nat
      BY <3>1
    <3> QED BY <3>1, <3>2, <3>3, SMTT(30)
  <2> HIDE DEF S
  <2> QED BY <1>1, <2>1, <2>2, CountingTo
<1>11. r \in [0..m -> Nat]
  BY <1>8, <1>10
<1> QED BY <1>9, <1>11 DEF r, m, Valuing

\* The value of a string is a number.
LEMMA ValueType == ASSUME NEW s \in Seq(Nat), NEW b \in Nat PROVE ValueOf(s, b) \in Nat
<1>1. Values(s, b) \in [0..Len(s) -> Nat]
  BY ValuesSteps DEF Valuing
<1> QED BY <1>1 DEF ValueOf

\* A number is read as it was written.
LEMMA FixedRead ==
  ASSUME NEW n \in Nat, NEW b \in Nat, b > 0, NEW len \in Nat, Fits(n, b, len)
  PROVE  ValueOf(Fixed(n, b, len), b) = n
<1> DEFINE r == Shifted(n, b, len)
           p == Fixed(n, b, len)
           v == Values(p, b)
<1>1. r \in [0..len -> Nat] /\ r[0] = n /\ r[len] = 0
  BY ShiftedSteps, ZenonT(40) DEF Fits, Shifting
<1>2. \A k \in 1..len : r[k] = r[k - 1] \div b
  BY ShiftedSteps DEF Shifting
<1>3. p \in Seq(Nat) /\ Len(p) = len /\ \A i \in 1..len : p[i] = r[len - i] % b
  <2>1. p \in Seq(0..b - 1) /\ Len(p) = len
    BY FixedType
  <2>2. \A i \in 1..len : p[i] = r[len - i] % b
    BY DEF Fixed
  <2>3. \A i \in 1..len : p[i] \in Nat
    <3> HIDE DEF p
    <3> QED BY <2>1
  <2> HIDE DEF p
  <2> QED BY <2>1, <2>2, <2>3
<1> HIDE DEF r, p
<1>4. v[0] = 0 /\ \A i \in 1..len : v[i] = b * v[i - 1] + p[i]
  BY <1>3, ValuesSteps DEF Valuing
<1> HIDE DEF v
<1> DEFINE S == {i \in 0..len : v[i] = r[len - i]}
<1>5. 0 \in S
  BY <1>1, <1>4
<1>6. ASSUME NEW i \in Nat, i \in S, i < len PROVE i + 1 \in S
  <2> DEFINE k == len - i
  <2>1. k \in 1..len /\ k - 1 = len - (i + 1) /\ k - 1 \in 0..len /\ v[i] = r[k]
    BY <1>6
  <2>2. v[i + 1] = b * v[i] + p[i + 1]
    <3>1. i + 1 \in 1..len /\ (i + 1) - 1 = i
      BY <1>6
    <3> QED BY <1>4, <3>1
  <2>3. p[i + 1] = r[k - 1] % b
    <3>1. i + 1 \in 1..len
      BY <1>6
    <3> QED BY <1>3, <2>1, <3>1
  <2> HIDE DEF k
  <2>4. r[k - 1] \in Nat /\ r[k] = r[k - 1] \div b
    BY <1>1, <1>2, <2>1
  <2>5. r[k - 1] = b * (r[k - 1] \div b) + (r[k - 1] % b)
    BY <2>4, DivMod
  <2>6. v[i + 1] = r[k - 1]
    BY <2>1, <2>2, <2>3, <2>4, <2>5
  <2> QED BY <1>6, <2>1, <2>6
<1> HIDE DEF S
<1>7. \A i \in 0..len : i \in S
  BY <1>5, <1>6, CountingTo
<1>8. v[len] = r[0]
  BY <1>7 DEF S
<1> QED BY <1>1, <1>3, <1>8 DEF ValueOf, v, p

-----------------------------------------------------------------------------
(* Parts of strings, one after the other. *)

\* A part of a string, and the string with another behind it.
IsPart(t, s, from, upTo) ==
  t \in Seq(Nat) /\ Len(t) = upTo - from /\ \A i \in 1..upTo - from : t[i] = s[from + i]
IsJoin(st, s, t) ==
  /\ st \in Seq(Nat) /\ Len(st) = Len(s) + Len(t)
  /\ \A i \in 1..Len(s) : st[i] = s[i]
  /\ \A i \in 1..Len(t) : st[Len(s) + i] = t[i]

\* A part of a string, character by character.
LEMMA Cut ==
  ASSUME NEW s \in Seq(Nat), NEW m \in Nat, NEW n \in Nat, m <= n, n <= Len(s)
  PROVE  IsPart(SubSeq(s, m + 1, n), s, m, n)
<1> DEFINE t == SubSeq(s, m + 1, n)
<1>1. \A i \in (m + 1)..n : s[i] \in Nat
  OBVIOUS
<1>2. /\ t \in Seq(Nat)
      /\ Len(t) = IF m + 1 <= n THEN n - (m + 1) + 1 ELSE 0
      /\ \A i \in 1..(n - (m + 1) + 1) : t[i] = s[(m + 1) + i - 1]
  <2>1. m + 1 \in Int /\ n \in Int
    OBVIOUS
  <2> QED BY <1>1, <2>1, SubSeqProperties, SMTT(30)
<1> HIDE DEF t
<1>3. \A i \in 1..n - m : t[i] = s[m + i]
  BY <1>2
<1>4. Len(t) = n - m
  <2>1. CASE m + 1 <= n
    BY <1>2, <2>1
  <2>2. CASE ~(m + 1 <= n)
    BY <1>2, <2>2
  <2> QED BY <2>1, <2>2
<1>5. IsPart(t, s, m, n)
  BY <1>2, <1>3, <1>4 DEF IsPart
<1> QED BY <1>5 DEF t

\* Two strings joined, character by character.
LEMMA Join ==
  ASSUME NEW s \in Seq(Nat), NEW t \in Seq(Nat)
  PROVE  IsJoin(s \o t, s, t)
<1>1. Len(s) \in Nat /\ Len(t) \in Nat
  OBVIOUS
<1>2. /\ s \o t \in Seq(Nat) /\ Len(s \o t) = Len(s) + Len(t)
      /\ \A i \in 1..(Len(s) + Len(t)) : (s \o t)[i] = IF i <= Len(s) THEN s[i] ELSE t[i - Len(s)]
  BY ConcatProperties
<1>3. ASSUME NEW i \in 1..Len(s) PROVE (s \o t)[i] = s[i]
  BY <1>1, <1>2
<1>4. ASSUME NEW i \in 1..Len(t) PROVE (s \o t)[Len(s) + i] = t[i]
  <2>1. Len(s) + i \in 1..(Len(s) + Len(t)) /\ ~(Len(s) + i <= Len(s)) /\ (Len(s) + i) - Len(s) = i
    BY <1>1
  <2> QED BY <1>2, <2>1
<1> QED BY <1>1, <1>2, <1>3, <1>4 DEF IsJoin

\* A string is what comes before some place, and what comes behind it.
LEMMA Halves ==
  ASSUME NEW s \in Seq(Nat), NEW t \in Seq(Nat)
  PROVE  First(s \o t, Len(s)) = s /\ After(s \o t, Len(s)) = t
<1> DEFINE st == s \o t
           a == First(st, Len(s))
           b == After(st, Len(s))
<1>1. IsJoin(st, s, t) /\ Len(s) \in Nat /\ Len(t) \in Nat
  BY Join
<1>2. a = SubSeq(st, 0 + 1, Len(s)) /\ b = SubSeq(st, Len(s) + 1, Len(st))
  BY DEF First, After
<1> HIDE DEF st, a, b
<1>3. st \in Seq(Nat) /\ Len(st) = Len(s) + Len(t)
  BY <1>1 DEF IsJoin
<1>4. IsPart(a, st, 0, Len(s))
  <2>1. 0 \in Nat /\ 0 <= Len(s) /\ Len(s) <= Len(st)
    BY <1>1, <1>3
  <2> QED BY <1>1, <1>2, <1>3, <2>1, Cut
<1>5. IsPart(b, st, Len(s), Len(st))
  <2>1. Len(st) \in Nat /\ Len(s) <= Len(st)
    BY <1>1, <1>3
  <2> QED BY <1>1, <1>2, <1>3, <2>1, Cut
<1>6. a = s
  <2>1. a \in Seq(Nat) /\ Len(a) = Len(s) /\ \A i \in 1..Len(a) : a[i] = s[i]
    BY <1>1, <1>4 DEF IsPart, IsJoin
  <2> QED BY <2>1, SeqEqual
<1>7. b = t
  <2>1. b \in Seq(Nat) /\ Len(b) = Len(t) /\ \A i \in 1..Len(b) : b[i] = t[i]
    BY <1>1, <1>3, <1>5 DEF IsPart, IsJoin
  <2> QED BY <2>1, SeqEqual
<1> QED BY <1>6, <1>7 DEF a, b, st

\* FlattenSeq takes the parts one by one.
Flattening(r, n, parts) ==
  /\ r \in [1..n -> Seq(Nat)] /\ r[1] = parts[1]
  /\ \A k \in 2..n : r[k] = r[k - 1] \o parts[k]

\* Strings are joined one after the other.
LEMMA FlattenSteps ==
  ASSUME NEW n \in Nat, n > 0, NEW parts \in [1..n -> Seq(Nat)]
  PROVE  \E r : Flattening(r, n, parts) /\ FlattenSeq(parts) = r[n]
<1> DEFINE V == Seq(Nat)
           h == [k \in 1..n |-> [x \in V |-> x \o parts[k]]]
<1>1. <<>> \in V /\ (\A k \in 1..n : parts[k] \in V) /\ (\A x, y \in V : x \o y \in V)
  OBVIOUS
<1>2. \A x \in V : <<>> \o x = x
  BY ConcatEmptySeq
<1> HIDE DEF V
<1>3. h \in [1..n -> [V -> V]]
  BY <1>1
<1>4. \A k \in 1..n : \A x \in V : h[k][x] = x \o parts[k]
  OBVIOUS
<1> HIDE DEF h
<1>5. PICK f \in [0..n -> V] : IsRun(f, <<>>, n, h)
  <2>1. Computable(V, <<>>, n, h)
    BY <1>1, <1>3, StepsExist
  <2> QED BY <2>1 DEF Computable
<1>6. f[0] = <<>> /\ \A k \in 1..n : f[k] = f[k - 1] \o parts[k]
  <2>1. ASSUME NEW k \in 1..n PROVE f[k] = f[k - 1] \o parts[k]
    <3>1. f[k - 1] \in V /\ f[k] = h[k][f[k - 1]]
      BY <1>5 DEF IsRun
    <3>2. h[k][f[k - 1]] = f[k - 1] \o parts[k]
      BY <1>4, <3>1
    <3> QED BY <3>1, <3>2
  <2> QED BY <1>5, <2>1 DEF IsRun
<1>7. f[1] = parts[1]
  <2>1. 1 \in 1..n /\ 1 - 1 = 0
    OBVIOUS
  <2>2. f[1] = f[0] \o parts[1]
    BY <1>6, <2>1
  <2> QED BY <1>1, <1>2, <1>6, <2>1, <2>2
<1> DEFINE g == [k \in 1..n |-> f[k]]
<1>8. g \in [1..n -> V]
  BY <1>5
<1>9. \A k \in 1..n : g[k] = IF k = 1 THEN parts[k] ELSE g[k - 1] \o parts[k]
  <2> SUFFICES ASSUME NEW k \in 1..n PROVE g[k] = IF k = 1 THEN parts[k] ELSE g[k - 1] \o parts[k]
    OBVIOUS
  <2>1. CASE k = 1
    BY <1>7, <2>1
  <2>2. CASE k # 1
    <3>1. k - 1 \in 1..n /\ g[k] = f[k]
      BY <2>2
    <3>2. g[k - 1] = f[k - 1] /\ f[k] = f[k - 1] \o parts[k]
      BY <1>6, <3>1
    <3> QED BY <2>2, <3>1, <3>2
  <2> QED BY <2>1, <2>2
<1>10. g = [k \in 1..n |-> IF k = 1 THEN parts[k] ELSE g[k - 1] \o parts[k]]
  <2>1. g = [k \in 1..n |-> g[k]]
    OBVIOUS
  <2> HIDE DEF g
  <2> QED BY <1>9, <2>1
<1> HIDE DEF g
<1>11. Len(parts) = n /\ n # 0
  OBVIOUS
<1>12. \E r : r = [k \in 1..n |-> IF k = 1 THEN parts[k] ELSE r[k - 1] \o parts[k]]
              /\ FlattenSeq(parts) = r[n]
  BY <1>10, <1>11, Zenon DEF FlattenSeq
<1>13. PICK r : r = [k \in 1..n |-> IF k = 1 THEN parts[k] ELSE r[k - 1] \o parts[k]]
               /\ FlattenSeq(parts) = r[n]
  BY <1>12
<1>14. r[1] = parts[1] /\ \A k \in 2..n : r[k] = r[k - 1] \o parts[k]
  <2>1. \A k \in 1..n : r[k] = IF k = 1 THEN parts[k] ELSE r[k - 1] \o parts[k]
    BY <1>13, Zenon
  <2>2. 1 \in 1..n /\ \A k \in 2..n : k \in 1..n /\ k # 1
    OBVIOUS
  <2> QED BY <2>1, <2>2, Zenon
<1> DEFINE S == {d \in 0..(n - 1) : r[d + 1] \in V}
<1>15. 0 \in S
  BY <1>1, <1>14
<1>16. ASSUME NEW d \in Nat, d \in S, d < n - 1 PROVE d + 1 \in S
  <2>1. (d + 1) + 1 \in 2..n /\ ((d + 1) + 1) - 1 = d + 1 /\ (d + 1) + 1 \in 1..n /\ r[d + 1] \in V
    BY <1>16
  <2>2. r[(d + 1) + 1] = r[d + 1] \o parts[(d + 1) + 1]
    BY <1>14, <2>1
  <2>3. r[(d + 1) + 1] \in V
    BY <1>1, <2>1, <2>2
  <2> QED BY <1>16, <2>3
<1> HIDE DEF S
<1>17. \A d \in 0..(n - 1) : d \in S
  <2>1. n - 1 \in Nat
    OBVIOUS
  <2> QED BY <1>15, <1>16, <2>1, CountingTo
<1>18. \A k \in 1..n : r[k] \in V
  <2> SUFFICES ASSUME NEW k \in 1..n PROVE r[k] \in V
    OBVIOUS
  <2>1. k - 1 \in 0..(n - 1) /\ (k - 1) + 1 = k
    OBVIOUS
  <2>2. k - 1 \in S
    BY <1>17, <2>1
  <2> QED BY <2>1, <2>2 DEF S
<1>19. r \in [1..n -> V]
  BY <1>13, <1>18
<1> QED BY <1>13, <1>14, <1>19 DEF Flattening, V

\* Where the parts are, when all have the same length.
LEMMA Slots ==
  ASSUME NEW L \in Nat, NEW m \in Nat, NEW k \in 1..m
  PROVE  /\ (k - 1) * L \in Nat /\ k * L \in Nat /\ m * L \in Nat
         /\ k * L = (k - 1) * L + L /\ (k - 1) * L + L <= m * L
<1>1. k * L = (k - 1) * L + L
  OBVIOUS
<1>2. L * k <= L * m
  BY ProductGrows
<1>3. L * k = k * L /\ L * m = m * L
  OBVIOUS
<1>4. (k - 1) * L \in Nat /\ k * L \in Nat /\ m * L \in Nat
  OBVIOUS
<1> QED BY <1>1, <1>2, <1>3, <1>4

\* Every place in m groups of L is a place in one of the groups.
LEMMA SlotOf ==
  ASSUME NEW L \in Nat, L > 0, NEW m \in Nat, NEW p \in 1..m * L
  PROVE  \E k \in 1..m, i \in 1..L : p = (k - 1) * L + i
<1> DEFINE q == (p - 1) \div L
           r == (p - 1) % L
<1>1. q \in Nat /\ r \in Nat /\ r < L /\ p - 1 = L * q + r
  <2>1. p - 1 \in Nat
    OBVIOUS
  <2> QED BY <2>1, DivMod
<1> HIDE DEF q, r
<1>2. p \in Nat /\ p <= m * L
  OBVIOUS
<1>3. q < m
  <2> SUFFICES ASSUME m <= q PROVE FALSE
    BY <1>1
  <2>1. L * m <= L * q
    BY <1>1, ProductGrows
  <2>2. L * m = m * L
    OBVIOUS
  <2> QED BY <1>1, <1>2, <2>1, <2>2
<1>4. q + 1 \in 1..m /\ r + 1 \in 1..L
  BY <1>1, <1>3
<1>5. ((q + 1) - 1) * L = L * q
  BY <1>1
<1>6. p = ((q + 1) - 1) * L + (r + 1)
  BY <1>1, <1>2, <1>5
<1> QED BY <1>4, <1>6

\* Parts of one length: where the characters of each are.
LEMMA FlattenEven ==
  ASSUME NEW n \in Nat, n > 0, NEW L \in Nat, NEW parts \in [1..n -> Seq(Nat)],
         \A k \in 1..n : Len(parts[k]) = L
  PROVE  /\ FlattenSeq(parts) \in Seq(Nat) /\ Len(FlattenSeq(parts)) = n * L
         /\ \A k \in 1..n : \A i \in 1..L : FlattenSeq(parts)[(k - 1) * L + i] = parts[k][i]
<1>1. PICK r : Flattening(r, n, parts) /\ FlattenSeq(parts) = r[n]
  BY FlattenSteps
<1>2. r \in [1..n -> Seq(Nat)] /\ r[1] = parts[1] /\ \A k \in 2..n : r[k] = r[k - 1] \o parts[k]
  BY <1>1 DEF Flattening
<1> DEFINE Good(m) == Len(r[m]) = m * L /\ \A k \in 1..m : \A i \in 1..L : r[m][(k - 1) * L + i] = parts[k][i]
           S == {d \in 0..(n - 1) : Good(d + 1)}
<1>3. 0 \in S
  <2>1. 1 * L = L /\ \A i \in 1..L : (1 - 1) * L + i = i
    OBVIOUS
  <2>2. Len(r[1]) = 1 * L
    BY <1>2, <2>1
  <2>3. ASSUME NEW k \in 1..1, NEW i \in 1..L PROVE r[1][(k - 1) * L + i] = parts[k][i]
    <3>1. k = 1
      OBVIOUS
    <3> QED BY <1>2, <2>1, <3>1
  <2> QED BY <2>2, <2>3
<1>4. ASSUME NEW d \in Nat, d \in S, d < n - 1 PROVE d + 1 \in S
  <2> DEFINE m == d + 1
             s == r[m]
             t == parts[m + 1]
             st == r[m + 1]
  <2>1. m \in 1..n /\ m + 1 \in 2..n /\ m + 1 \in 1..n /\ (m + 1) - 1 = m /\ m \in Nat
    BY <1>4
  <2>2. s \in Seq(Nat) /\ t \in Seq(Nat) /\ Len(t) = L /\ Len(s) = m * L
    BY <1>2, <1>4, <2>1
  <2>3. st = s \o t
    BY <1>2, <2>1
  <2>4. \A k \in 1..m : \A i \in 1..L : s[(k - 1) * L + i] = parts[k][i]
    BY <1>4
  <2> HIDE DEF s, st, m
  <2>5. /\ Len(st) = m * L + L
        /\ \A i \in 1..m * L : st[i] = s[i]
        /\ \A i \in 1..L : st[m * L + i] = t[i]
    <3>1. IsJoin(st, s, t)
      BY <2>2, <2>3, Join
    <3> HIDE DEF t
    <3> QED BY <2>2, <3>1 DEF IsJoin
  <2>6. m * L + L = (m + 1) * L /\ m * L \in Nat
    BY <2>1
  <2>7. ASSUME NEW k \in 1..m + 1, NEW i \in 1..L PROVE st[(k - 1) * L + i] = parts[k][i]
    <3>1. CASE k = m + 1
      <4>1. (k - 1) * L = m * L
        BY <2>1, <3>1
      <4> QED BY <2>5, <3>1, <4>1
    <3>2. CASE k # m + 1
      <4>1. k \in 1..m
        BY <2>1, <3>2
      <4>2. (k - 1) * L \in Nat /\ (k - 1) * L + L <= m * L
        BY <2>1, <4>1, Slots
      <4>3. (k - 1) * L + i \in 1..m * L
        <5> DEFINE a == (k - 1) * L
                   b == m * L
        <5>1. a \in Nat /\ b \in Nat /\ a + L <= b
          BY <2>6, <4>2
        <5> HIDE DEF a, b
        <5>2. a + i \in 1..b
          BY <5>1
        <5> QED BY <5>2 DEF a, b
      <4>4. st[(k - 1) * L + i] = s[(k - 1) * L + i]
        BY <2>5, <4>3
      <4>5. s[(k - 1) * L + i] = parts[k][i]
        BY <2>4, <4>1
      <4> QED BY <4>4, <4>5
    <3> QED BY <3>1, <3>2
  <2>8. Good(m + 1)
    BY <2>5, <2>6, <2>7 DEF st
  <2> HIDE DEF Good
  <2> QED BY <1>4, <2>8 DEF m
<1> HIDE DEF S
<1>5. \A d \in 0..(n - 1) : d \in S
  <2>1. n - 1 \in Nat
    OBVIOUS
  <2> QED BY <1>3, <1>4, <2>1, CountingTo
<1>6. Good(n)
  <2>1. n - 1 \in S /\ (n - 1) + 1 = n
    BY <1>5
  <2> HIDE DEF Good
  <2> QED BY <2>1 DEF S
<1>7. n \in 1..n
  OBVIOUS
<1> QED BY <1>1, <1>2, <1>6, <1>7

\* A string is what its parts of one length come to.
LEMMA FlattenWhole ==
  ASSUME NEW n \in Nat, n > 0, NEW L \in Nat, L > 0, NEW s \in Seq(Nat), Len(s) = n * L
  PROVE  FlattenSeq([k \in 1..n |-> SubSeq(s, (k - 1) * L + 1, k * L)]) = s
<1> DEFINE parts == [k \in 1..n |-> SubSeq(s, (k - 1) * L + 1, k * L)]
           t == FlattenSeq(parts)
<1>1. ASSUME NEW k \in 1..n
      PROVE  /\ parts[k] \in Seq(Nat) /\ Len(parts[k]) = L
             /\ \A i \in 1..L : parts[k][i] = s[(k - 1) * L + i]
  <2> DEFINE a == (k - 1) * L
  <2>1. a \in Nat /\ k * L = a + L /\ k * L \in Nat /\ a + L <= n * L
    BY Slots
  <2> HIDE DEF a
  <2>2. IsPart(SubSeq(s, a + 1, k * L), s, a, k * L)
    BY <2>1, Cut
  <2>3. parts[k] = SubSeq(s, a + 1, k * L)
    BY DEF a
  <2> HIDE DEF parts
  <2>4. parts[k] \in Seq(Nat) /\ Len(parts[k]) = L /\ \A i \in 1..L : parts[k][i] = s[a + i]
    BY <2>1, <2>2, <2>3 DEF IsPart
  <2> QED BY <2>4 DEF a
<1>2. parts \in [1..n -> Seq(Nat)]
  <2>1. parts = [k \in 1..n |-> parts[k]]
    OBVIOUS
  <2> HIDE DEF parts
  <2> QED BY <1>1, <2>1
<1> HIDE DEF parts
<1>3. /\ t \in Seq(Nat) /\ Len(t) = n * L
      /\ \A k \in 1..n : \A i \in 1..L : t[(k - 1) * L + i] = parts[k][i]
  BY <1>1, <1>2, FlattenEven
<1> HIDE DEF t
<1>4. ASSUME NEW p \in 1..n * L PROVE t[p] = s[p]
  <2>1. PICK k \in 1..n, i \in 1..L : p = (k - 1) * L + i
    BY SlotOf
  <2> QED BY <1>1, <1>3, <2>1
<1>5. t = s
  BY <1>3, <1>4, SeqEqual
<1> QED BY <1>5 DEF t, parts

-----------------------------------------------------------------------------
(* Dashes. *)

Undashed(s) == \A i \in 1..Len(s) : s[i] # Dash

\* What is kept of a character.
Kept(c, kept) == IF c = Dash THEN kept ELSE Append(kept, c)

\* NoDashes takes the characters one by one.
Keeping(r, s) ==
  /\ r \in [0..Len(s) -> Seq(Nat)] /\ r[0] = <<>>
  /\ \A i \in 1..Len(s) : r[i] = Kept(s[i], r[i - 1])

\* What is left of a string is a string.
LEMMA KeptType == ASSUME NEW c \in Nat, NEW kept \in Seq(Nat) PROVE Kept(c, kept) \in Seq(Nat)
  BY AppendProperties DEF Kept

\* Dashes are removed one character after the other.
LEMMA KeepingSteps ==
  ASSUME NEW s \in Seq(Nat)
  PROVE  \E r : Keeping(r, s) /\ NoDashes(s) = r[Len(s)]
<1> DEFINE V == Seq(Nat)
           m == Len(s)
           h == [i \in 1..m |-> [x \in V |-> Kept(s[i], x)]]
<1>1. m \in Nat /\ (\A i \in 1..m : s[i] \in Nat) /\ <<>> \in V
  OBVIOUS
<1>2. h \in [1..m -> [V -> V]]
  BY <1>1, KeptType
<1> HIDE DEF V, m
<1>3. \A i \in 1..m : \A x \in V : h[i][x] = Kept(s[i], x)
  OBVIOUS
<1> HIDE DEF h
<1>4. PICK f \in [0..m -> V] : IsRun(f, <<>>, m, h)
  <2>1. Computable(V, <<>>, m, h)
    BY <1>1, <1>2, StepsExist
  <2> QED BY <2>1 DEF Computable
<1>5. f[0] = <<>> /\ \A i \in 1..m : f[i] = Kept(s[i], f[i - 1])
  <2>1. ASSUME NEW i \in 1..m PROVE f[i] = Kept(s[i], f[i - 1])
    <3>1. f[i - 1] \in V /\ f[i] = h[i][f[i - 1]]
      BY <1>1, <1>4 DEF IsRun
    <3>2. h[i][f[i - 1]] = Kept(s[i], f[i - 1])
      BY <1>3, <3>1
    <3> QED BY <3>1, <3>2
  <2> QED BY <1>4, <2>1 DEF IsRun
<1>6. f = [i \in 0..m |-> IF i = 0 THEN <<>>
                          ELSE IF s[i] = Dash THEN f[i - 1] ELSE Append(f[i - 1], s[i])]
  <2>1. f = [i \in 0..m |-> f[i]]
    OBVIOUS
  <2>2. ASSUME NEW i \in 0..m
        PROVE  f[i] = IF i = 0 THEN <<>> ELSE IF s[i] = Dash THEN f[i - 1] ELSE Append(f[i - 1], s[i])
    <3>1. CASE i = 0
      BY <1>5, <3>1
    <3>2. CASE i # 0
      <4>1. i \in 1..m
        BY <1>1, <3>2
      <4> QED BY <1>5, <3>2, <4>1 DEF Kept
    <3> QED BY <3>1, <3>2
  <2> QED BY <2>1, <2>2
<1>7. \E r : r = [i \in 0..m |-> IF i = 0 THEN <<>>
                                 ELSE IF s[i] = Dash THEN r[i - 1] ELSE Append(r[i - 1], s[i])]
             /\ NoDashes(s) = r[m]
  BY <1>6, ZenonT(60) DEF NoDashes, m
<1>8. PICK r : r = [i \in 0..m |-> IF i = 0 THEN <<>>
                                 ELSE IF s[i] = Dash THEN r[i - 1] ELSE Append(r[i - 1], s[i])]
               /\ NoDashes(s) = r[m]
  BY <1>7
<1>9. r[0] = <<>> /\ \A i \in 1..m : r[i] = Kept(s[i], r[i - 1])
  <2>1. \A i \in 0..m : r[i] = IF i = 0 THEN <<>>
                               ELSE IF s[i] = Dash THEN r[i - 1] ELSE Append(r[i - 1], s[i])
    BY <1>8, Zenon
  <2>2. 0 \in 0..m /\ \A i \in 1..m : i \in 0..m /\ i # 0
    BY <1>1
  <2> QED BY <2>1, <2>2, Zenon DEF Kept
<1> DEFINE S == {i \in 0..m : r[i] \in V}
<1>10. 0 \in S
  BY <1>1, <1>9
<1>11. ASSUME NEW i \in Nat, i \in S, i < m PROVE i + 1 \in S
  <2>1. i + 1 \in 1..m /\ (i + 1) - 1 = i /\ r[i] \in V /\ s[i + 1] \in Nat
    BY <1>1, <1>11
  <2>2. r[i + 1] = Kept(s[i + 1], r[i])
    BY <1>9, <2>1
  <2>3. r[i + 1] \in V
    BY <2>1, <2>2, KeptType DEF V
  <2> QED BY <1>1, <1>11, <2>3
<1> HIDE DEF S
<1>12. \A i \in 0..m : i \in S
  BY <1>1, <1>10, <1>11, CountingTo
<1>13. \A i \in 0..m : r[i] \in V
  BY <1>12 DEF S
<1>14. r \in [0..m -> V]
  BY <1>8, <1>13
<1> QED BY <1>8, <1>9, <1>14 DEF Keeping, V, m

\* A string without its dashes is a string.
LEMMA NoDashesType == ASSUME NEW s \in Seq(Nat) PROVE NoDashes(s) \in Seq(Nat)
<1>1. PICK r : Keeping(r, s) /\ NoDashes(s) = r[Len(s)]
  BY KeepingSteps
<1> QED BY <1>1 DEF Keeping

\* The two ways to take characters from s are one.
LEMMA KeepingIsOne ==
  ASSUME NEW s \in Seq(Nat), NEW r, Keeping(r, s)
  PROVE  NoDashes(s) = r[Len(s)]
<1>1. PICK t : Keeping(t, s) /\ NoDashes(s) = t[Len(s)]
  BY KeepingSteps
<1> DEFINE m == Len(s)
           S == {i \in 0..m : r[i] = t[i]}
<1>2. m \in Nat
  OBVIOUS
<1>3. r[0] = <<>> /\ t[0] = <<>> /\ \A i \in 1..m : r[i] = Kept(s[i], r[i - 1]) /\ t[i] = Kept(s[i], t[i - 1])
  BY <1>1 DEF Keeping
<1> HIDE DEF m
<1>4. 0 \in S
  BY <1>2, <1>3
<1>5. ASSUME NEW i \in Nat, i \in S, i < m PROVE i + 1 \in S
  <2>1. i + 1 \in 1..m /\ (i + 1) - 1 = i /\ r[i] = t[i]
    BY <1>2, <1>5
  <2>2. r[i + 1] = t[i + 1]
    BY <1>3, <2>1
  <2> QED BY <1>2, <1>5, <2>2
<1> HIDE DEF S
<1>6. \A i \in 0..m : i \in S
  BY <1>2, <1>4, <1>5, CountingTo
<1>7. r[m] = t[m]
  BY <1>2, <1>6 DEF S
<1> QED BY <1>1, <1>7 DEF m

\* A string that has no dash stays as it is.
LEMMA NothingToRemove ==
  ASSUME NEW s \in Seq(Nat), Undashed(s)
  PROVE  NoDashes(s) = s
<1> DEFINE m == Len(s)
           r == [i \in 0..m |-> SubSeq(s, 1, i)]
<1>1. m \in Nat /\ \A i \in 1..m : s[i] \in Nat /\ s[i] # Dash
  BY DEF Undashed
<1>2. \A i \in 0..m : r[i] \in Seq(Nat) /\ Len(r[i]) = i /\ \A j \in 1..i : r[i][j] = s[j]
  <2> SUFFICES ASSUME NEW i \in 0..m
               PROVE  r[i] \in Seq(Nat) /\ Len(r[i]) = i /\ \A j \in 1..i : r[i][j] = s[j]
    OBVIOUS
  <2>1. r[i] = SubSeq(s, 0 + 1, i) /\ 0 \in Nat /\ i \in Nat /\ 0 <= i /\ i <= Len(s)
    OBVIOUS
  <2> HIDE DEF r, m
  <2>2. IsPart(r[i], s, 0, i)
    BY <2>1, Cut
  <2> QED BY <2>1, <2>2 DEF IsPart
<1>3. r = [i \in 0..m |-> r[i]]
  OBVIOUS
<1> HIDE DEF r
<1>4. r \in [0..m -> Seq(Nat)]
  BY <1>2, <1>3
<1>5. r[0] = <<>>
  BY <1>1, <1>2
<1>6. ASSUME NEW i \in 1..m PROVE r[i] = Kept(s[i], r[i - 1])
  <2> DEFINE a == r[i - 1]
             b == Append(a, s[i])
  <2>1. i - 1 \in 0..m /\ i \in 0..m /\ s[i] \in Nat /\ s[i] # Dash
    BY <1>1
  <2>2. a \in Seq(Nat) /\ Len(a) = i - 1 /\ \A j \in 1..i - 1 : a[j] = s[j]
    BY <1>2, <2>1
  <2> HIDE DEF a
  <2>3. b \in Seq(Nat) /\ Len(b) = i /\ (\A j \in 1..i - 1 : b[j] = a[j]) /\ b[i] = s[i]
    <3>1. /\ b \in Seq(Nat) /\ Len(b) = Len(a) + 1
          /\ (\A j \in 1..Len(a) : b[j] = a[j]) /\ b[Len(a) + 1] = s[i]
      BY <2>1, <2>2, AppendProperties
    <3> HIDE DEF b
    <3>2. (i - 1) + 1 = i
      BY <1>1
    <3> QED BY <2>2, <3>1, <3>2
  <2> HIDE DEF b
  <2>4. \A j \in 1..i : b[j] = s[j]
    BY <1>1, <2>2, <2>3, SMTT(30)
  <2>5. r[i] \in Seq(Nat) /\ Len(r[i]) = i /\ \A j \in 1..i : r[i][j] = s[j]
    BY <1>2, <2>1
  <2>6. \A j \in 1..Len(b) : b[j] = r[i][j]
    BY <2>3, <2>4, <2>5
  <2>7. b = r[i]
    BY <2>3, <2>5, <2>6, SeqEqual
  <2> QED BY <2>1, <2>7 DEF Kept, a, b
<1>7. Keeping(r, s)
  BY <1>4, <1>5, <1>6 DEF Keeping, m
<1>8. r[m] = s
  <2>1. m \in 0..m
    BY <1>1
  <2>2. r[m] \in Seq(Nat) /\ Len(r[m]) = Len(s) /\ \A j \in 1..Len(r[m]) : r[m][j] = s[j]
    BY <1>2, <2>1 DEF m
  <2> QED BY <2>2, SeqEqual
<1> QED BY <1>7, <1>8, KeepingIsOne DEF m

\* A character appended to a join is appended to its second part.
LEMMA AppendBehind ==
  ASSUME NEW a \in Seq(Nat), NEW b \in Seq(Nat), NEW c \in Nat
  PROVE  Append(a \o b, c) = a \o Append(b, c)
<1>1. a \o b \in Seq(Nat) /\ Append(b, c) = b \o <<c>> /\ <<c>> \in Seq(Nat)
  BY ConcatProperties, AppendIsConcat
<1>2. Append(a \o b, c) = (a \o b) \o <<c>>
  BY <1>1, AppendIsConcat
<1>3. (a \o b) \o <<c>> = a \o (b \o <<c>>)
  BY <1>1, ConcatAssociative, SMTT(30)
<1> QED BY <1>1, <1>2, <1>3

\* The dashes of a join are removed from each of its parts.
LEMMA NoDashesOfBoth ==
  ASSUME NEW s \in Seq(Nat), NEW t \in Seq(Nat)
  PROVE  NoDashes(s \o t) = NoDashes(s) \o NoDashes(t)
<1> DEFINE st == s \o t
           m == Len(s)
           n == Len(t)
           a == NoDashes(s)
<1>1. PICK f : Keeping(f, s) /\ a = f[m]
  BY KeepingSteps
<1>2. PICK g : Keeping(g, t) /\ NoDashes(t) = g[n]
  BY KeepingSteps
<1>3. m \in Nat /\ n \in Nat /\ (\A i \in 1..m : s[i] \in Nat) /\ \A i \in 1..n : t[i] \in Nat
  OBVIOUS
<1>4. /\ st \in Seq(Nat) /\ Len(st) = m + n
      /\ \A i \in 1..m : st[i] = s[i]
      /\ \A i \in 1..n : st[m + i] = t[i]
  <2>1. IsJoin(st, s, t)
    BY Join
  <2> QED BY <2>1 DEF IsJoin
<1>5. f \in [0..m -> Seq(Nat)] /\ f[0] = <<>> /\ \A i \in 1..m : f[i] = Kept(s[i], f[i - 1])
  BY <1>1 DEF Keeping
<1>6. g \in [0..n -> Seq(Nat)] /\ g[0] = <<>> /\ \A i \in 1..n : g[i] = Kept(t[i], g[i - 1])
  BY <1>2 DEF Keeping
<1>7. a \in Seq(Nat)
  BY NoDashesType
<1> HIDE DEF st, m, n, a
<1> DEFINE r == [i \in 0..m + n |-> IF i <= m THEN f[i] ELSE a \o g[i - m]]
<1>8. r \in [0..m + n -> Seq(Nat)]
  <2>1. ASSUME NEW i \in 0..m + n PROVE (IF i <= m THEN f[i] ELSE a \o g[i - m]) \in Seq(Nat)
    <3>1. CASE i <= m
      BY <1>3, <1>5, <3>1
    <3>2. CASE ~(i <= m)
      <4>1. i - m \in 0..n
        BY <1>3, <3>2
      <4>2. g[i - m] \in Seq(Nat)
        BY <1>6, <4>1
      <4> QED BY <1>7, <3>2, <4>2, ConcatProperties
    <3> QED BY <3>1, <3>2
  <2> QED BY <2>1
<1>9. r[0] = <<>>
  BY <1>3, <1>5
<1>10. \A i \in 1..n : r[m + i] = a \o g[i] /\ (r[m + i - 1] = a \o g[i - 1])
  <2> SUFFICES ASSUME NEW i \in 1..n PROVE r[m + i] = a \o g[i] /\ (r[m + i - 1] = a \o g[i - 1])
    OBVIOUS
  <2>1. m + i \in 0..m + n /\ ~(m + i <= m) /\ (m + i) - m = i
    BY <1>3
  <2>2. r[m + i] = a \o g[i]
    BY <2>1
  <2>3. CASE i = 1
    <3>1. m + i - 1 = m /\ i - 1 = 0 /\ m \in 0..m + n
      BY <1>3, <2>3
    <3>2. r[m] = f[m]
      BY <1>3, <3>1
    <3>3. a \o <<>> = a
      BY <1>7, ConcatEmptySeq
    <3> QED BY <1>1, <1>6, <2>2, <3>1, <3>2, <3>3
  <2>4. CASE i # 1
    <3>1. m + i - 1 \in 0..m + n /\ ~(m + i - 1 <= m) /\ (m + i - 1) - m = i - 1
      BY <1>3, <2>4
    <3>2. r[m + i - 1] = a \o g[i - 1]
      BY <3>1
    <3> QED BY <2>2, <3>2
  <2> QED BY <2>3, <2>4
<1>11. \A i \in 0..m : r[i] = f[i]
  BY <1>3
<1> HIDE DEF r
<1>12. ASSUME NEW i \in 1..m + n PROVE r[i] = Kept(st[i], r[i - 1])
  <2>1. CASE i <= m
    <3>1. i \in 1..m /\ i \in 0..m /\ i - 1 \in 0..m
      BY <1>3, <2>1
    <3> QED BY <1>4, <1>5, <1>11, <3>1
  <2>2. CASE ~(i <= m)
    <3> DEFINE j == i - m
    <3>1. j \in 1..n /\ i = m + j
      BY <1>3, <2>2
    <3> HIDE DEF j
    <3>2. r[i] = a \o g[j] /\ r[i - 1] = a \o g[j - 1] /\ st[i] = t[j] /\ t[j] \in Nat
      <4>1. st[m + j] = t[j] /\ t[j] \in Nat
        BY <1>3, <1>4, <3>1
      <4>2. r[m + j] = a \o g[j] /\ r[m + j - 1] = a \o g[j - 1]
        BY <1>10, <3>1
      <4>3. i - 1 = m + j - 1
        BY <1>3, <3>1
      <4> QED BY <3>1, <4>1, <4>2, <4>3, Zenon
    <3>3. g[j] = Kept(t[j], g[j - 1]) /\ g[j - 1] \in Seq(Nat)
      BY <1>3, <1>6, <3>1
    <3>4. CASE t[j] = Dash
      BY <3>2, <3>3, <3>4 DEF Kept
    <3>5. CASE t[j] # Dash
      <4>1. g[j] = Append(g[j - 1], t[j])
        BY <3>3, <3>5 DEF Kept
      <4>2. Append(a \o g[j - 1], t[j]) = a \o Append(g[j - 1], t[j])
        BY <1>7, <3>2, <3>3, AppendBehind
      <4> QED BY <3>2, <3>5, <4>1, <4>2 DEF Kept
    <3> QED BY <3>4, <3>5
  <2> QED BY <2>1, <2>2
<1>13. Keeping(r, st)
  BY <1>4, <1>8, <1>9, <1>12 DEF Keeping
<1>14. NoDashes(st) = r[m + n]
  BY <1>4, <1>13, KeepingIsOne
<1>15. r[m + n] = a \o g[n]
  <2>1. CASE n = 0
    <3>1. m + n = m /\ m \in 0..m /\ g[n] = <<>>
      BY <1>3, <1>6, <2>1
    <3>2. a \o <<>> = a
      BY <1>7, ConcatEmptySeq
    <3> QED BY <1>1, <1>11, <3>1, <3>2
  <2>2. CASE n # 0
    <3>1. n \in 1..n
      BY <1>3, <2>2
    <3> QED BY <1>10, <3>1
  <2> QED BY <2>1, <2>2
<1> QED BY <1>2, <1>14, <1>15 DEF st, a

\* A dash between two strings without any is all that is removed.
LEMMA DashBetween ==
  ASSUME NEW s \in Seq(Nat), NEW t \in Seq(Nat), Dash \in Nat
  PROVE  NoDashes((s \o <<Dash>>) \o t) = NoDashes(s) \o NoDashes(t)
<1>1. <<Dash>> \in Seq(Nat) /\ s \o <<Dash>> \in Seq(Nat)
  BY ConcatProperties
<1> DEFINE one == <<Dash>>
<1>2. NoDashes(one) = <<>>
  <2>1. PICK r : Keeping(r, one) /\ NoDashes(one) = r[Len(one)]
    BY <1>1, KeepingSteps
  <2>2. Len(one) = 1 /\ one[1] = Dash
    OBVIOUS
  <2> HIDE DEF one
  <2>3. r[0] = <<>> /\ r[1] = Kept(one[1], r[1 - 1])
    BY <2>1, <2>2 DEF Keeping
  <2>4. 1 - 1 = 0
    OBVIOUS
  <2> QED BY <2>1, <2>2, <2>3, <2>4 DEF Kept
<1>3. NoDashes(s \o one) = NoDashes(s) \o <<>>
  BY <1>1, <1>2, NoDashesOfBoth
<1>4. NoDashes(s) \o <<>> = NoDashes(s)
  BY NoDashesType, ConcatEmptySeq
<1> HIDE DEF one
<1>5. NoDashes((s \o one) \o t) = NoDashes(s \o one) \o NoDashes(t)
  BY <1>1, NoDashesOfBoth DEF one
<1> QED BY <1>3, <1>4, <1>5 DEF one

-----------------------------------------------------------------------------
(* Check digits. *)

Summing(r, s) ==
  /\ r \in [0..Len(s) -> Nat] /\ r[0] = 0
  /\ \A i \in 1..Len(s) : r[i] = r[i - 1] + s[i]

\* Sums does what its definition says, in every step.
LEMMA SumsSteps == ASSUME NEW s \in Seq(Nat) PROVE Summing(Sums(s), s)
<1> DEFINE m == Len(s)
           h == [i \in 1..m |-> [x \in Nat |-> x + s[i]]]
<1>1. m \in Nat /\ \A i \in 1..m : s[i] \in Nat
  OBVIOUS
<1> HIDE DEF m
<1>2. h \in [1..m -> [Nat -> Nat]]
  BY <1>1
<1>3. \A i \in 1..m : \A x \in Nat : h[i][x] = x + s[i]
  OBVIOUS
<1> HIDE DEF h
<1>4. PICK f \in [0..m -> Nat] : IsRun(f, 0, m, h)
  <2>1. Computable(Nat, 0, m, h)
    BY <1>1, <1>2, StepsExist
  <2> QED BY <2>1 DEF Computable
<1>5. f[0] = 0 /\ \A i \in 1..m : f[i] = f[i - 1] + s[i]
  <2>1. ASSUME NEW i \in 1..m PROVE f[i] = f[i - 1] + s[i]
    <3>1. f[i - 1] \in Nat /\ f[i] = h[i][f[i - 1]]
      BY <1>1, <1>4 DEF IsRun
    <3>2. h[i][f[i - 1]] = f[i - 1] + s[i]
      BY <1>3, <3>1
    <3> QED BY <3>1, <3>2
  <2> QED BY <1>4, <2>1 DEF IsRun
<1>6. f = [i \in 0..m |-> IF i = 0 THEN 0 ELSE f[i - 1] + s[i]]
  <2>1. f = [i \in 0..m |-> f[i]]
    OBVIOUS
  <2>2. \A i \in 0..m : f[i] = IF i = 0 THEN 0 ELSE f[i - 1] + s[i]
    BY <1>1, <1>5
  <2> QED BY <2>1, <2>2
<1>7. Sums(s) = [i \in 0..m |-> IF i = 0 THEN 0 ELSE Sums(s)[i - 1] + s[i]]
  BY <1>6, ZenonT(60) DEF Sums, m
<1> DEFINE r == Sums(s)
<1> HIDE DEF r
<1>8. r = [i \in 0..m |-> IF i = 0 THEN 0 ELSE r[i - 1] + s[i]]
  BY <1>7 DEF r
<1>9. r[0] = 0 /\ \A i \in 1..m : r[i] = r[i - 1] + s[i]
  BY <1>1, <1>8
<1> DEFINE S == {i \in 0..m : r[i] \in Nat}
<1>10. 0 \in S
  BY <1>1, <1>9
<1>11. ASSUME NEW i \in Nat, i \in S, i < m PROVE i + 1 \in S
  <2>1. r[i] \in Nat /\ i + 1 \in 1..m /\ (i + 1) - 1 = i /\ s[i + 1] \in Nat
    BY <1>1, <1>11
  <2>2. r[i + 1] = r[i] + s[i + 1]
    BY <1>9, <2>1
  <2> QED BY <2>1, <2>2
<1> HIDE DEF S
<1>12. \A i \in 0..m : i \in S
  BY <1>1, <1>10, <1>11, CountingTo
<1>13. r \in [0..m -> Nat]
  BY <1>8, <1>12 DEF S
<1> QED BY <1>9, <1>13 DEF r, m, Summing

\* The sum that the check digits are computed from.
Total(s) == Sums(s)[Len(s)]

\* A total is a number.
LEMMA TotalType == ASSUME NEW s \in Seq(Nat) PROVE Total(s) \in Nat
<1>1. Summing(Sums(s), s) /\ Len(s) \in Len(s)..Len(s) /\ Len(s) \in Nat
  BY SumsSteps
<1> QED BY <1>1 DEF Total, Summing

\* A sum changes by what one number does.
LEMMA TotalChanged ==
  ASSUME NEW s \in Seq(Nat), NEW t \in Seq(Nat), Len(s) = Len(t), NEW j \in 1..Len(s),
         \A i \in 1..Len(s) : i # j => s[i] = t[i]
  PROVE  Total(s) + t[j] = Total(t) + s[j]
<1> DEFINE m == Len(s)
           f == Sums(s)
           g == Sums(t)
<1>1. m \in Nat /\ \A i \in 1..m : s[i] \in Nat /\ t[i] \in Nat
  OBVIOUS
<1>2. Summing(f, s) /\ Summing(g, t)
  BY SumsSteps
<1>3. Total(s) = f[m] /\ Total(t) = g[m]
  BY DEF Total
<1> HIDE DEF f, g
<1>4. /\ f \in [0..m -> Nat] /\ f[0] = 0 /\ \A i \in 1..m : f[i] = f[i - 1] + s[i]
      /\ g \in [0..m -> Nat] /\ g[0] = 0 /\ \A i \in 1..m : g[i] = g[i - 1] + t[i]
  BY <1>2 DEF Summing
<1>5. j \in 1..m /\ \A i \in 1..m : i # j => s[i] = t[i]
  OBVIOUS
<1> HIDE DEF m
<1> DEFINE S == {i \in 0..m : IF i < j THEN f[i] = g[i] ELSE f[i] + t[j] = g[i] + s[j]}
<1>6. 0 \in S
  BY <1>1, <1>4, <1>5
<1>7. ASSUME NEW i \in Nat, i \in S, i < m PROVE i + 1 \in S
  <2>1. i + 1 \in 1..m /\ (i + 1) - 1 = i /\ i \in 0..m
    BY <1>1, <1>7
  <2>2. f[i] \in Nat /\ g[i] \in Nat /\ f[i + 1] = f[i] + s[i + 1] /\ g[i + 1] = g[i] + t[i + 1]
    BY <1>4, <2>1
  <2>3. s[i + 1] \in Nat /\ t[i + 1] \in Nat /\ s[j] \in Nat /\ t[j] \in Nat
    BY <1>1, <1>5, <2>1
  <2>4. IF i < j THEN f[i] = g[i] ELSE f[i] + t[j] = g[i] + s[j]
    BY <1>7
  <2>5. IF i + 1 < j THEN f[i + 1] = g[i + 1] ELSE f[i + 1] + t[j] = g[i + 1] + s[j]
    <3>1. CASE i + 1 = j
      BY <1>5, <2>2, <2>3, <2>4, <3>1
    <3>2. CASE i + 1 # j
      <4>1. s[i + 1] = t[i + 1]
        BY <1>5, <2>1, <3>2
      <4>2. CASE i < j
        <5>1. i + 1 < j /\ f[i] = g[i]
          BY <1>5, <2>1, <2>4, <3>2, <4>2
        <5> QED BY <2>2, <4>1, <5>1
      <4>3. CASE ~(i < j)
        <5>1. ~(i + 1 < j) /\ f[i] + t[j] = g[i] + s[j]
          BY <1>5, <2>1, <2>4, <3>2, <4>3
        <5> DEFINE v == f[i]
                   w == g[i]
                   u == s[i + 1]
                   x == t[j]
                   y == s[j]
        <5>2. v \in Nat /\ w \in Nat /\ u \in Nat /\ x \in Nat /\ y \in Nat /\ v + x = w + y
          BY <2>2, <2>3, <5>1
        <5>3. f[i + 1] = v + u /\ g[i + 1] = w + u
          BY <2>2, <4>1
        <5> HIDE DEF v, w, u, x, y
        <5>4. f[i + 1] + x = g[i + 1] + y
          BY <5>2, <5>3
        <5> QED BY <5>1, <5>4 DEF x, y
      <4> QED BY <4>2, <4>3
    <3> QED BY <3>1, <3>2
  <2> QED BY <2>1, <2>5
<1> HIDE DEF S
<1>8. \A i \in 0..m : i \in S
  BY <1>1, <1>6, <1>7, CountingTo
<1>9. m \in S /\ ~(m < j)
  BY <1>1, <1>5, <1>8
<1>10. f[m] + t[j] = g[m] + s[j]
  BY <1>9 DEF S
<1> QED BY <1>3, <1>10

\* Two numbers closer than b have different remainders.
LEMMA RemaindersDiffer ==
  ASSUME NEW x \in Nat, NEW y \in Nat, NEW b \in Nat, b > 0, x < y, y < x + b
  PROVE  x % b # y % b
<1> DEFINE q == x \div b
           p == y \div b
           r == x % b
           t == y % b
<1>1. q \in Nat /\ r \in Nat /\ r < b /\ x = b * q + r
  BY DivMod
<1>2. p \in Nat /\ t \in Nat /\ t < b /\ y = b * p + t
  BY DivMod
<1> HIDE DEF q, p, r, t
<1> SUFFICES ASSUME r = t PROVE FALSE
  BY DEF r, t
<1>3. b * q < b * p /\ b * p < b * q + b
  BY <1>1, <1>2
<1>4. CASE p <= q
  BY <1>1, <1>2, <1>3, <1>4, ProductGrows
<1>5. CASE q + 1 <= p
  <2>1. b * (q + 1) <= b * p
    BY <1>1, <1>2, <1>5, ProductGrows
  <2>2. b * (q + 1) = b * q + b
    BY <1>1
  <2> QED BY <1>1, <1>2, <1>3, <2>1, <2>2
<1> QED BY <1>1, <1>2, <1>4, <1>5

\* A check digit tells sums apart that are closer than the alphabet is long.
LEMMA CheckDiffers ==
  ASSUME NEW c \in Seq(Nat), NEW d \in Seq(Nat), Letters \in Nat, Letters > 0,
         Addends(c) \in Seq(Nat), Addends(d) \in Seq(Nat),
         Len(Addends(c)) = Len(c), Len(Addends(d)) = Len(d),
         Total(Addends(c)) # Total(Addends(d)),
         Total(Addends(c)) < Total(Addends(d)) + Letters,
         Total(Addends(d)) < Total(Addends(c)) + Letters
  PROVE  CheckDigit(c) # CheckDigit(d)
<1> DEFINE x == Total(Addends(c))
           y == Total(Addends(d))
           L == Letters
<1>1. x \in Nat /\ y \in Nat /\ L \in Nat /\ L > 0 /\ x # y /\ x < y + L /\ y < x + L
  BY TotalType
<1>2. CheckDigit(c) = (L - (x % L)) % L /\ CheckDigit(d) = (L - (y % L)) % L
  BY DEF CheckDigit, Total
<1> HIDE DEF x, y, L
<1>3. x % L # y % L
  <2>1. CASE x < y
    BY <1>1, <2>1, RemaindersDiffer
  <2>2. CASE y < x
    BY <1>1, <2>2, RemaindersDiffer
  <2> QED BY <1>1, <2>1, <2>2
<1> DEFINE r == x % L
           t == y % L
<1>4. r \in Nat /\ r < L /\ t \in Nat /\ t < L
  BY <1>1, DivMod
<1>5. r # t
  BY <1>3
<1>6. CheckDigit(c) = (L - r) % L /\ CheckDigit(d) = (L - t) % L
  BY <1>2
<1> HIDE DEF r, t
<1>7. ASSUME NEW u \in Nat, u < L PROVE (L - u) % L = IF u = 0 THEN 0 ELSE L - u
  <2>1. CASE u = 0
    <3>1. L - u = L * 1 + 0
      BY <1>1, <2>1
    <3>2. (L * 1 + 0) % L = 0
      BY <1>1, DivModUnique
    <3> QED BY <2>1, <3>1, <3>2
  <2>2. CASE u # 0
    <3>1. L - u \in Nat /\ L - u < L
      BY <1>1, <1>7, <2>2
    <3> QED BY <1>1, <2>2, <3>1, SmallNumber
  <2> QED BY <2>1, <2>2
<1>8. CASE r = 0
  <2>1. CheckDigit(c) = 0 /\ CheckDigit(d) = L - t /\ t # 0
    BY <1>4, <1>5, <1>6, <1>7, <1>8
  <2> QED BY <1>1, <1>4, <2>1
<1>9. CASE r # 0
  <2>1. CheckDigit(c) = L - r
    BY <1>4, <1>6, <1>7, <1>9
  <2>2. CheckDigit(d) = IF t = 0 THEN 0 ELSE L - t
    BY <1>4, <1>6, <1>7
  <2> QED BY <1>1, <1>4, <1>5, <2>1, <2>2
<1> QED BY <1>8, <1>9

-----------------------------------------------------------------------------
(* The sizes of the forms, and the encodings back and forth. *)

\* What the assumption says of the sizes that arithmetic is about.
Sizes ==
  /\ Base \in Nat /\ Letters \in Nat /\ Cased \in Nat /\ KeySpace \in Nat /\ CompactLen \in Nat
  /\ Groups \in Nat /\ GroupLen \in Nat /\ V4Space \in Nat /\ V6Space \in Nat
  /\ V4Digits \in Nat /\ V6Digits \in Nat /\ V4Letters \in Nat /\ V6Letters \in Nat
  /\ Letters > 0 /\ Cased > 0 /\ KeySpace > 0 /\ CompactLen > 0 /\ Groups > 0 /\ GroupLen > 0
  /\ V4Space > 0 /\ V6Space > 0 /\ V4Digits > 0 /\ V6Digits > 0 /\ V4Letters > 1 /\ V6Letters > V4Letters + 1
  /\ Cased <= Letters /\ Letters + Cased <= Base
  /\ KeyLetters \in Nat /\ KeyLetters > 0 /\ StandardLen \in Nat /\ StandardLen = KeyLetters + Groups
  /\ Groups * GroupLen = KeyLetters /\ Groups * (GroupLen + 1) = StandardLen
  /\ Dash \in Nat /\ Dash = Base

\* They follow from the assumption.
LEMMA SizesHold == Sizes
<1>1. {Base, Letters, Cased, KeySpace, CompactLen, Groups, GroupLen, V4Space, V6Space,
      V4Digits, V6Digits, V4Letters, V6Letters} \subseteq Nat \ {0}
  BY DeviceIDAssumption DEF DeviceIDAssumption
<1>2. /\ Base \in Nat /\ Letters \in Nat /\ Cased \in Nat /\ KeySpace \in Nat /\ CompactLen \in Nat
      /\ Groups \in Nat /\ GroupLen \in Nat /\ V4Space \in Nat /\ V6Space \in Nat
      /\ V4Digits \in Nat /\ V6Digits \in Nat /\ V4Letters \in Nat /\ V6Letters \in Nat
  BY <1>1
<1>3. /\ Letters # 0 /\ Cased # 0 /\ KeySpace # 0 /\ CompactLen # 0 /\ Groups # 0 /\ GroupLen # 0
      /\ V4Space # 0 /\ V6Space # 0 /\ V4Digits # 0 /\ V6Digits # 0
  BY <1>1
<1>4. /\ Cased <= Letters /\ Letters + Cased <= Base /\ V4Letters > 1 /\ V6Letters > V4Letters + 1
  BY DeviceIDAssumption DEF DeviceIDAssumption
<1>5. /\ Groups * GroupLen \in Nat /\ Groups * GroupLen > 0
      /\ Groups * (GroupLen + 1) = Groups * GroupLen + Groups
  BY <1>2, <1>3
<1> QED BY <1>2, <1>3, <1>4, <1>5 DEF Sizes, KeyLetters, StandardLen, Dash

\* A filling that there is, is one.
LEMMA FillingFills ==
  ASSUME NEW space, NEW letters, \E f \in 1..Letters : FilledUp(space, f, letters)
  PROVE  Filling(space, letters) \in 1..Letters /\ FilledUp(space, Filling(space, letters), letters)
BY DEF Filling

\* A string of a length over the digits of a base.
IsString(s, len, b) == s \in Seq(0..b - 1) /\ Len(s) = len

\* A number in letters has as many as it should, and is read back.
LEMMA LettersRead ==
  ASSUME NEW n \in Nat, NEW space \in Nat, n < space, NEW letters \in Nat,
         \E f \in 1..Letters : FilledUp(space, f, letters)
  PROVE  /\ IsString(EncodeLetters(n, space, letters), letters, Letters)
         /\ DecodeLetters(EncodeLetters(n, space, letters), space) = n
<1> DEFINE f == Filling(space, letters)
<1>1. Letters \in Nat /\ Letters > 0
  BY SizesHold DEF Sizes
<1>2. f \in 1..Letters /\ Fits(space * f - 1, Letters, letters)
  BY FillingFills DEF FilledUp
<1> HIDE DEF f
<1>3. f \in Nat /\ f > 0
  BY <1>1, <1>2
<1>4. n * f \in Nat /\ space * f - 1 \in Nat /\ n * f <= space * f - 1
  <2>1. f * (n + 1) <= f * space
    BY <1>3, ProductGrows
  <2>2. f * (n + 1) = n * f + f /\ f * space = space * f /\ n * f \in Nat /\ space * f \in Nat
    BY <1>3
  <2> QED BY <2>1, <2>2, <1>3
<1>5. Fits(n * f, Letters, letters)
  BY <1>1, <1>2, <1>4, SmallerFits
<1>6. EncodeLetters(n, space, letters) = Fixed(n * f, Letters, letters)
  BY <1>4, <1>1, <1>5, DigitsThatFit DEF EncodeLetters, f
<1>7. IsString(Fixed(n * f, Letters, letters), letters, Letters)
  BY <1>4, <1>1, FixedType DEF IsString
<1>8. ValueOf(Fixed(n * f, Letters, letters), Letters) = n * f
  BY <1>4, <1>1, <1>5, FixedRead
<1>9. (n * f) \div f = n
  <2>1. (f * n + 0) \div f = n
    BY <1>3, DivModUnique
  <2>2. f * n + 0 = n * f
    BY <1>3
  <2> QED BY <2>1, <2>2
<1> QED BY <1>6, <1>7, <1>8, <1>9 DEF DecodeLetters, IsString, f

\* The digits of a base are digits of every larger one.
LEMMA SmallerDigits ==
  ASSUME NEW s, NEW len, NEW b \in Nat, NEW c \in Nat, b <= c, IsString(s, len, b)
  PROVE  /\ s \in Seq(0..c - 1) /\ s \in Seq(Nat) /\ Len(s) = len
         /\ \A i \in 1..len : s[i] \in Nat /\ s[i] < c
BY DEF IsString

\* An ID in the compact form, with or without something behind it that makes it
\* no longer one.
LEMMA CompactRead ==
  ASSUME NEW k \in 0..KeySpace - 1
  PROVE  /\ IsString(EncodeBase63(k), CompactLen, Base)
         /\ ValueOf(EncodeBase63(k), Base) = k
         /\ DecodeBase63(EncodeBase63(k)) = k
<1>1. Base \in Nat /\ Base > 0 /\ CompactLen \in Nat /\ KeySpace \in Nat /\ KeySpace > 0
  BY SizesHold DEF Sizes
<1>2. k \in Nat /\ KeySpace - 1 \in Nat /\ k <= KeySpace - 1 /\ k < KeySpace
  BY <1>1
<1>3. Fits(KeySpace - 1, Base, CompactLen)
  BY DeviceIDAssumption DEF DeviceIDAssumption
<1>4. Fits(k, Base, CompactLen)
  BY <1>1, <1>2, <1>3, SmallerFits
<1>5. EncodeBase63(k) = Fixed(k, Base, CompactLen)
  BY <1>1, <1>2, <1>4, DigitsThatFit DEF EncodeBase63
<1>6. IsString(EncodeBase63(k), CompactLen, Base)
  BY <1>1, <1>2, <1>5, FixedType DEF IsString
<1>7. ValueOf(EncodeBase63(k), Base) = k
  BY <1>1, <1>2, <1>4, <1>5, FixedRead
<1>8. Decodable(EncodeBase63(k), Base)
  BY <1>6, <1>1 DEF Decodable, IsString
<1>9. Len(EncodeBase63(k)) = CompactLen
  BY <1>6 DEF IsString
<1> QED BY <1>2, <1>6, <1>7, <1>8, <1>9 DEF DecodeBase63
-----------------------------------------------------------------------------
(* The groups of the standard form and their check digits. *)

\* A string whose characters are all of a set.
LEMMA Narrower ==
  ASSUME NEW S, NEW s \in Seq(Nat), \A i \in 1..Len(s) : s[i] \in S
  PROVE  s \in Seq(S)
<1> DEFINE n == Len(s)
<1>1. n \in Nat /\ s \in [1..n -> Nat] /\ DOMAIN s = 1..n
  BY LenProperties
<1>2. \A i \in 1..n : s[i] \in S
  OBVIOUS
<1> HIDE DEF n
<1>3. s \in [1..n -> S]
  BY <1>1, <1>2
<1> QED BY <1>1, <1>3

\* A check digit is a letter.
LEMMA CheckDigitType ==
  ASSUME NEW c \in Seq(Nat)
  PROVE  /\ Addends(c) \in Seq(Nat) /\ Len(Addends(c)) = Len(c)
         /\ \A i \in 1..Len(c) : Addends(c)[i] = Addend(IF i % 2 = 1 THEN 1 ELSE 2, c[i])
         /\ CheckDigit(c) \in Nat /\ CheckDigit(c) < Letters
<1>1. Letters \in Nat /\ Letters > 0
  BY SizesHold DEF Sizes
<1>2. ASSUME NEW f \in {1, 2}, NEW x \in Nat PROVE Addend(f, x) \in Nat
  <2>1. f * x \in Nat
    OBVIOUS
  <2>2. (f * x) \div Letters \in Nat /\ (f * x) % Letters \in Nat
    BY <1>1, <2>1, DivMod
  <2> QED BY <2>2 DEF Addend
<1> DEFINE m == Len(c)
<1>3. m \in Nat /\ DOMAIN c = 1..m /\ \A i \in 1..m : c[i] \in Nat
  OBVIOUS
<1> HIDE DEF m
<1>4. Addends(c) = [i \in 1..m |-> Addend(IF i % 2 = 1 THEN 1 ELSE 2, c[i])]
  BY <1>3 DEF Addends
<1>5. \A i \in 1..m : Addend(IF i % 2 = 1 THEN 1 ELSE 2, c[i]) \in Nat
  BY <1>2, <1>3
<1>6. Addends(c) \in Seq(Nat) /\ Len(Addends(c)) = m
  BY <1>3, <1>4, <1>5
<1>7. \A i \in 1..m : Addends(c)[i] = Addend(IF i % 2 = 1 THEN 1 ELSE 2, c[i])
  BY <1>4
<1>8. Total(Addends(c)) \in Nat
  BY <1>6, TotalType
<1> DEFINE x == Total(Addends(c))
           r == x % Letters
           d == Letters - r
<1>9. r \in Nat /\ r < Letters
  BY <1>1, <1>8, DivMod
<1>10. CheckDigit(c) = d % Letters
  <2>1. CheckDigit(c) = (Letters - (x % Letters)) % Letters
    BY <1>6 DEF CheckDigit, Total, m
  <2> QED BY <2>1
<1>11. d \in Nat
  <2> HIDE DEF r
  <2> QED BY <1>1, <1>9
<1> HIDE DEF d
<1>12. CheckDigit(c) \in Nat /\ CheckDigit(c) < Letters
  BY <1>1, <1>10, <1>11, DivMod
<1> QED BY <1>6, <1>7, <1>12 DEF m

\* A group, seen from the whole.
Grouped(s, g) ==
  /\ Front(Group(s, g)) \in Seq(Nat) /\ Len(Front(Group(s, g))) = GroupLen
  /\ \A i \in 1..GroupLen : Front(Group(s, g))[i] = s[(g - 1) * (GroupLen + 1) + i]
  /\ Last(Group(s, g)) = s[(g - 1) * (GroupLen + 1) + (GroupLen + 1)]
  /\ Group(s, g) \in Seq(Nat) /\ Len(Group(s, g)) = GroupLen + 1
  /\ \A i \in 1..GroupLen + 1 : Group(s, g)[i] = s[(g - 1) * (GroupLen + 1) + i]

\* The groups of a standard ID, character by character.
LEMMA GroupsOf ==
  ASSUME NEW s \in Seq(Nat), StandardLen <= Len(s), NEW g \in 1..Groups
  PROVE  Grouped(s, g)
<1> DEFINE L == GroupLen + 1
           a == (g - 1) * L
           t == Group(s, g)
<1>1. GroupLen \in Nat /\ L \in Nat /\ L = GroupLen + 1 /\ Groups \in Nat /\ Groups * L = StandardLen
  BY SizesHold DEF Sizes
<1> HIDE DEF L
<1>2. a \in Nat /\ g * L = a + L /\ g * L \in Nat /\ a + L <= Groups * L
  BY <1>1, Slots
<1>3. t = SubSeq(s, a + 1, g * L)
  BY DEF Group, L
<1> HIDE DEF a
<1>4. IsPart(SubSeq(s, a + 1, g * L), s, a, g * L)
  <2>1. a <= g * L /\ g * L <= Len(s) /\ Len(s) \in Nat
    BY <1>1, <1>2
  <2> QED BY <1>2, <2>1, Cut
<1> HIDE DEF t
<1>5. t \in Seq(Nat) /\ Len(t) = L /\ \A i \in 1..L : t[i] = s[a + i]
  BY <1>1, <1>2, <1>3, <1>4 DEF IsPart
<1>6. IsPart(SubSeq(t, 0 + 1, GroupLen), t, 0, GroupLen)
  BY <1>1, <1>5, Cut
<1>7. Front(t) = SubSeq(t, 0 + 1, GroupLen)
  BY <1>1, <1>5 DEF Front
<1>8. Front(t) \in Seq(Nat) /\ Len(Front(t)) = GroupLen
  BY <1>1, <1>6, <1>7 DEF IsPart
<1>9. ASSUME NEW i \in 1..GroupLen PROVE Front(t)[i] = s[a + i]
  <2>1. SubSeq(t, 0 + 1, GroupLen)[i] = t[0 + i]
    BY <1>1, <1>6 DEF IsPart
  <2> QED BY <1>1, <1>5, <1>7, <2>1
<1>10. Last(t) = s[a + L]
  <2>1. Last(t) = t[L]
    BY <1>5 DEF Last
  <2>2. L \in 1..L
    BY <1>1
  <2> QED BY <1>5, <2>1, <2>2
<1> QED BY <1>5, <1>8, <1>9, <1>10 DEF Grouped, L, a, t

\* All check digits of s are right.
Sound(s) == \A g \in 1..Groups : Last(Group(s, g)) = CheckDigit(Front(Group(s, g)))

\* The standard form is sound and is read back.
LEMMA StandardRead ==
  ASSUME NEW k \in 0..KeySpace - 1
  PROVE  /\ IsString(StandardID(k), StandardLen, Letters)
         /\ Sound(StandardID(k)) /\ DecodeStandard(StandardID(k)) = k
<1> DEFINE e == EncodeLetters(k, KeySpace, KeyLetters)
           chunk(g) == SubSeq(e, (g - 1) * GroupLen + 1, g * GroupLen)
           parts == [g \in 1..Groups |-> Append(chunk(g), CheckDigit(chunk(g)))]
           s == StandardID(k)
           L == GroupLen + 1
<1>1. /\ Letters \in Nat /\ Letters > 0 /\ KeySpace \in Nat /\ KeySpace > 0 /\ KeyLetters \in Nat
      /\ Groups \in Nat /\ Groups > 0 /\ GroupLen \in Nat /\ GroupLen > 0
      /\ Groups * GroupLen = KeyLetters /\ L \in Nat /\ L = GroupLen + 1 /\ Groups * L = StandardLen
      /\ StandardLen \in Nat
  BY SizesHold DEF Sizes
<1>0. Groups \in Nat /\ Groups > 0 /\ L \in Nat /\ L > 0 /\ StandardLen \in Nat
  BY <1>1
<1> HIDE DEF L
<1>2. k \in Nat /\ k < KeySpace
  BY <1>1
<1>3. IsString(e, KeyLetters, Letters) /\ DecodeLetters(e, KeySpace) = k
  <2>1. \E f \in 1..Letters : FilledUp(KeySpace, f, KeyLetters)
    BY DeviceIDAssumption DEF DeviceIDAssumption
  <2> QED BY <1>1, <1>2, <2>1, LettersRead
<1>4. s = FlattenSeq(parts)
  BY DEF StandardID
<1> HIDE DEF e, s
<1>5. e \in Seq(Nat) /\ Len(e) = KeyLetters /\ \A i \in 1..KeyLetters : e[i] \in Nat /\ e[i] < Letters
  BY <1>1, <1>3, SmallerDigits
<1>6. ASSUME NEW g \in 1..Groups
      PROVE  /\ chunk(g) \in Seq(Nat) /\ Len(chunk(g)) = GroupLen
             /\ \A i \in 1..GroupLen : chunk(g)[i] \in Nat /\ chunk(g)[i] < Letters
  <2> DEFINE a == (g - 1) * GroupLen
  <2>1. a \in Nat /\ g * GroupLen = a + GroupLen /\ g * GroupLen \in Nat /\ a + GroupLen <= Groups * GroupLen
    BY <1>1, Slots
  <2>2. chunk(g) = SubSeq(e, a + 1, g * GroupLen)
    BY DEF a
  <2> HIDE DEF a, chunk
  <2>3. IsPart(SubSeq(e, a + 1, g * GroupLen), e, a, g * GroupLen)
    <3>1. a <= g * GroupLen /\ g * GroupLen <= Len(e)
      BY <1>1, <1>5, <2>1
    <3> QED BY <1>5, <2>1, <3>1, Cut
  <2>4. /\ chunk(g) \in Seq(Nat) /\ Len(chunk(g)) = GroupLen
        /\ \A i \in 1..GroupLen : chunk(g)[i] = e[a + i]
    BY <1>1, <2>1, <2>2, <2>3 DEF IsPart
  <2>5. ASSUME NEW i \in 1..GroupLen PROVE a + i \in 1..KeyLetters
    BY <1>1, <2>1
  <2> QED BY <1>5, <2>4, <2>5
<1> HIDE DEF chunk
<1>7. ASSUME NEW g \in 1..Groups
      PROVE  /\ parts[g] \in Seq(Nat) /\ Len(parts[g]) = L
             /\ \A i \in 1..GroupLen : parts[g][i] = chunk(g)[i]
             /\ parts[g][L] = CheckDigit(chunk(g))
             /\ \A i \in 1..L : parts[g][i] \in 0..Letters - 1
  <2>1. CheckDigit(chunk(g)) \in Nat /\ CheckDigit(chunk(g)) < Letters
    BY <1>6, CheckDigitType
  <2>2. parts[g] = Append(chunk(g), CheckDigit(chunk(g)))
    OBVIOUS
  <2> HIDE DEF parts
  <2>3. /\ parts[g] \in Seq(Nat) /\ Len(parts[g]) = L
        /\ \A i \in 1..GroupLen : parts[g][i] = chunk(g)[i]
        /\ parts[g][L] = CheckDigit(chunk(g))
    BY <1>1, <1>6, <2>1, <2>2, AppendProperties
  <2>4. ASSUME NEW i \in 1..L PROVE parts[g][i] \in 0..Letters - 1
    <3>1. CASE i \in 1..GroupLen
      <4>1. chunk(g)[i] \in Nat /\ chunk(g)[i] < Letters
        BY <1>6, <3>1
      <4>2. parts[g][i] = chunk(g)[i]
        BY <2>3, <3>1
      <4> QED BY <1>1, <4>1, <4>2
    <3>2. CASE i = L
      <4>1. parts[g][i] = CheckDigit(chunk(g))
        BY <2>3, <3>2
      <4> QED BY <1>1, <2>1, <4>1
    <3> QED BY <1>1, <3>1, <3>2
  <2> QED BY <2>3, <2>4
<1>8. parts \in [1..Groups -> Seq(Nat)]
  <2>1. parts = [g \in 1..Groups |-> parts[g]]
    OBVIOUS
  <2> HIDE DEF parts
  <2> QED BY <1>7, <2>1
<1> HIDE DEF parts
<1>9. /\ s \in Seq(Nat) /\ Len(s) = Groups * L
      /\ \A g \in 1..Groups : \A i \in 1..L : s[(g - 1) * L + i] = parts[g][i]
  <2>1. \A g \in 1..Groups : Len(parts[g]) = L
    BY <1>7
  <2> QED BY <1>0, <1>4, <1>8, <2>1, FlattenEven, ZenonT(40)
<1>10. ASSUME NEW p \in 1..Groups * L PROVE s[p] \in 0..Letters - 1
  <2>1. PICK g \in 1..Groups, i \in 1..L : p = (g - 1) * L + i
    BY <1>0, SlotOf
  <2> QED BY <1>7, <1>9, <2>1
<1>11. IsString(s, StandardLen, Letters)
  <2>1. \A p \in 1..Len(s) : s[p] \in 0..Letters - 1
    BY <1>1, <1>9, <1>10
  <2>2. s \in Seq(0..Letters - 1)
    BY <1>9, <2>1, Narrower
  <2> QED BY <1>1, <1>9, <2>2 DEF IsString
<1>12. ASSUME NEW g \in 1..Groups
       PROVE Front(Group(s, g)) = chunk(g) /\ Last(Group(s, g)) = CheckDigit(chunk(g))
  <2>1. Grouped(s, g)
    <3>1. StandardLen <= Len(s)
      BY <1>1, <1>9
    <3> QED BY <1>9, <3>1, GroupsOf
  <2>2. /\ Front(Group(s, g)) \in Seq(Nat) /\ Len(Front(Group(s, g))) = GroupLen
        /\ \A i \in 1..GroupLen : Front(Group(s, g))[i] = s[(g - 1) * L + i]
        /\ Last(Group(s, g)) = s[(g - 1) * L + L]
    BY <2>1 DEF Grouped, L
  <2>3. \A i \in 1..GroupLen : Front(Group(s, g))[i] = chunk(g)[i]
    <3>1. ASSUME NEW i \in 1..GroupLen PROVE Front(Group(s, g))[i] = chunk(g)[i]
      <4>1. i \in 1..L
        BY <1>1
      <4> QED BY <1>7, <1>9, <2>2, <4>1
    <3> QED BY <3>1
  <2>4. Front(Group(s, g)) = chunk(g)
    BY <1>6, <2>2, <2>3, SeqEqual
  <2>5. L \in 1..L
    BY <1>1
  <2> QED BY <1>7, <1>9, <2>2, <2>4, <2>5
<1>13. Sound(s)
  BY <1>12 DEF Sound
<1>14. DecodeStandard(s) = DecodeLetters(FlattenSeq([g \in 1..Groups |-> Front(Group(s, g))]), KeySpace)
  BY <1>13 DEF Sound, DecodeStandard
<1>15. [g \in 1..Groups |-> Front(Group(s, g))] = [g \in 1..Groups |-> chunk(g)]
  BY <1>12
<1>16. FlattenSeq([g \in 1..Groups |-> chunk(g)]) = e
  <2>1. Len(e) = Groups * GroupLen
    BY <1>1, <1>5
  <2>2. FlattenSeq([g \in 1..Groups |-> SubSeq(e, (g - 1) * GroupLen + 1, g * GroupLen)]) = e
    BY <1>1, <1>5, <2>1, FlattenWhole
  <2> QED BY <2>2 DEF chunk
<1> QED BY <1>3, <1>11, <1>13, <1>14, <1>15, <1>16 DEF s
-----------------------------------------------------------------------------
(* What the check digits notice. *)

Half == Letters \div 2
\* What the check digits add for every second letter.
Twice(x) == IF x < Half THEN 2 * x ELSE 2 * x - Letters + 1

\* The alphabet has an even number of letters.
LEMMA HalfOfLetters == Half \in Nat /\ Half > 0 /\ Letters = 2 * Half /\ Letters \in Nat
<1>1. Letters \in Nat /\ Letters > 0
  BY SizesHold DEF Sizes
<1>2. Letters % 2 = 0
  BY DeviceIDAssumption DEF DeviceIDAssumption
<1>3. Half \in Nat /\ Letters = 2 * Half + (Letters % 2)
  BY <1>1, DivMod DEF Half
<1> QED BY <1>1, <1>2, <1>3

\* A letter that counts once adds itself, one that counts twice its double or, when
\* that has two digits, their sum.
LEMMA AddendOf ==
  ASSUME NEW x \in Nat, x < Letters
  PROVE  Addend(1, x) = x /\ Addend(2, x) = Twice(x)
<1>1. Half \in Nat /\ Half > 0 /\ Letters = 2 * Half /\ Letters \in Nat /\ Letters > 0
  BY HalfOfLetters
<1>2. Addend(1, x) = x
  <2>1. 1 * x = x
    OBVIOUS
  <2>2. x \div Letters = 0 /\ x % Letters = x
    BY <1>1, SmallNumber
  <2> QED BY <2>1, <2>2 DEF Addend
<1>3. CASE x < Half
  <2>1. 2 * x \in Nat /\ 2 * x < Letters
    BY <1>1, <1>3
  <2> DEFINE d == 2 * x
  <2>2. d \div Letters = 0 /\ d % Letters = d
    BY <1>1, <2>1, SmallNumber
  <2>3. Addend(2, x) = d
    BY <2>1, <2>2 DEF Addend
  <2> QED BY <1>2, <1>3, <2>3 DEF Twice
<1>4. CASE ~(x < Half)
  <2> DEFINE r == 2 * x - Letters
  <2>1. r \in Nat /\ r < Letters /\ 2 * x = Letters * 1 + r
    BY <1>1, <1>4
  <2> HIDE DEF r
  <2>2. (Letters * 1 + r) \div Letters = 1 /\ (Letters * 1 + r) % Letters = r
    BY <1>1, <2>1, DivModUnique
  <2>3. Addend(2, x) = 1 + r
    BY <2>1, <2>2 DEF Addend
  <2>4. 1 + r = 2 * x - Letters + 1
    BY <1>1 DEF r
  <2> QED BY <1>2, <1>4, <2>3, <2>4 DEF Twice
<1> QED BY <1>3, <1>4

\* What different letters add is different, but by less than a turn of the alphabet.
LEMMA AddendsApart ==
  ASSUME NEW x \in Nat, x < Letters, NEW y \in Nat, y < Letters, x # y
  PROVE  /\ Twice(x) \in Nat /\ Twice(y) \in Nat /\ Twice(x) < Letters /\ Twice(y) < Letters
         /\ Twice(x) # Twice(y)
BY HalfOfLetters DEF Twice

\* Counting one of two letters twice instead of the other makes as small a difference,
\* which is none only for the first and the last letter of the alphabet.
LEMMA TwiceOfTwo ==
  ASSUME NEW x \in Nat, x < Letters, NEW y \in Nat, y < Letters, x # y, {x, y} # {0, Letters - 1}
  PROVE  /\ x + Twice(y) # y + Twice(x)
         /\ x + Twice(y) < y + Twice(x) + Letters
         /\ y + Twice(x) < x + Twice(y) + Letters
<1>1. ~(x = 0 /\ y = Letters - 1) /\ ~(y = 0 /\ x = Letters - 1)
  OBVIOUS
<1>2. Half \in Nat /\ Half > 0 /\ Letters = 2 * Half
  BY HalfOfLetters
<1> QED BY <1>1, <1>2 DEF Twice

\* The letters of a chunk, as the check digit counts them.
LEMMA AddendsAre ==
  ASSUME NEW c \in Seq(Nat), NEW i \in 1..Len(c), c[i] < Letters
  PROVE  Addends(c)[i] = IF i % 2 = 1 THEN c[i] ELSE Twice(c[i])
<1>1. c[i] \in Nat
  OBVIOUS
<1>2. Addends(c)[i] = Addend(IF i % 2 = 1 THEN 1 ELSE 2, c[i])
  BY CheckDigitType
<1>3. CASE i % 2 = 1
  BY <1>1, <1>2, <1>3, AddendOf
<1>4. CASE i % 2 # 1
  BY <1>1, <1>2, <1>4, AddendOf
<1> QED BY <1>3, <1>4

\* A chunk with one wrong letter has another check digit.
LEMMA WrongInChunk ==
  ASSUME NEW c \in Seq(Nat), NEW d \in Seq(Nat), Len(c) = Len(d), NEW j \in 1..Len(c),
         c[j] < Letters, d[j] < Letters, c[j] # d[j],
         \A i \in 1..Len(c) : i # j => c[i] = d[i]
  PROVE  CheckDigit(c) # CheckDigit(d)
<1> DEFINE a == Addends(c)
           b == Addends(d)
<1>1. a \in Seq(Nat) /\ Len(a) = Len(c) /\ b \in Seq(Nat) /\ Len(b) = Len(c)
  BY CheckDigitType
<1>2. ASSUME NEW i \in 1..Len(c), i # j PROVE a[i] = b[i]
  <2>1. c[i] = d[i] /\ i \in 1..Len(d)
    BY <1>2
  <2>2. a[i] = Addend(IF i % 2 = 1 THEN 1 ELSE 2, c[i])
    BY CheckDigitType
  <2>3. b[i] = Addend(IF i % 2 = 1 THEN 1 ELSE 2, d[i])
    BY <2>1, CheckDigitType
  <2> QED BY <2>1, <2>2, <2>3
<1>3. c[j] \in Nat /\ d[j] \in Nat /\ j \in 1..Len(d)
  OBVIOUS
<1>4. /\ a[j] = IF j % 2 = 1 THEN c[j] ELSE Twice(c[j])
      /\ b[j] = IF j % 2 = 1 THEN d[j] ELSE Twice(d[j])
  BY <1>3, AddendsAre
<1>5. /\ Twice(c[j]) \in Nat /\ Twice(d[j]) \in Nat /\ Twice(c[j]) < Letters /\ Twice(d[j]) < Letters
      /\ Twice(c[j]) # Twice(d[j])
  BY <1>3, AddendsApart
<1>6. a[j] \in Nat /\ b[j] \in Nat /\ a[j] < Letters /\ b[j] < Letters /\ a[j] # b[j]
  BY <1>3, <1>4, <1>5
<1>7. Total(a) \in Nat /\ Total(b) \in Nat
  BY <1>1, TotalType
<1> HIDE DEF a, b
<1>8. Total(a) + b[j] = Total(b) + a[j]
  <2>1. j \in 1..Len(a) /\ Len(a) = Len(b) /\ \A i \in 1..Len(a) : i # j => a[i] = b[i]
    BY <1>1, <1>2
  <2> QED BY <1>1, <2>1, TotalChanged
<1>9. Letters \in Nat /\ Letters > 0
  BY HalfOfLetters
<1>10. Total(a) # Total(b) /\ Total(a) < Total(b) + Letters /\ Total(b) < Total(a) + Letters
  <2> DEFINE p == a[j]
             q == b[j]
             u == Total(a)
             v == Total(b)
  <2>1. /\ p \in Nat /\ q \in Nat /\ p < Letters /\ q < Letters /\ p # q
        /\ u \in Nat /\ v \in Nat /\ u + q = v + p /\ Letters \in Nat
    BY <1>6, <1>7, <1>8, <1>9
  <2> HIDE DEF p, q, u, v
  <2>2. u # v /\ u < v + Letters /\ v < u + Letters
    BY <2>1
  <2> QED BY <2>2 DEF u, v
<1> QED BY <1>1, <1>9, <1>10, CheckDiffers DEF a, b
\* The factors of neighbours differ (identity.go:386-398).
LEMMA ParityTurns ==
  ASSUME NEW j \in Nat
  PROVE  (j + 1) % 2 = 1 <=> ~(j % 2 = 1)
<1> DEFINE q == j \div 2
           r == j % 2
           u == (j + 1) \div 2
           v == (j + 1) % 2
<1>1. q \in Nat /\ r \in Nat /\ r < 2 /\ j = 2 * q + r
  BY DivMod
<1>2. u \in Nat /\ v \in Nat /\ v < 2 /\ j + 1 = 2 * u + v
  BY DivMod
<1> HIDE DEF q, r, u, v
<1>3. v = 1 <=> ~(r = 1)
  BY <1>1, <1>2
<1> QED BY <1>3 DEF r, v

\* So has one in which two neighbours have changed places.
LEMMA SwappedInChunk ==
  ASSUME NEW c \in Seq(Nat), NEW d \in Seq(Nat), Len(c) = Len(d),
         NEW j \in 1..Len(c), j + 1 \in 1..Len(c),
         c[j] < Letters, c[j + 1] < Letters, d[j] = c[j + 1], d[j + 1] = c[j],
         c[j] # c[j + 1], {c[j], c[j + 1]} # {0, Letters - 1},
         \A i \in 1..Len(c) : i # j /\ i # j + 1 => c[i] = d[i]
  PROVE  CheckDigit(c) # CheckDigit(d)
<1> DEFINE m == [c EXCEPT ![j] = c[j + 1]]
           x == c[j]
           y == c[j + 1]
           a == Addends(c)
           e == Addends(m)
           b == Addends(d)
           n == Len(c)
           odd(i) == i % 2 = 1
<1>1. x \in Nat /\ y \in Nat /\ n \in Nat /\ j \in Nat /\ x < Letters /\ y < Letters
  OBVIOUS
<1>2. /\ m \in Seq(Nat) /\ Len(m) = n
      /\ \A i \in 1..n : m[i] = IF i = j THEN y ELSE c[i]
  BY ExceptSeq
<1>3. m[j] = y /\ m[j + 1] = y /\ d[j] = y /\ d[j + 1] = x
  BY <1>1, <1>2
<1> HIDE DEF m
<1>4. a \in Seq(Nat) /\ Len(a) = n /\ e \in Seq(Nat) /\ Len(e) = n /\ b \in Seq(Nat) /\ Len(b) = n
  BY <1>2, CheckDigitType
<1>5. ASSUME NEW i \in 1..n, i # j PROVE a[i] = e[i]
  <2>1. c[i] = m[i] /\ i \in 1..Len(m)
    BY <1>2, <1>5
  <2>2. a[i] = Addend(IF i % 2 = 1 THEN 1 ELSE 2, c[i])
    BY CheckDigitType
  <2>3. e[i] = Addend(IF i % 2 = 1 THEN 1 ELSE 2, m[i])
    BY <1>2, <2>1, CheckDigitType
  <2> QED BY <2>1, <2>2, <2>3
<1>6. ASSUME NEW i \in 1..n, i # j + 1 PROVE e[i] = b[i]
  <2>1. m[i] = d[i] /\ i \in 1..Len(m) /\ i \in 1..Len(d)
    <3>1. CASE i = j
      BY <1>2, <1>3, <3>1
    <3>2. CASE i # j
      BY <1>2, <1>6, <3>2
    <3> QED BY <3>1, <3>2
  <2>2. e[i] = Addend(IF i % 2 = 1 THEN 1 ELSE 2, m[i])
    BY <1>2, <2>1, CheckDigitType
  <2>3. b[i] = Addend(IF i % 2 = 1 THEN 1 ELSE 2, d[i])
    BY <2>1, CheckDigitType
  <2> QED BY <2>1, <2>2, <2>3
<1>7. /\ a[j] = IF odd(j) THEN x ELSE Twice(x)
      /\ e[j] = IF odd(j) THEN y ELSE Twice(y)
      /\ e[j + 1] = IF odd(j + 1) THEN y ELSE Twice(y)
      /\ b[j + 1] = IF odd(j + 1) THEN x ELSE Twice(x)
  <2>1. j \in 1..Len(m) /\ j + 1 \in 1..Len(m) /\ j + 1 \in 1..Len(d)
    BY <1>2
  <2>2. m[j] < Letters /\ m[j + 1] < Letters /\ d[j + 1] < Letters
    BY <1>1, <1>3
  <2>3. a[j] = IF j % 2 = 1 THEN c[j] ELSE Twice(c[j])
    BY AddendsAre
  <2>4. e[j] = IF j % 2 = 1 THEN m[j] ELSE Twice(m[j])
    BY <1>2, <2>1, <2>2, AddendsAre
  <2>5. e[j + 1] = IF (j + 1) % 2 = 1 THEN m[j + 1] ELSE Twice(m[j + 1])
    BY <1>2, <2>1, <2>2, AddendsAre
  <2>6. b[j + 1] = IF (j + 1) % 2 = 1 THEN d[j + 1] ELSE Twice(d[j + 1])
    BY <2>1, <2>2, AddendsAre
  <2> QED BY <1>3, <2>3, <2>4, <2>5, <2>6
<1>8. odd(j + 1) <=> ~odd(j)
  BY <1>1, ParityTurns
<1> HIDE DEF a, e, b
<1>9. Total(a) + e[j] = Total(e) + a[j]
  <2>1. j \in 1..Len(a) /\ Len(a) = Len(e) /\ \A i \in 1..Len(a) : i # j => a[i] = e[i]
    BY <1>4, <1>5
  <2> QED BY <1>4, <2>1, TotalChanged
<1>10. Total(e) + b[j + 1] = Total(b) + e[j + 1]
  <2>1. j + 1 \in 1..Len(e) /\ Len(e) = Len(b) /\ \A i \in 1..Len(e) : i # j + 1 => e[i] = b[i]
    BY <1>4, <1>6
  <2> QED BY <1>4, <2>1, TotalChanged
<1>11. Total(a) \in Nat /\ Total(b) \in Nat /\ Total(e) \in Nat
  BY <1>4, TotalType
<1>12. Letters \in Nat /\ Letters > 0
  BY HalfOfLetters
<1>13. /\ Twice(x) \in Nat /\ Twice(y) \in Nat
       /\ x + Twice(y) # y + Twice(x)
       /\ x + Twice(y) < y + Twice(x) + Letters
       /\ y + Twice(x) < x + Twice(y) + Letters
  BY <1>1, AddendsApart, TwiceOfTwo
<1>14. Total(a) # Total(b) /\ Total(a) < Total(b) + Letters /\ Total(b) < Total(a) + Letters
  <2> DEFINE t == Total(a)
             u == Total(b)
             v == Total(e)
             xx == Twice(x)
             yy == Twice(y)
  <2>1. \/ t + y = v + x /\ v + xx = u + yy
        \/ t + yy = v + xx /\ v + x = u + y
    BY <1>7, <1>8, <1>9, <1>10
  <2>2. /\ t \in Nat /\ u \in Nat /\ v \in Nat /\ xx \in Nat /\ yy \in Nat
        /\ x + yy # y + xx /\ x + yy < y + xx + Letters /\ y + xx < x + yy + Letters
    BY <1>11, <1>13
  <2> HIDE DEF t, u, v, x, y, xx, yy
  <2>3. t # u /\ t < u + Letters /\ u < t + Letters
    BY <1>1, <1>12, <2>1, <2>2
  <2> QED BY <2>3 DEF t, u
<1> QED BY <1>4, <1>12, <1>14, CheckDiffers DEF a, b

\* Where a position of the standard form is: in which group, and which place of it.
LEMMA PlaceOf ==
  ASSUME NEW p \in 1..StandardLen
  PROVE  \E g \in 1..Groups, i \in 1..GroupLen + 1 :
           /\ p = (g - 1) * (GroupLen + 1) + i
           /\ p % (GroupLen + 1) = IF i = GroupLen + 1 THEN 0 ELSE i
<1> DEFINE L == GroupLen + 1
<1>1. L \in Nat /\ L > 0 /\ Groups \in Nat /\ Groups * L = StandardLen
  BY SizesHold DEF Sizes
<1> HIDE DEF L
<1>2. PICK g \in 1..Groups, i \in 1..L : p = (g - 1) * L + i
  BY <1>1, SlotOf
<1>3. (g - 1) * L \in Nat /\ g * L \in Nat /\ g * L = (g - 1) * L + L /\ g - 1 \in Nat /\ g \in Nat
  BY <1>1, <1>2, Slots
<1>4. p % L = IF i = L THEN 0 ELSE i
  <2>1. CASE i = L
    <3>1. (L * g + 0) % L = 0
      BY <1>1, <1>3, DivModUnique
    <3>2. L * g = g * L
      BY <1>1, <1>3
    <3> DEFINE z == (g - 1) * L
               w == g * L
    <3>3. w + 0 = p
      <4>1. p = z + i /\ w = z + L /\ z \in Nat /\ w \in Nat
        BY <1>2, <1>3
      <4> HIDE DEF z, w
      <4> QED BY <2>1, <4>1, <1>1
    <3> QED BY <2>1, <3>1, <3>2, <3>3
  <2>2. CASE i # L
    <3>1. i \in Nat /\ i < L
      BY <1>1, <2>2
    <3>2. (L * (g - 1) + i) % L = i
      BY <1>1, <1>3, <3>1, DivModUnique
    <3>3. L * (g - 1) = (g - 1) * L
      BY <1>1, <1>3
    <3> QED BY <1>2, <2>2, <3>2, <3>3
  <2> QED BY <2>1, <2>2
<1> QED BY <1>2, <1>4 DEF L
\* The positions of a group.
LEMMA GroupPlaces ==
  ASSUME NEW g \in 1..Groups
  PROVE  /\ (g - 1) * (GroupLen + 1) \in Nat /\ GroupLen \in Nat /\ GroupLen > 0
         /\ \A i \in 1..GroupLen + 1 : (g - 1) * (GroupLen + 1) + i \in 1..StandardLen
<1> DEFINE L == GroupLen + 1
           a == (g - 1) * L
<1>1. GroupLen \in Nat /\ GroupLen > 0 /\ L \in Nat /\ Groups \in Nat /\ Groups * L = StandardLen /\ StandardLen \in Nat
  BY SizesHold DEF Sizes
<1> HIDE DEF L
<1>2. a \in Nat /\ a + L <= Groups * L
  BY <1>1, Slots
<1> HIDE DEF a
<1>3. \A i \in 1..L : a + i \in 1..StandardLen
  BY <1>1, <1>2
<1> QED BY <1>1, <1>2, <1>3 DEF a, L

\* A wrong letter anywhere is noticed.
LEMMA WrongLetter ==
  ASSUME NEW s, NEW u, IsString(s, StandardLen, Letters), IsString(u, StandardLen, Letters), Sound(s),
         NEW p \in 1..StandardLen, s[p] # u[p], \A q \in 1..StandardLen : q # p => s[q] = u[q]
  PROVE  ~Sound(u)
<1>0. Letters \in Nat /\ StandardLen \in Nat
  BY SizesHold DEF Sizes
<1>1. /\ s \in Seq(Nat) /\ Len(s) = StandardLen /\ \A q \in 1..StandardLen : s[q] < Letters
      /\ u \in Seq(Nat) /\ Len(u) = StandardLen /\ \A q \in 1..StandardLen : u[q] < Letters
  BY <1>0, SmallerDigits, SMTT(30)
<1>2. PICK g \in 1..Groups, i \in 1..GroupLen + 1 : p = (g - 1) * (GroupLen + 1) + i
  BY PlaceOf
<1> DEFINE a == (g - 1) * (GroupLen + 1)
           c == Front(Group(s, g))
           d == Front(Group(u, g))
<1>3. a \in Nat /\ GroupLen \in Nat /\ GroupLen > 0 /\ \A j \in 1..GroupLen + 1 : a + j \in 1..StandardLen
  BY GroupPlaces
<1>4. Grouped(s, g) /\ Grouped(u, g)
  BY <1>0, <1>1, GroupsOf
<1>5. /\ c \in Seq(Nat) /\ Len(c) = GroupLen /\ \A j \in 1..GroupLen : c[j] = s[a + j]
      /\ d \in Seq(Nat) /\ Len(d) = GroupLen /\ \A j \in 1..GroupLen : d[j] = u[a + j]
      /\ Last(Group(s, g)) = s[a + (GroupLen + 1)] /\ Last(Group(u, g)) = u[a + (GroupLen + 1)]
  BY <1>4 DEF Grouped
<1>6. p = a + i
  BY <1>2
<1>7. Last(Group(s, g)) = CheckDigit(c)
  BY DEF Sound
<1> HIDE DEF a, c, d
<1>8. CheckDigit(d) # Last(Group(u, g))
  <2>1. CASE i = GroupLen + 1
    <3>1. \A j \in 1..GroupLen : c[j] = d[j]
      <4>1. ASSUME NEW j \in 1..GroupLen PROVE c[j] = d[j]
        <5>1. a + j \in 1..StandardLen /\ a + j # p
          BY <1>3, <1>6, <2>1
        <5> QED BY <1>5, <5>1
      <4> QED BY <4>1
    <3>2. c = d
      BY <1>5, <3>1, SeqEqual
    <3> QED BY <1>5, <1>6, <1>7, <2>1, <3>2
  <2>2. CASE i # GroupLen + 1
    <3>1. i \in 1..GroupLen
      BY <1>3, <2>2
    <3>2. \A j \in 1..GroupLen : j # i => c[j] = d[j]
      <4>1. ASSUME NEW j \in 1..GroupLen, j # i PROVE c[j] = d[j]
        <5>1. a + j \in 1..StandardLen /\ a + j # p
          BY <1>3, <1>6, <4>1
        <5> QED BY <1>5, <5>1
      <4> QED BY <4>1
    <3>3. c[i] # d[i] /\ c[i] < Letters /\ d[i] < Letters
      BY <1>1, <1>5, <1>6, <3>1
    <3>4. CheckDigit(c) # CheckDigit(d)
      BY <1>5, <3>1, <3>2, <3>3, WrongInChunk
    <3>5. a + (GroupLen + 1) \in 1..StandardLen /\ a + (GroupLen + 1) # p
      BY <1>3, <1>6, <3>1
    <3>6. Last(Group(s, g)) = Last(Group(u, g))
      BY <1>5, <3>5
    <3> QED BY <1>7, <3>4, <3>6
  <2> QED BY <2>1, <2>2
<1> QED BY <1>8 DEF Sound, d

\* So are two neighbours in the wrong order, if they are letters of one chunk that
\* are not the first and the last of the alphabet.
LEMMA SwappedLetters ==
  ASSUME NEW s, NEW u, IsString(s, StandardLen, Letters), IsString(u, StandardLen, Letters), Sound(s),
         NEW p \in 1..StandardLen, p + 1 \in 1..StandardLen,
         p % (GroupLen + 1) # 0, p % (GroupLen + 1) # GroupLen,
         u[p] = s[p + 1], u[p + 1] = s[p], s[p] # s[p + 1], {s[p], s[p + 1]} # {0, Letters - 1},
         \A q \in 1..StandardLen : q # p /\ q # p + 1 => s[q] = u[q]
  PROVE  ~Sound(u)
<1>0. Letters \in Nat /\ StandardLen \in Nat
  BY SizesHold DEF Sizes
<1>1. /\ s \in Seq(Nat) /\ Len(s) = StandardLen /\ \A q \in 1..StandardLen : s[q] < Letters
      /\ u \in Seq(Nat) /\ Len(u) = StandardLen
  BY <1>0, SmallerDigits, SMTT(30)
<1>2. PICK g \in 1..Groups, i \in 1..GroupLen + 1 :
        /\ p = (g - 1) * (GroupLen + 1) + i
        /\ p % (GroupLen + 1) = IF i = GroupLen + 1 THEN 0 ELSE i
  BY PlaceOf
<1> DEFINE a == (g - 1) * (GroupLen + 1)
           c == Front(Group(s, g))
           d == Front(Group(u, g))
<1>3. a \in Nat /\ GroupLen \in Nat /\ GroupLen > 0 /\ \A j \in 1..GroupLen + 1 : a + j \in 1..StandardLen
  BY GroupPlaces
<1>4. Grouped(s, g) /\ Grouped(u, g)
  BY <1>0, <1>1, GroupsOf, SMTT(30)
<1>5. /\ c \in Seq(Nat) /\ Len(c) = GroupLen /\ \A j \in 1..GroupLen : c[j] = s[a + j]
      /\ d \in Seq(Nat) /\ Len(d) = GroupLen /\ \A j \in 1..GroupLen : d[j] = u[a + j]
      /\ Last(Group(s, g)) = s[a + (GroupLen + 1)] /\ Last(Group(u, g)) = u[a + (GroupLen + 1)]
  BY <1>4 DEF Grouped
<1>6. p = a + i /\ i # GroupLen + 1 /\ i # GroupLen
  BY <1>2
<1>7. Last(Group(s, g)) = CheckDigit(c)
  BY DEF Sound
<1> HIDE DEF a, c, d
<1>8. i \in 1..GroupLen /\ i + 1 \in 1..GroupLen /\ i \in Nat
  BY <1>3, <1>6
<1>9. p + 1 = a + (i + 1)
  BY <1>3, <1>6, <1>8
<1>10. \A j \in 1..GroupLen : j # i /\ j # i + 1 => c[j] = d[j]
  <2>1. ASSUME NEW j \in 1..GroupLen, j # i, j # i + 1 PROVE c[j] = d[j]
    <3>1. a + j \in 1..StandardLen /\ a + j # p /\ a + j # p + 1
      BY <1>3, <1>6, <1>8, <1>9, <2>1
    <3> QED BY <1>5, <3>1
  <2> QED BY <2>1
<1>11. c[i] = s[p] /\ c[i + 1] = s[p + 1] /\ d[i] = s[p + 1] /\ d[i + 1] = s[p]
  BY <1>5, <1>6, <1>8, <1>9
<1>12. c[i] < Letters /\ c[i + 1] < Letters
  BY <1>1, <1>11
<1>13. CheckDigit(c) # CheckDigit(d)
  <2>1. Len(c) = Len(d) /\ i \in 1..Len(c) /\ i + 1 \in 1..Len(c)
    BY <1>5, <1>8
  <2>2. /\ d[i] = c[i + 1] /\ d[i + 1] = c[i] /\ c[i] # c[i + 1]
        /\ {c[i], c[i + 1]} # {0, Letters - 1}
    BY <1>11
  <2>3. \A j \in 1..Len(c) : j # i /\ j # i + 1 => c[j] = d[j]
    BY <1>5, <1>10
  <2> QED BY <1>5, <1>12, <2>1, <2>2, <2>3, SwappedInChunk
<1>14. a + (GroupLen + 1) \in 1..StandardLen /\ a + (GroupLen + 1) # p /\ a + (GroupLen + 1) # p + 1
  BY <1>3, <1>6, <1>8, <1>9
<1>15. Last(Group(s, g)) = Last(Group(u, g))
  BY <1>5, <1>14
<1>16. CheckDigit(d) # Last(Group(u, g))
  BY <1>7, <1>13, <1>15
<1> QED BY <1>16 DEF Sound, d

\* A text with a check digit that is wrong is no standard ID (identity.go:364-374).
LEMMA UnsoundRejected == ASSUME NEW s, ~Sound(s) PROVE DecodeStandard(s) = Rejected
BY DEF Sound, DecodeStandard
-----------------------------------------------------------------------------
(* How the parser reads a string. *)

Kinds == {"v4", "v6"}

\* The hints are told by their lengths, even with one letter gone or too many.
LEMMA HintSizes ==
  ASSUME NEW k \in Kinds, NEW l \in Kinds
  PROVE  /\ HintLetters(k) \in Nat /\ HintLetters(k) > 1 /\ HintDigits(k) \in Nat /\ HintDigits(k) > 0
         /\ Space(k) \in Nat /\ Space(k) > 0
         /\ k # l => HintLetters(k) # HintLetters(l) /\ HintDigits(k) # HintDigits(l)
         /\ HintLetters(k) # HintLetters(l) + 1
         /\ \E f \in 1..Letters : FilledUp(Space(k), f, HintLetters(k))
         /\ HintLetters(k) \in {V4Letters, V6Letters} /\ HintDigits(k) \in {V4Digits, V6Digits}
         /\ Fits(Space("v4") - 1, Base, V4Digits + 1) /\ Fits(Space("v6") - 1, Base, V6Digits)
<1>1. /\ V4Letters \in Nat /\ V6Letters \in Nat /\ V4Letters > 1 /\ V6Letters > V4Letters + 1
      /\ V4Digits \in Nat /\ V6Digits \in Nat /\ V4Digits > 0 /\ V6Digits > 0
      /\ V4Space \in Nat /\ V6Space \in Nat /\ V4Space > 0 /\ V6Space > 0
  BY SizesHold DEF Sizes
<1>2. /\ \E f \in 1..Letters : FilledUp(V4Space, f, V4Letters)
      /\ \E f \in 1..Letters : FilledUp(V6Space, f, V6Letters)
      /\ Fits(V4Space - 1, Base, V4Digits + 1) /\ Fits(V6Space - 1, Base, V6Digits)
      /\ V6Digits # V4Digits
  BY DeviceIDAssumption DEF DeviceIDAssumption
<1>3. "v4" # "v6"
  OBVIOUS
<1>4. /\ Space("v4") = V4Space /\ HintDigits("v4") = V4Digits /\ HintLetters("v4") = V4Letters
      /\ Space("v6") = V6Space /\ HintDigits("v6") = V6Digits /\ HintLetters("v6") = V6Letters
  BY DEF Space, HintDigits, HintLetters
<1>5. CASE k = "v4" /\ l = "v4"
  BY <1>1, <1>2, <1>3, <1>4, <1>5
<1>6. CASE k = "v4" /\ l = "v6"
  BY <1>1, <1>2, <1>3, <1>4, <1>6
<1>7. CASE k = "v6" /\ l = "v4"
  BY <1>1, <1>2, <1>3, <1>4, <1>7
<1>8. CASE k = "v6" /\ l = "v6"
  BY <1>1, <1>2, <1>3, <1>4, <1>8
<1> QED BY <1>5, <1>6, <1>7, <1>8 DEF Kinds

\* As long as a standard ID, with a hint and dashes or without.
StandardSized(n) ==
  \E letters \in {0, V4Letters, V6Letters}, dashes \in {0, Groups - 1} : n = StandardLen + letters + dashes

\* As long as a compact ID, with a hint or without.
CompactSized(n) == \E digits \in {0, V4Digits, V4Digits + 1, V6Digits} : n = CompactLen + digits

\* No text is as long as a compact and as a standard ID.
LEMMA SizesApart == ASSUME NEW n, StandardSized(n) PROVE ~CompactSized(n)
<1>1. \A digits \in {0, V4Digits, V4Digits + 1, V6Digits},
        letters \in {0, V4Letters, V6Letters}, dashes \in {0, Groups - 1} :
       CompactLen + digits # StandardLen + letters + dashes
  BY DeviceIDAssumption DEF DeviceIDAssumption
<1> QED BY <1>1, Zenon DEF StandardSized, CompactSized

\* What is behind the first n characters is a string.
LEMMA AfterType ==
  ASSUME NEW s \in Seq(Nat), NEW n \in Nat, n <= Len(s)
  PROVE  After(s, n) \in Seq(Nat) /\ Len(After(s, n)) = Len(s) - n
<1> DEFINE m == Len(s)
<1>1. m \in Nat
  OBVIOUS
<1>2. IsPart(SubSeq(s, n + 1, m), s, n, m)
  BY <1>1, Cut
<1>3. After(s, n) = SubSeq(s, n + 1, m)
  BY DEF After
<1> QED BY <1>2, <1>3 DEF IsPart

\* Where no hint of the compact form is seen, one of the standard form is looked for.
LEMMA NoCompactHint ==
  ASSUME NEW t, Len(t) > CompactLen => CompactSplit(t) = {}
  PROVE  SplitRelayHint(t) = IF StandardSplit(t) = {} THEN [id |-> t, hint |-> NoHint]
                             ELSE CHOOSE split \in StandardSplit(t) : TRUE
<1> DEFINE c == IF Len(t) > CompactLen THEN CompactSplit(t) ELSE {}
           d == IF c # {} THEN c ELSE StandardSplit(t)
<1>1. SplitRelayHint(t) = IF d = {} THEN [id |-> t, hint |-> NoHint] ELSE CHOOSE split \in d : TRUE
  BY Zenon DEF SplitRelayHint
<1>2. c = {}
  OBVIOUS
<1>3. d = StandardSplit(t)
  BY <1>2
<1> HIDE DEF d
<1> QED BY <1>1, <1>3

\* What is as long as a standard ID is read as one.
LEMMA ReadAsStandard ==
  ASSUME NEW t \in Seq(Nat), StandardSized(Len(t))
  PROVE  /\ SplitRelayHint(t) = IF StandardSplit(t) = {} THEN [id |-> t, hint |-> NoHint]
                                ELSE CHOOSE split \in StandardSplit(t) : TRUE
         /\ DecodeBase63(t) = Rejected
<1>1. ~CompactSized(Len(t))
  BY SizesApart
<1>2. CompactLen \in Nat /\ Len(t) \in Nat
  BY SizesHold DEF Sizes
<1>3. ASSUME Len(t) > CompactLen, NEW k \in Kinds, Len(After(t, CompactLen)) = HintDigits(k)
      PROVE  FALSE
  <2>1. Len(t) - CompactLen = HintDigits(k)
    <3>1. CompactLen <= Len(t)
      BY <1>2, <1>3
    <3> QED BY <1>2, <1>3, <3>1, AfterType
  <2>2. HintDigits(k) \in {0, V4Digits, V4Digits + 1, V6Digits} /\ HintDigits(k) \in Nat
    BY HintSizes
  <2>3. Len(t) = CompactLen + HintDigits(k)
    BY <1>2, <2>1, <2>2
  <2> QED BY <1>1, <2>2, <2>3 DEF CompactSized
<1>4. Len(t) > CompactLen => CompactSplit(t) = {}
  BY <1>3 DEF CompactSplit, Kinds
<1>5. Len(t) # CompactLen
  <2>1. CompactLen = CompactLen + 0
    BY <1>2
  <2> QED BY <1>1, <2>1 DEF CompactSized
<1>6. SplitRelayHint(t) = IF StandardSplit(t) = {} THEN [id |-> t, hint |-> NoHint]
                          ELSE CHOOSE split \in StandardSplit(t) : TRUE
  BY <1>4, NoCompactHint
<1>7. DecodeBase63(t) = Rejected
  BY <1>5 DEF DecodeBase63
<1> QED BY <1>6, <1>7

\* What the parser makes of a string in which it sees no hint.
Standard(t) ==
  IF Len(NormalizeID(t)) = StandardLen /\ Decodable(NormalizeID(t), Letters)
    THEN DecodeStandard(NormalizeID(t)) ELSE Rejected

\* A text of a standard ID's length whose end is no hint is read as a whole
\* (identity.go:95-131).
LEMMA Unsplit ==
  ASSUME NEW t \in Seq(Nat), StandardSized(Len(t)),
         \A k \in Kinds : Len(NoDashes(t)) = StandardLen + HintLetters(k) =>
                            ~Decodable(After(t, Len(t) - HintLetters(k)), Letters)
  PROVE  SplitRelayHint(t) = [id |-> t, hint |-> NoHint] /\ DeviceIDFromString(t) = Standard(t)
<1>1. StandardSplit(t) = {}
  BY DEF StandardSplit, Kinds
<1>2. SplitRelayHint(t) = [id |-> t, hint |-> NoHint] /\ DecodeBase63(t) = Rejected
  BY <1>1, ReadAsStandard
<1> QED BY <1>2 DEF DeviceIDFromString, Standard

\* A hint behind an ID is split off and read.
LEMMA SplitOff ==
  ASSUME NEW p \in Seq(Nat), Len(NoDashes(p)) = StandardLen,
         NEW k \in Kinds, NEW x \in Seq(Nat), Len(x) = HintLetters(k), Undashed(x), Decodable(x, Letters),
         StandardSized(Len(p \o x))
  PROVE  SplitRelayHint(p \o x) = [id |-> p, hint |-> [kind |-> k, num |-> DecodeLetters(x, Space(k))]]
<1> DEFINE t == p \o x
           split == [id |-> p, hint |-> [kind |-> k, num |-> DecodeLetters(x, Space(k))]]
           of(l) == [id |-> First(t, Len(t) - HintLetters(l)),
                     hint |-> [kind |-> l, num |-> DecodeLetters(After(t, Len(t) - HintLetters(l)), Space(l))]]
           ok(l) == /\ Len(NoDashes(t)) = StandardLen + HintLetters(l)
                    /\ Decodable(After(t, Len(t) - HintLetters(l)), Letters)
<1>1. t \in Seq(Nat) /\ Len(t) = Len(p) + Len(x) /\ Len(p) \in Nat /\ Len(x) \in Nat
  <2>1. IsJoin(p \o x, p, x)
    BY Join
  <2> QED BY <2>1, LenProperties DEF IsJoin
<1>2. First(t, Len(p)) = p /\ After(t, Len(p)) = x
  BY Halves
<1>3. Len(NoDashes(t)) = StandardLen + HintLetters(k)
  <2>1. NoDashes(t) = NoDashes(p) \o x
    BY NoDashesOfBoth, NothingToRemove, ZenonT(40)
  <2>2. NoDashes(p) \in Seq(Nat)
    BY NoDashesType
  <2> QED BY <2>1, <2>2, ConcatProperties
<1>4. StandardSplit(t) = {of(l) : l \in {l \in Kinds : ok(l)}}
  BY DEF StandardSplit, Kinds
<1>5. StandardSized(Len(t))
  OBVIOUS
<1> HIDE DEF t
<1>6. Len(t) - HintLetters(k) = Len(p)
  BY <1>1
<1>7. ok(k) /\ of(k) = split
  BY <1>2, <1>3, <1>6
<1>8. ASSUME NEW l \in Kinds, ok(l) PROVE l = k
  <2>1. HintLetters(l) \in Nat /\ HintLetters(k) \in Nat /\ StandardLen \in Nat
    BY HintSizes, SizesHold DEF Sizes
  <2>2. StandardLen + HintLetters(l) = StandardLen + HintLetters(k)
    BY <1>3, <1>8
  <2>3. HintLetters(l) = HintLetters(k)
    BY <2>1, <2>2
  <2> QED BY <2>3, HintSizes
<1> HIDE DEF of, ok, split
<1>9. StandardSplit(t) = {split}
  BY <1>4, <1>7, <1>8
<1>10. SplitRelayHint(t) = CHOOSE s \in {split} : TRUE
  BY <1>1, <1>5, <1>9, ReadAsStandard
<1>11. (CHOOSE s \in {split} : TRUE) = split
  OBVIOUS
<1> QED BY <1>10, <1>11 DEF t, split

\* Letters in upper case stay as they are.
LEMMA NormalizedType ==
  ASSUME NEW t \in Seq(Nat)
  PROVE  /\ NormalizeID(t) \in Seq(Nat) /\ Len(NormalizeID(t)) = Len(NoDashes(t))
         /\ \A i \in 1..Len(NoDashes(t)) : NormalizeID(t)[i] = Upper(NoDashes(t)[i])
<1> DEFINE u == NoDashes(t)
           n == Len(u)
<1>1. u \in Seq(Nat)
  BY NoDashesType
<1>2. NormalizeID(t) = [i \in DOMAIN u |-> Upper(u[i])]
  BY DEF NormalizeID
<1> HIDE DEF u
<1>3. n \in Nat /\ DOMAIN u = 1..n /\ \A i \in 1..n : u[i] \in Nat
  BY <1>1
<1>4. Letters \in Nat
  BY SizesHold DEF Sizes
<1>5. ASSUME NEW i \in 1..n PROVE Upper(u[i]) \in Nat
  BY <1>3, <1>4 DEF Upper
<1> HIDE DEF n
<1>6. NormalizeID(t) = [i \in 1..n |-> Upper(u[i])]
  BY <1>2, <1>3
<1>7. NormalizeID(t) \in Seq(Nat) /\ Len(NormalizeID(t)) = n
  BY <1>3, <1>5, <1>6
<1>8. \A i \in 1..n : NormalizeID(t)[i] = Upper(u[i])
  BY <1>6
<1> QED BY <1>7, <1>8 DEF n, u

\* A text of letters is its own normal form (identity.go:344-352).
LEMMA LettersAreNormal ==
  ASSUME NEW s, NEW len, IsString(s, len, Letters)
  PROVE  /\ s \in Seq(Nat) /\ Len(s) = len /\ Undashed(s) /\ Decodable(s, Letters)
         /\ NoDashes(s) = s /\ NormalizeID(s) = s
<1>1. Letters \in Nat /\ Dash \in Nat /\ Letters <= Dash
  BY SizesHold DEF Sizes
<1>2. /\ s \in Seq(Nat) /\ Len(s) = len /\ \A i \in 1..len : s[i] \in Nat /\ s[i] < Letters
  BY <1>1, SmallerDigits
<1>3. Undashed(s)
  BY <1>1, <1>2 DEF Undashed
<1>4. NoDashes(s) = s
  BY <1>2, <1>3, NothingToRemove
<1>5. Decodable(s, Letters)
  BY <1>2 DEF Decodable
<1>6. ASSUME NEW i \in 1..len PROVE Upper(s[i]) = s[i]
  BY <1>1, <1>2 DEF Upper
<1>7. NormalizeID(s) \in Seq(Nat) /\ Len(NormalizeID(s)) = len /\ \A i \in 1..len : NormalizeID(s)[i] = s[i]
  BY <1>2, <1>4, <1>6, NormalizedType
<1>8. NormalizeID(s) = s
  BY <1>2, <1>7, SeqEqual
<1> QED BY <1>2, <1>3, <1>4, <1>5, <1>8
-----------------------------------------------------------------------------
(* The compact form, as it is announced. *)

\* What NewClient takes a string for.
Taken(t) == [key |-> DeviceIDFromString(SplitRelayHint(t).id), hint |-> SplitRelayHint(t).hint, entered |-> TRUE]

\* What is as long as a compact ID is not read as a standard one.
LEMMA ReadAsCompact ==
  ASSUME NEW t, t \in Seq(0..Base - 1), CompactSized(Len(t))
  PROVE  /\ t \in Seq(Nat) /\ StandardSplit(t) = {} /\ Standard(t) = Rejected
<1>1. Base \in Nat /\ Dash = Base /\ StandardLen \in Nat /\ Groups \in Nat
  BY SizesHold DEF Sizes
<1>2. IsString(t, Len(t), Base)
  BY DEF IsString
<1>3. t \in Seq(Nat) /\ \A i \in 1..Len(t) : t[i] \in Nat /\ t[i] < Base
  BY <1>1, <1>2, SmallerDigits
<1>4. Undashed(t)
  BY <1>1, <1>3 DEF Undashed
<1>5. NoDashes(t) = t
  BY <1>3, <1>4, NothingToRemove
<1>6. ~StandardSized(Len(t))
  BY SizesApart
<1>7. ASSUME NEW k \in Kinds PROVE Len(t) # StandardLen + HintLetters(k)
  <2>1. HintLetters(k) \in {V4Letters, V6Letters} /\ HintLetters(k) \in Nat
    BY HintSizes
  <2>2. StandardLen + HintLetters(k) = StandardLen + HintLetters(k) + 0
    BY <1>1, <2>1
  <2> QED BY <1>6, <2>1, <2>2, Zenon DEF StandardSized
<1>8. StandardSplit(t) = {}
  BY <1>5, <1>7 DEF StandardSplit, Kinds
<1>9. Len(t) # StandardLen
  <2>1. StandardLen = StandardLen + 0 + 0
    BY <1>1
  <2> QED BY <1>6, <2>1, Zenon DEF StandardSized
<1>10. Len(NormalizeID(t)) # StandardLen
  BY <1>3, <1>5, <1>9, NormalizedType
<1> QED BY <1>3, <1>8, <1>10 DEF Standard

\* A compact ID without a hint is read as it is (identity.go:95-131).
LEMMA CompactPlain ==
  ASSUME NEW k \in 0..KeySpace - 1
  PROVE  /\ SplitRelayHint(EncodeBase63(k)) = [id |-> EncodeBase63(k), hint |-> NoHint]
         /\ DeviceIDFromString(EncodeBase63(k)) = k
<1> DEFINE e == EncodeBase63(k)
<1>1. IsString(e, CompactLen, Base) /\ DecodeBase63(e) = k
  BY CompactRead
<1>2. CompactLen \in Nat /\ KeySpace \in Nat
  BY SizesHold DEF Sizes
<1> HIDE DEF e
<1>3. e \in Seq(0..Base - 1) /\ Len(e) = CompactLen
  BY <1>1 DEF IsString
<1>4. CompactSized(Len(e))
  <2>1. Len(e) = CompactLen + 0
    BY <1>2, <1>3
  <2> QED BY <2>1 DEF CompactSized
<1>5. StandardSplit(e) = {}
  BY <1>3, <1>4, ReadAsCompact
<1>6. ~(Len(e) > CompactLen)
  BY <1>2, <1>3
<1>7. SplitRelayHint(e) = [id |-> e, hint |-> NoHint]
  BY <1>5, <1>6, NoCompactHint
<1>8. k # Rejected
  BY <1>2 DEF Rejected
<1>9. DeviceIDFromString(e) = k
  <2>1. SplitRelayHint(e).id = e
    BY <1>7
  <2> QED BY <1>1, <1>8, <2>1 DEF DeviceIDFromString
<1> QED BY <1>7, <1>9 DEF e

\* The digits of an address, if they are as many as the parser looks for.
LEMMA HintDigitsRead ==
  ASSUME NEW k \in Kinds, NEW n \in 0..Space(k) - 1, k = "v4" => Fits(n, Base, V4Digits)
  PROVE  /\ IsString(Digits(n, Base, HintDigits(k)), HintDigits(k), Base)
         /\ ValueOf(Digits(n, Base, HintDigits(k)), Base) = n
<1>1. Base \in Nat /\ Base > 0
  BY SizesHold DEF Sizes
<1>2. HintDigits(k) \in Nat /\ Space(k) \in Nat /\ Space(k) > 0 /\ n \in Nat /\ n <= Space(k) - 1
  BY HintSizes
<1>3. Fits(n, Base, HintDigits(k))
  <2>1. CASE k = "v4"
    BY <2>1 DEF HintDigits
  <2>2. CASE k = "v6"
    <3>1. Fits(Space(k) - 1, Base, HintDigits(k))
      BY <2>2, HintSizes DEF HintDigits
    <3>2. Space(k) - 1 \in Nat
      BY <1>2
    <3> QED BY <1>1, <1>2, <3>1, <3>2, SmallerFits
  <2> QED BY <2>1, <2>2 DEF Kinds
<1>4. Digits(n, Base, HintDigits(k)) = Fixed(n, Base, HintDigits(k))
  BY <1>1, <1>2, <1>3, DigitsThatFit
<1> QED BY <1>1, <1>2, <1>3, <1>4, FixedType, FixedRead DEF IsString

\* An address behind a compact ID is split off and read.
LEMMA CompactHinted ==
  ASSUME NEW k \in 0..KeySpace - 1, NEW kind \in Kinds, NEW n \in 0..Space(kind) - 1,
         kind = "v4" => Fits(n, Base, V4Digits)
  PROVE  SplitRelayHint(EncodeBase63(k) \o Digits(n, Base, HintDigits(kind)))
           = [id |-> EncodeBase63(k), hint |-> [kind |-> kind, num |-> n]]
<1> DEFINE e == EncodeBase63(k)
           x == Digits(n, Base, HintDigits(kind))
           t == e \o x
           split == [id |-> e, hint |-> [kind |-> kind, num |-> n]]
           suffix == After(t, CompactLen)
           of(l) == [id |-> First(t, CompactLen), hint |-> [kind |-> l, num |-> ValueOf(suffix, Base)]]
           ok(l) == Len(suffix) = HintDigits(l) /\ Decodable(suffix, Base) /\ ValueOf(suffix, Base) < Space(l)
<1>1. IsString(e, CompactLen, Base) /\ IsString(x, HintDigits(kind), Base) /\ ValueOf(x, Base) = n
  BY CompactRead, HintDigitsRead
<1>2. Base \in Nat /\ CompactLen \in Nat
  BY SizesHold DEF Sizes
<1>3. HintDigits(kind) \in Nat /\ HintDigits(kind) > 0 /\ Space(kind) \in Nat /\ n < Space(kind)
  BY HintSizes
<1>4. CompactSplit(t) = {of(l) : l \in {l \in Kinds : ok(l)}}
  BY Zenon DEF CompactSplit, Kinds
<1> HIDE DEF e, x
<1>5. /\ e \in Seq(Nat) /\ Len(e) = CompactLen
      /\ x \in Seq(Nat) /\ Len(x) = HintDigits(kind) /\ \A i \in 1..Len(x) : x[i] < Base
  BY <1>1, <1>2, SmallerDigits
<1>6. First(t, CompactLen) = e /\ suffix = x
  BY <1>5, Halves
<1>7. Len(t) > CompactLen
  <2>1. IsJoin(e \o x, e, x)
    BY <1>5, Join
  <2>2. Len(t) = CompactLen + HintDigits(kind)
    BY <1>5, <2>1 DEF IsJoin
  <2> QED BY <1>2, <1>3, <2>2
<1>8. Decodable(x, Base)
  BY <1>5 DEF Decodable
<1>9. ok(kind) /\ of(kind) = split
  BY <1>1, <1>3, <1>5, <1>6, <1>8
<1>10. ASSUME NEW l \in Kinds, ok(l) PROVE l = kind
  BY <1>5, <1>6, <1>10, HintSizes
<1> HIDE DEF ok, of, split
<1>11. CompactSplit(t) = {split}
  BY <1>4, <1>9, <1>10
<1>12. SplitRelayHint(t) = split
  <2> DEFINE c == IF Len(t) > CompactLen THEN CompactSplit(t) ELSE {}
             d == IF c # {} THEN c ELSE StandardSplit(t)
  <2>1. SplitRelayHint(t) = IF d = {} THEN [id |-> t, hint |-> NoHint] ELSE CHOOSE s \in d : TRUE
    BY Zenon DEF SplitRelayHint
  <2>2. d = {split}
    BY <1>7, <1>11
  <2> HIDE DEF d
  <2>3. SplitRelayHint(t) = CHOOSE s \in {split} : TRUE
    BY <2>1, <2>2
  <2> QED BY <2>3
<1> QED BY <1>12 DEF t, e, x, split

\* One that has a digit more than the parser looks for makes it refuse the whole.
LEMMA CompactOverflow ==
  ASSUME NEW k \in 0..KeySpace - 1, NEW n \in 0..Space("v4") - 1, ~Fits(n, Base, V4Digits)
  PROVE  LET t == EncodeBase63(k) \o Digits(n, Base, V4Digits)
         IN /\ t \in Seq(0..Base - 1)
            /\ SplitRelayHint(t) = [id |-> t, hint |-> NoHint] /\ DeviceIDFromString(t) = Rejected
<1> DEFINE e == EncodeBase63(k)
           x == Digits(n, Base, V4Digits)
           t == e \o x
           suffix == After(t, CompactLen)
<1>1. Base \in Nat /\ Base > 0 /\ CompactLen \in Nat /\ V4Digits \in Nat /\ V6Digits \in Nat
  BY SizesHold DEF Sizes
<1>2. n \in Nat /\ Space("v4") \in Nat /\ Space("v4") > 0 /\ Space("v4") - 1 \in Nat /\ n <= Space("v4") - 1
  <2>1. Space("v4") \in Nat /\ Space("v4") > 0
    BY HintSizes DEF Kinds
  <2> QED BY <2>1
<1>3. Fits(n, Base, V4Digits + 1)
  <2>1. Fits(Space("v4") - 1, Base, V4Digits + 1) /\ V4Digits + 1 \in Nat
    BY <1>1, HintSizes DEF Kinds
  <2> QED BY <1>1, <1>2, <2>1, SmallerFits
<1>4. x = Fixed(n, Base, V4Digits + 1)
  BY <1>1, <1>2, <1>3, DigitsThatOverflow
<1>5. x \in Seq(0..Base - 1) /\ Len(x) = V4Digits + 1
  <2>1. V4Digits + 1 \in Nat
    BY <1>1
  <2> QED BY <1>1, <1>2, <1>4, <2>1, FixedType
<1>6. e \in Seq(0..Base - 1) /\ Len(e) = CompactLen
  BY CompactRead DEF IsString
<1> HIDE DEF e, x
<1>7. /\ t \in Seq(0..Base - 1) /\ Len(t) = CompactLen + (V4Digits + 1)
  BY <1>5, <1>6, ConcatProperties
<1>8. x \in Seq(Nat) /\ e \in Seq(Nat)
  BY <1>1, <1>5, <1>6, SmallerDigits DEF IsString
<1>9. suffix = x
  BY <1>6, <1>8, Halves
<1>10. CompactSplit(t) = {}
  <2>1. V6Digits \notin {V4Digits, V4Digits + 1}
    BY DeviceIDAssumption DEF DeviceIDAssumption
  <2>2. ASSUME NEW l \in Kinds PROVE Len(suffix) # HintDigits(l)
    <3>1. HintDigits(l) \in {V4Digits, V6Digits}
      BY HintSizes
    <3> QED BY <1>1, <1>5, <1>9, <2>1, <3>1
  <2> QED BY <2>2 DEF CompactSplit, Kinds
<1>11. CompactSized(Len(t))
  BY <1>7 DEF CompactSized
<1>12. StandardSplit(t) = {} /\ Standard(t) = Rejected
  BY <1>7, <1>11, ReadAsCompact
<1>13. Len(t) # CompactLen
  BY <1>1, <1>7
<1>14. SplitRelayHint(t) = [id |-> t, hint |-> NoHint]
  BY <1>10, <1>12, NoCompactHint
<1>15. DecodeBase63(t) = Rejected
  BY <1>13 DEF DecodeBase63
<1>16. DeviceIDFromString(t) = Rejected
  <2>1. SplitRelayHint(t).id = t
    BY <1>14
  <2> QED BY <1>12, <1>15, <2>1 DEF DeviceIDFromString, Standard
<1> QED BY <1>7, <1>14, <1>16 DEF t, e, x
-----------------------------------------------------------------------------
(* The standard form, however it was copied. *)

IsAddress(h) == h = NoHint \/ \E k \in Kinds : \E n \in 0..Space(k) - 1 : h = [kind |-> k, num |-> n]

\* What a hint adds to a standard ID.
Suffix(h) == IF h = NoHint THEN <<>> ELSE EncodeLetters(h.num, Space(h.kind), HintLetters(h.kind))

\* The hint behind a standard ID is read back (identity.go:134-188).
LEMMA SuffixRead ==
  ASSUME NEW h, IsAddress(h)
  PROVE  /\ IsString(Suffix(h), Len(Suffix(h)), Letters) /\ Len(Suffix(h)) \in {0, V4Letters, V6Letters}
         /\ h = NoHint => Suffix(h) = <<>>
         /\ h # NoHint => /\ h.kind \in Kinds /\ h.num \in 0..Space(h.kind) - 1
                          /\ h = [kind |-> h.kind, num |-> h.num]
                          /\ Suffix(h) = EncodeLetters(h.num, Space(h.kind), HintLetters(h.kind))
                          /\ Len(Suffix(h)) = HintLetters(h.kind)
                          /\ DecodeLetters(Suffix(h), Space(h.kind)) = h.num
<1>1. CASE h = NoHint
  <2>1. Suffix(h) = <<>>
    BY <1>1 DEF Suffix
  <2>2. IsString(<<>>, 0, Letters) /\ Len(<<>>) = 0
    BY EmptySeq DEF IsString
  <2> QED BY <1>1, <2>1, <2>2
<1>2. CASE h # NoHint
  <2>0. PICK k \in Kinds : \E n \in 0..Space(k) - 1 : h = [kind |-> k, num |-> n]
    BY <1>2 DEF IsAddress
  <2>1. PICK n \in 0..Space(k) - 1 : h = [kind |-> k, num |-> n]
    BY <2>0
  <2>2. h.kind = k /\ h.num = n
    BY <2>1
  <2>3. /\ Space(k) \in Nat /\ Space(k) > 0 /\ n \in Nat /\ n < Space(k)
        /\ HintLetters(k) \in Nat /\ HintLetters(k) \in {V4Letters, V6Letters}
    BY HintSizes
  <2>4. \E f \in 1..Letters : FilledUp(Space(k), f, HintLetters(k))
    BY HintSizes
  <2>5. /\ IsString(EncodeLetters(n, Space(k), HintLetters(k)), HintLetters(k), Letters)
        /\ DecodeLetters(EncodeLetters(n, Space(k), HintLetters(k)), Space(k)) = n
    BY <2>3, <2>4, LettersRead
  <2>6. Suffix(h) = EncodeLetters(n, Space(k), HintLetters(k))
    BY <1>2, <2>2 DEF Suffix
  <2>7. Len(Suffix(h)) = HintLetters(k)
    BY <2>5, <2>6 DEF IsString
  <2> QED BY <1>2, <2>1, <2>2, <2>3, <2>5, <2>6, <2>7
<1> QED BY <1>1, <1>2

\* A device ID, dashed or not and in whatever letters, has its hint split off.
LEMMA AnyHinted ==
  ASSUME NEW p \in Seq(Nat), NEW dashes \in {0, Groups - 1}, Len(p) = StandardLen + dashes,
         Len(NoDashes(p)) = StandardLen, NEW h, IsAddress(h)
  PROVE  Taken(p \o Suffix(h)) = [key |-> Standard(p), hint |-> h, entered |-> TRUE]
<1>1. StandardLen \in Nat /\ dashes \in Nat /\ V4Letters \in Nat /\ V6Letters \in Nat
  BY SizesHold DEF Sizes
<1>2. StandardSized(Len(p))
  <2>1. Len(p) = StandardLen + 0 + dashes
    BY <1>1
  <2> QED BY <2>1, Zenon DEF StandardSized
<1>3. SplitRelayHint(p) = [id |-> p, hint |-> NoHint] /\ DeviceIDFromString(p) = Standard(p)
  <2>1. ASSUME NEW k \in Kinds PROVE StandardLen # StandardLen + HintLetters(k)
    <3>1. HintLetters(k) \in Nat /\ HintLetters(k) > 1
      BY HintSizes
    <3> QED BY <1>1, <3>1
  <2> QED BY <1>2, <2>1, Unsplit
<1>4. CASE h = NoHint
  <2>1. p \o Suffix(h) = p
    BY <1>4, SuffixRead, ConcatEmptySeq
  <2>2. SplitRelayHint(p).id = p /\ SplitRelayHint(p).hint = h
    BY <1>3, <1>4
  <2> QED BY <1>3, <2>1, <2>2 DEF Taken
<1>5. CASE h # NoHint
  <2> DEFINE x == Suffix(h)
  <2>1. /\ h.kind \in Kinds /\ h = [kind |-> h.kind, num |-> h.num]
        /\ IsString(x, Len(x), Letters) /\ Len(x) \in {0, V4Letters, V6Letters}
        /\ Len(x) = HintLetters(h.kind) /\ DecodeLetters(x, Space(h.kind)) = h.num
    BY <1>5, SuffixRead
  <2> HIDE DEF x
  <2>2. x \in Seq(Nat) /\ Undashed(x) /\ Decodable(x, Letters)
    BY <2>1, LettersAreNormal
  <2>3. StandardSized(Len(p \o x))
    <3>1. Len(p \o x) = Len(p) + Len(x)
      BY <2>2, ConcatProperties
    <3>2. Len(p \o x) = StandardLen + Len(x) + dashes
      BY <1>1, <2>1, <3>1
    <3> QED BY <2>1, <3>2, Zenon DEF StandardSized
  <2>4. SplitRelayHint(p \o x) = [id |-> p, hint |-> [kind |-> h.kind, num |-> DecodeLetters(x, Space(h.kind))]]
    BY <2>1, <2>2, <2>3, SplitOff
  <2>5. SplitRelayHint(p \o x).id = p /\ SplitRelayHint(p \o x).hint = h
    BY <2>1, <2>4
  <2> QED BY <1>3, <2>5 DEF Taken, x
<1> QED BY <1>4, <1>5

\* One whose letters are those of the standard form is taken for the device it is of.
LEMMA CleanRead ==
  ASSUME NEW k \in 0..KeySpace - 1, NEW p \in Seq(Nat), NormalizeID(p) = StandardID(k)
  PROVE  Standard(p) = k
<1>1. IsString(StandardID(k), StandardLen, Letters) /\ DecodeStandard(StandardID(k)) = k
  BY StandardRead
<1>2. Len(StandardID(k)) = StandardLen /\ Decodable(StandardID(k), Letters)
  BY <1>1, LettersAreNormal
<1> QED BY <1>1, <1>2 DEF Standard

\* One whose letters are wrong somewhere is taken for none.
LEMMA WrongRead ==
  ASSUME NEW s, IsString(s, StandardLen, Letters), Sound(s),
         NEW p \in Seq(Nat), Len(NoDashes(p)) = StandardLen,
         NEW i \in 1..StandardLen, NormalizeID(p)[i] # s[i],
         \A q \in 1..StandardLen : q # i => NormalizeID(p)[q] = s[q]
  PROVE  Standard(p) = Rejected
<1> DEFINE u == NormalizeID(p)
<1>1. u \in Seq(Nat) /\ Len(u) = StandardLen
  BY NormalizedType
<1>2. ASSUME Decodable(u, Letters) PROVE DecodeStandard(u) = Rejected
  <2> HIDE DEF u
  <2>1. Letters \in Nat
    BY SizesHold DEF Sizes
  <2>2. \A q \in 1..Len(u) : u[q] \in 0..Letters - 1
    <3>1. ASSUME NEW q \in 1..Len(u) PROVE u[q] \in 0..Letters - 1
      <4>1. u[q] \in Nat /\ q \in DOMAIN u
        BY <1>1, LenProperties
      <4>2. u[q] < Letters
        BY <1>2, <4>1 DEF Decodable
      <4> QED BY <2>1, <4>1, <4>2
    <3> QED BY <3>1
  <2>3. IsString(u, StandardLen, Letters)
    BY <1>1, <2>2, Narrower DEF IsString
  <2>4. ~Sound(u)
    <3>1. s[i] # u[i] /\ \A q \in 1..StandardLen : q # i => s[q] = u[q]
      BY DEF u
    <3> QED BY <2>3, <3>1, WrongLetter
  <2> QED BY <2>4, UnsoundRejected
<1> QED BY <1>2 DEF Standard

\* A dash in the place of a letter makes an ID too short, whatever the hint.
LEMMA ShortRead ==
  ASSUME NEW t \in Seq(Nat), NEW m \in {0, V4Letters, V6Letters}, Len(t) = StandardLen + m,
         Len(NoDashes(t)) = StandardLen + m - 1
  PROVE  Taken(t) = [key |-> Rejected, hint |-> NoHint, entered |-> TRUE]
<1>1. /\ StandardLen \in Nat /\ V4Letters \in Nat /\ V6Letters \in Nat /\ m \in Nat
      /\ V4Letters > 1 /\ V6Letters > V4Letters + 1
  BY SizesHold DEF Sizes
<1>2. StandardSized(Len(t))
  <2>1. Len(t) = StandardLen + m + 0
    BY <1>1
  <2> QED BY <2>1, Zenon DEF StandardSized
<1>3. ASSUME NEW k \in Kinds PROVE StandardLen + m - 1 # StandardLen + HintLetters(k)
  <2>1. HintLetters(k) \in {V4Letters, V6Letters}
    BY HintSizes
  <2> QED BY <1>1, <2>1
<1>4. SplitRelayHint(t) = [id |-> t, hint |-> NoHint] /\ DeviceIDFromString(t) = Standard(t)
  BY <1>2, <1>3, Unsplit
<1>5. StandardLen + m - 1 # StandardLen
  BY <1>1
<1>6. Len(NormalizeID(t)) # StandardLen
  BY <1>5, NormalizedType
<1>7. SplitRelayHint(t).id = t /\ SplitRelayHint(t).hint = NoHint
  BY <1>4
<1> QED BY <1>4, <1>6, <1>7 DEF Taken, Standard
-----------------------------------------------------------------------------
(* The dashes between the groups. *)

\* Of a dash nothing is left.
LEMMA DashIsRemoved == NoDashes(<<>>) = <<>> /\ NoDashes(<<Dash>>) = <<>>
<1> DEFINE none == [i \in 1..0 |-> 0]
<1>0. Dash \in Nat
  BY SizesHold DEF Sizes
<1>1. <<>> \in Seq(Nat) /\ Len(<<>>) = 0
  BY EmptySeq
<1>2. NoDashes(<<>>) = <<>>
  <2>1. Undashed(<<>>)
    BY <1>1 DEF Undashed
  <2> QED BY <1>1, <2>1, NothingToRemove
<1>3. NoDashes((<<>> \o <<Dash>>) \o <<>>) = NoDashes(<<>>) \o NoDashes(<<>>)
  BY <1>0, <1>1, DashBetween
<1>4. (<<>> \o <<Dash>>) \o <<>> = <<Dash>>
  BY <1>0
<1>5. <<>> \o <<>> = <<>>
  BY <1>1, ConcatEmptySeq
<1> QED BY <1>2, <1>3, <1>4, <1>5

\* What is written behind a group.
Separator(g) == IF g < Groups THEN <<Dash>> ELSE <<>>

DashedID(s) == FlattenSeq([g \in 1..Groups |-> Group(s, g) \o Separator(g)])

\* Letters, digits and the dash are characters.
LEMMA CharsOf ==
  /\ Chars \subseteq Nat /\ 0..Letters - 1 \subseteq Chars /\ 0..Base - 1 \subseteq Chars /\ Dash \in Chars
  /\ Seq(Chars) \subseteq Seq(Nat) /\ Seq(0..Letters - 1) \subseteq Seq(Chars) /\ Seq(0..Base - 1) \subseteq Seq(Chars)
<1>1. Dash \in Nat /\ Base = Dash /\ Letters \in Nat /\ Letters <= Dash
  BY SizesHold DEF Sizes
<1>2. Chars \subseteq Nat /\ 0..Letters - 1 \subseteq Chars /\ 0..Base - 1 \subseteq Chars /\ Dash \in Chars
  BY <1>1 DEF Chars
<1> QED BY <1>2, SeqMonotonic

\* One dash between any two groups, and none is left when they are removed.
LEMMA DashesAdded ==
  ASSUME NEW s, IsString(s, StandardLen, Letters)
  PROVE  /\ DashedID(s) \in Seq(Chars) /\ Len(DashedID(s)) = StandardLen + (Groups - 1)
         /\ NoDashes(DashedID(s)) = s
<1> DEFINE L == GroupLen + 1
           part == [g \in 1..Groups |-> Group(s, g) \o Separator(g)]
<1>1. /\ Groups \in Nat /\ Groups > 0 /\ L \in Nat /\ L > 0 /\ Groups * L = StandardLen /\ Dash \in Nat
      /\ Letters \in Nat /\ StandardLen \in Nat /\ L = GroupLen + 1
  BY SizesHold DEF Sizes
<1>2. s \in Seq(Nat) /\ Len(s) = StandardLen /\ \A q \in 1..StandardLen : s[q] \in Nat /\ s[q] < Letters
  BY <1>1, SmallerDigits
<1>3. ASSUME NEW g \in 1..Groups
      PROVE  /\ Group(s, g) \in Seq(0..Letters - 1) /\ Len(Group(s, g)) = L /\ NoDashes(Group(s, g)) = Group(s, g)
  <2>1. Grouped(s, g)
    <3>1. StandardLen <= Len(s)
      BY <1>1, <1>2
    <3> QED BY <1>2, <3>1, GroupsOf
  <2>2. /\ Group(s, g) \in Seq(Nat) /\ Len(Group(s, g)) = L
        /\ \A i \in 1..L : Group(s, g)[i] = s[(g - 1) * (GroupLen + 1) + i]
    BY <2>1 DEF Grouped
  <2>3. \A i \in 1..L : (g - 1) * (GroupLen + 1) + i \in 1..StandardLen
    BY GroupPlaces
  <2>4. \A i \in 1..L : Group(s, g)[i] \in 0..Letters - 1
    BY <1>1, <1>2, <2>2, <2>3, SMTT(30)
  <2>5. Group(s, g) \in Seq(0..Letters - 1)
    BY <2>2, <2>4, Narrower
  <2>6. IsString(Group(s, g), L, Letters)
    BY <2>2, <2>5 DEF IsString
  <2> QED BY <2>2, <2>5, <2>6, LettersAreNormal
<1>4. ASSUME NEW g \in 1..Groups
      PROVE  /\ part[g] \in Seq(Chars) /\ NoDashes(part[g]) = Group(s, g)
             /\ Len(part[g]) = L + (IF g < Groups THEN 1 ELSE 0)
  <2>1. part[g] = Group(s, g) \o Separator(g)
    OBVIOUS
  <2> HIDE DEF part
  <2>2. Separator(g) \in Seq(Chars) /\ Len(Separator(g)) = (IF g < Groups THEN 1 ELSE 0) /\ NoDashes(Separator(g)) = <<>>
    <3>1. CASE g < Groups
      <4>1. <<Dash>> \in Seq(Chars) /\ Len(<<Dash>>) = 1
        BY CharsOf
      <4> QED BY <3>1, <4>1, DashIsRemoved DEF Separator
    <3>2. CASE ~(g < Groups)
      BY <3>2, EmptySeq, DashIsRemoved DEF Separator
    <3> QED BY <3>1, <3>2
  <2>3. Group(s, g) \in Seq(Chars) /\ Group(s, g) \in Seq(Nat) /\ Separator(g) \in Seq(Nat)
    BY <1>3, <2>2, CharsOf
  <2>4. part[g] \in Seq(Chars) /\ Len(part[g]) = Len(Group(s, g)) + Len(Separator(g))
    BY <2>1, <2>2, <2>3, ConcatProperties
  <2>5. NoDashes(part[g]) = NoDashes(Group(s, g)) \o NoDashes(Separator(g))
    BY <2>1, <2>3, NoDashesOfBoth
  <2>6. NoDashes(part[g]) = Group(s, g)
    BY <1>3, <2>2, <2>3, <2>5, ConcatEmptySeq
  <2> QED BY <1>3, <2>2, <2>4, <2>6
<1>5. part \in [1..Groups -> Seq(Nat)]
  <2>1. part = [g \in 1..Groups |-> part[g]]
    OBVIOUS
  <2>2. \A g \in 1..Groups : part[g] \in Seq(Nat)
    BY <1>4, CharsOf
  <2> HIDE DEF part
  <2> QED BY <2>1, <2>2
<1> HIDE DEF part, L
<1>6. PICK r : Flattening(r, Groups, part) /\ FlattenSeq(part) = r[Groups]
  BY <1>1, <1>5, FlattenSteps
<1> DEFINE Good(k) == /\ r[k] \in Seq(Chars) /\ NoDashes(r[k]) = SubSeq(s, 1, k * L)
                      /\ Len(r[k]) = k * L + (IF k < Groups THEN k ELSE Groups - 1)
           good == {k \in Nat : Good(k + 1)}
<1>7. 0 \in good
  <2>1. r[1] = part[1] /\ 1 \in 1..Groups /\ 1 * L = L /\ (1 - 1) * L = 0
    BY <1>1, <1>6 DEF Flattening
  <2>2. Group(s, 1) = SubSeq(s, 1, 1 * L)
    <3>1. Group(s, 1) = SubSeq(s, (1 - 1) * L + 1, 1 * L)
      BY DEF Group, L
    <3>2. (1 - 1) * L + 1 = 1
      BY <2>1
    <3> QED BY <3>1, <3>2
  <2>3. L + (IF 1 < Groups THEN 1 ELSE 0) = 1 * L + (IF 1 < Groups THEN 1 ELSE Groups - 1)
    BY <1>1, <2>1
  <2>4. Good(1)
    BY <1>4, <2>1, <2>2, <2>3
  <2>5. 0 + 1 = 1
    OBVIOUS
  <2> HIDE DEF Good
  <2> QED BY <2>4, <2>5
<1>8. ASSUME NEW n \in Nat, n \in good, n < Groups - 1 PROVE n + 1 \in good
  <2> DEFINE k == n + 1
             g == k + 1
  <2>1. k \in Nat /\ k >= 1 /\ k < Groups /\ g \in 2..Groups /\ g \in 1..Groups /\ g - 1 = k
    BY <1>1, <1>8
  <2>2. Good(k)
    BY <1>8
  <2>3. r[g] = r[k] \o part[g]
    <3>1. r[g] = r[g - 1] \o part[g]
      BY <1>6, <2>1 DEF Flattening
    <3> QED BY <2>1, <3>1
  <2> HIDE DEF k
  <2>4. (g - 1) * L \in Nat /\ g * L \in Nat /\ g * L = (g - 1) * L + L /\ (g - 1) * L + L <= Groups * L
    BY <1>1, <2>1, Slots
  <2> DEFINE a == k * L
  <2>5. a \in Nat /\ g * L = a + L /\ a + L <= StandardLen /\ (g - 1) * L = a
    BY <1>1, <2>1, <2>4
  <2>6. a >= 1
    BY <1>1, <2>1
  <2>7. Group(s, g) = SubSeq(s, a + 1, g * L)
    BY <2>5 DEF Group, L
  <2>8. /\ r[k] \in Seq(Chars) /\ NoDashes(r[k]) = SubSeq(s, 1, a)
        /\ Len(r[k]) = a + k
    BY <2>1, <2>2
  <2> HIDE DEF g, a, Good
  <2>9. SubSeq(s, 1, a) \o SubSeq(s, a + 1, g * L) = SubSeq(s, 1, g * L)
    <3>1. 1 \in 1..Len(s) + 1 /\ a \in 1 - 1..Len(s) /\ g * L \in a..Len(s)
      BY <1>1, <1>2, <2>5, <2>6
    <3> QED BY <1>2, <3>1, ConcatAdjacentSubSeq
  <2>10. r[k] \in Seq(Nat) /\ part[g] \in Seq(Nat) /\ part[g] \in Seq(Chars)
    BY <1>4, <2>1, <2>8, CharsOf
  <2>11. NoDashes(r[g]) = SubSeq(s, 1, g * L)
    <3>1. NoDashes(r[g]) = NoDashes(r[k]) \o NoDashes(part[g])
      BY <2>3, <2>10, NoDashesOfBoth
    <3>2. NoDashes(part[g]) = SubSeq(s, a + 1, g * L)
      BY <1>4, <2>1, <2>7
    <3> QED BY <2>8, <2>9, <3>1, <3>2
  <2>12. r[g] \in Seq(Chars) /\ Len(r[g]) = Len(r[k]) + Len(part[g])
    BY <2>3, <2>8, <2>10, ConcatProperties, ZenonT(40)
  <2>13. Len(r[g]) = g * L + (IF g < Groups THEN g ELSE Groups - 1)
    <3>1. Len(part[g]) = L + (IF g < Groups THEN 1 ELSE 0)
      BY <1>4, <2>1
    <3>2. g = k + 1
      BY DEF g
    <3> DEFINE b == g * L
               u == Len(r[g])
               v == Len(r[k])
               w == Len(part[g])
    <3>3. b = a + L /\ u = v + w /\ v = a + k /\ w = L + (IF g < Groups THEN 1 ELSE 0)
      BY <2>5, <2>8, <2>12, <3>1
    <3>4. a \in Nat /\ L \in Nat /\ k \in Nat /\ Groups \in Nat /\ k < Groups
      BY <1>1, <2>1, <2>5
    <3> HIDE DEF b, u, v, w
    <3>5. u = b + (IF g < Groups THEN g ELSE Groups - 1)
      <4>1. CASE g < Groups
        BY <3>2, <3>3, <3>4, <4>1
      <4>2. CASE ~(g < Groups)
        <5>1. k = Groups - 1
          BY <3>2, <3>4, <4>2
        <5> QED BY <3>3, <3>4, <4>2, <5>1
      <4> QED BY <4>1, <4>2
    <3> QED BY <3>5 DEF b, u
  <2>14. Good(g)
    BY <2>11, <2>12, <2>13 DEF Good
  <2>15. n + 1 \in Nat /\ (n + 1) + 1 = g
    BY DEF g, k
  <2> QED BY <2>14, <2>15
<1>9. Groups - 1 \in good
  <2> HIDE DEF good
  <2>1. Groups - 1 \in Nat
    BY <1>1
  <2>2. \A n \in 0..Groups - 1 : n \in good
    BY <1>7, <1>8, <2>1, CountingTo
  <2> QED BY <2>1, <2>2
<1>10. Good(Groups)
  <2>1. (Groups - 1) + 1 = Groups
    BY <1>1
  <2> HIDE DEF Good
  <2> QED BY <1>9, <2>1
<1>11. DashedID(s) = r[Groups]
  BY <1>6 DEF DashedID, part
<1>12. SubSeq(s, 1, Groups * L) = s
  BY <1>1, <1>2, SubSeqFull
<1>13. Groups * L + (Groups - 1) = StandardLen + (Groups - 1)
  BY <1>1
<1>14. /\ r[Groups] \in Seq(Chars) /\ NoDashes(r[Groups]) = SubSeq(s, 1, Groups * L)
       /\ Len(r[Groups]) = Groups * L + (Groups - 1)
  <2>1. ~(Groups < Groups)
    BY <1>1
  <2> QED BY <1>10, <2>1
<1> HIDE DEF Good
<1> QED BY <1>11, <1>12, <1>13, <1>14
-----------------------------------------------------------------------------
(* What becomes of an announced standard ID. *)

\* The join of two strings over the same digits.
LEMMA BothLetters ==
  ASSUME NEW s, NEW n, NEW x, NEW m, NEW b, IsString(s, n, b), IsString(x, m, b)
  PROVE  IsString(s \o x, n + m, b)
BY ConcatProperties DEF IsString

\* An announced standard ID, and its parts.
LEMMA AnnouncedStandard ==
  ASSUME NEW k \in 0..KeySpace - 1, NEW h, IsAddress(h)
  PROVE  /\ IsString(StandardID(k), StandardLen, Letters) /\ Sound(StandardID(k))
         /\ IsString(Suffix(h), Len(Suffix(h)), Letters) /\ Len(Suffix(h)) \in {0, V4Letters, V6Letters}
         /\ IsString(StandardID(k) \o Suffix(h), StandardLen + Len(Suffix(h)), Letters)
BY StandardRead, SuffixRead, BothLetters

\* A standard ID copied as it is, with its hint, is read as what it is.
LEMMA PlainRead ==
  ASSUME NEW k \in 0..KeySpace - 1, NEW h, IsAddress(h)
  PROVE  Taken(StandardID(k) \o Suffix(h)) = [key |-> k, hint |-> h, entered |-> TRUE]
<1> DEFINE s == StandardID(k)
<1>1. IsString(s, StandardLen, Letters)
  BY StandardRead
<1>2. s \in Seq(Nat) /\ Len(s) = StandardLen /\ NoDashes(s) = s /\ NormalizeID(s) = s
  BY <1>1, LettersAreNormal
<1>3. Standard(s) = k
  BY <1>2, CleanRead
<1>4. StandardLen = StandardLen + 0
  BY SizesHold DEF Sizes
<1> HIDE DEF s
<1>5. Taken(s \o Suffix(h)) = [key |-> Standard(s), hint |-> h, entered |-> TRUE]
  BY <1>2, <1>4, AnyHinted
<1> QED BY <1>3, <1>5 DEF s

\* So it is when its groups are written apart (identity.go:344-352).
LEMMA DashedRead ==
  ASSUME NEW k \in 0..KeySpace - 1, NEW h, IsAddress(h)
  PROVE  /\ DashedID(StandardID(k)) \o Suffix(h) \in Seq(Chars)
         /\ DashedID(StandardID(k)) \o Suffix(h) # <<>>
         /\ Taken(DashedID(StandardID(k)) \o Suffix(h)) = [key |-> k, hint |-> h, entered |-> TRUE]
<1> DEFINE s == StandardID(k)
           p == DashedID(s)
           x == Suffix(h)
<1>1. IsString(s, StandardLen, Letters) /\ IsString(x, Len(x), Letters)
  BY AnnouncedStandard
<1>2. p \in Seq(Chars) /\ Len(p) = StandardLen + (Groups - 1) /\ NoDashes(p) = s
  BY <1>1, DashesAdded
<1>3. x \in Seq(Chars)
  BY <1>1, CharsOf DEF IsString
<1>4. Len(s) = StandardLen /\ NoDashes(s) = s /\ NormalizeID(s) = s
  BY <1>1, LettersAreNormal
<1>5. NormalizeID(p) = NormalizeID(s)
  BY <1>2, <1>4 DEF NormalizeID
<1>6. p \in Seq(Nat)
  BY <1>2, CharsOf
<1>7. Standard(p) = k
  BY <1>4, <1>5, <1>6, CleanRead
<1>8. p \o x \in Seq(Chars) /\ p \o x # <<>>
  <2>1. Len(p) > 0
    BY <1>2, SizesHold DEF Sizes
  <2> HIDE DEF p, x
  <2>2. p # <<>>
    BY <2>1
  <2> QED BY <1>2, <1>3, <2>2, ConcatProperties, ConcatEqualIffEmpty
<1> HIDE DEF p
<1>9. Taken(p \o x) = [key |-> Standard(p), hint |-> h, entered |-> TRUE]
  BY <1>2, <1>4, <1>6, AnyHinted
<1> QED BY <1>7, <1>8, <1>9 DEF p

-----------------------------------------------------------------------------
(* Lower case. *)

LowerText(t) == [i \in DOMAIN t |-> IF t[i] < Cased THEN t[i] + Letters ELSE t[i]]

\* A text of letters in lower case has no dash and the same normal form.
LEMMA LowerType ==
  ASSUME NEW t, NEW n, IsString(t, n, Letters)
  PROVE  /\ LowerText(t) \in Seq(Chars) /\ Len(LowerText(t)) = n /\ NoDashes(LowerText(t)) = LowerText(t)
         /\ LowerText(t) \in Seq(Nat)
         /\ \A i \in 1..n : LowerText(t)[i] = IF t[i] < Cased THEN t[i] + Letters ELSE t[i]
         /\ NormalizeID(LowerText(t)) = t
<1>1. /\ Letters \in Nat /\ Cased \in Nat /\ Base \in Nat /\ Dash = Base /\ Letters + Cased <= Base
      /\ Cased <= Letters /\ Cased > 0
  BY SizesHold DEF Sizes
<1>2. t \in Seq(Nat) /\ Len(t) = n /\ \A i \in 1..n : t[i] \in Nat /\ t[i] < Letters
  BY <1>1, SmallerDigits
<1> DEFINE u == LowerText(t)
<1>3. n \in Nat /\ DOMAIN t = 1..n
  BY <1>2
<1>4. u = [i \in 1..n |-> IF t[i] < Cased THEN t[i] + Letters ELSE t[i]]
  BY <1>3 DEF LowerText
<1>5. \A i \in 1..n : u[i] = IF t[i] < Cased THEN t[i] + Letters ELSE t[i]
  BY <1>4
<1> HIDE DEF u
<1>6. ASSUME NEW i \in 1..n PROVE u[i] \in Chars /\ u[i] # Dash /\ u[i] \in Nat /\ Upper(u[i]) = t[i]
  <2> DEFINE c == t[i]
             d == u[i]
  <2>1. c \in Nat /\ c < Letters /\ d = IF c < Cased THEN c + Letters ELSE c
    BY <1>2, <1>5
  <2> HIDE DEF c, d
  <2>2. d \in 0..Base /\ d # Base /\ d \in Nat
    BY <1>1, <2>1
  <2>3. (IF d \in Letters..Letters + Cased - 1 THEN d - Letters ELSE d) = c
    BY <1>1, <2>1
  <2> QED BY <1>1, <2>2, <2>3 DEF c, d, Chars, Upper
<1>7. u \in Seq(Nat) /\ Len(u) = n
  BY <1>3, <1>4, <1>5, <1>6
<1>8. u \in Seq(Chars)
  BY <1>6, <1>7, Narrower
<1>9. Undashed(u)
  BY <1>6, <1>7 DEF Undashed
<1>10. NoDashes(u) = u
  BY <1>7, <1>9, NothingToRemove
<1>11. NormalizeID(u) \in Seq(Nat) /\ Len(NormalizeID(u)) = n /\ \A i \in 1..n : NormalizeID(u)[i] = t[i]
  BY <1>6, <1>7, <1>10, NormalizedType
<1>12. NormalizeID(u) = t
  BY <1>2, <1>11, SeqEqual
<1> QED BY <1>5, <1>7, <1>8, <1>10, <1>12 DEF u

\* Both parts of a text are in lower case when the text is.
LEMMA LowerOfBoth ==
  ASSUME NEW s, NEW n, NEW x, NEW m, IsString(s, n, Letters), IsString(x, m, Letters)
  PROVE  LowerText(s \o x) = LowerText(s) \o LowerText(x)
<1> DEFINE t == s \o x
           low(c) == IF c < Cased THEN c + Letters ELSE c
<1>1. IsString(t, n + m, Letters)
  BY BothLetters
<1>2. /\ LowerText(s) \in Seq(Nat) /\ Len(LowerText(s)) = n /\ \A i \in 1..n : LowerText(s)[i] = low(s[i])
      /\ LowerText(x) \in Seq(Nat) /\ Len(LowerText(x)) = m /\ \A i \in 1..m : LowerText(x)[i] = low(x[i])
      /\ LowerText(t) \in Seq(Nat) /\ Len(LowerText(t)) = n + m
      /\ \A i \in 1..n + m : LowerText(t)[i] = low(t[i])
  BY <1>1, LowerType
<1> HIDE DEF low
<1>3. s \in Seq(Nat) /\ Len(s) = n /\ x \in Seq(Nat) /\ Len(x) = m /\ n \in Nat /\ m \in Nat
  <2>1. s \in Seq(Nat) /\ Len(s) = n /\ x \in Seq(Nat) /\ Len(x) = m
    BY LettersAreNormal
  <2> QED BY <2>1
<1>4. IsJoin(t, s, x) /\ IsJoin(LowerText(s) \o LowerText(x), LowerText(s), LowerText(x))
  BY <1>2, <1>3, Join
<1> DEFINE v == LowerText(s) \o LowerText(x)
           y == LowerText(t)
<1> HIDE DEF t, v, y
<1>5. v \in Seq(Nat) /\ Len(v) = n + m
  BY <1>2, <1>4 DEF IsJoin, v
<1>6. ASSUME NEW i \in 1..n + m PROVE v[i] = y[i]
  <2>1. CASE i <= n
    <3>1. i \in 1..n
      BY <1>3, <2>1
    <3>2. v[i] = LowerText(s)[i] /\ t[i] = s[i]
      BY <1>2, <1>3, <1>4, <3>1 DEF IsJoin, v
    <3> QED BY <1>2, <3>1, <3>2 DEF y
  <2>2. CASE ~(i <= n)
    <3>1. PICK j \in 1..m : i = n + j
      <4>1. i - n \in 1..m /\ i = n + (i - n)
        BY <1>3, <2>2
      <4> QED BY <4>1
    <3>2. v[n + j] = LowerText(x)[j] /\ t[n + j] = x[j]
      BY <1>2, <1>3, <1>4, <3>1 DEF IsJoin, v
    <3> QED BY <1>2, <3>1, <3>2 DEF y
  <2> QED BY <2>1, <2>2
<1>7. v = y
  BY <1>2, <1>5, <1>6, SeqEqual DEF y
<1> QED BY <1>7 DEF v, y, t

\* In lower case, an ID without a hint and one whose hint has no letters that have a
\* lower case are still understood, others are refused as a whole.
LEMMA LowerRead ==
  ASSUME NEW k \in 0..KeySpace - 1, NEW h, IsAddress(h)
  PROVE  LET t == LowerText(StandardID(k) \o Suffix(h)) IN
         /\ t \in Seq(Chars)
         /\ IF \A i \in DOMAIN Suffix(h) : Suffix(h)[i] >= Cased
              THEN Taken(t) = [key |-> k, hint |-> h, entered |-> TRUE]
              ELSE Taken(t) = [key |-> Rejected, hint |-> NoHint, entered |-> TRUE]
<1> DEFINE s == StandardID(k)
           x == Suffix(h)
           p == LowerText(s)
           y == LowerText(x)
           t == LowerText(s \o x)
           m == Len(x)
<1>1. /\ IsString(s, StandardLen, Letters) /\ IsString(x, m, Letters) /\ m \in {0, V4Letters, V6Letters}
      /\ IsString(s \o x, StandardLen + m, Letters)
  BY AnnouncedStandard
<1>2. t = p \o y
  BY <1>1, LowerOfBoth
<1>3. /\ p \in Seq(Nat) /\ Len(p) = StandardLen /\ NoDashes(p) = p /\ NormalizeID(p) = s
      /\ y \in Seq(Nat) /\ Len(y) = m /\ \A i \in 1..m : y[i] = IF x[i] < Cased THEN x[i] + Letters ELSE x[i]
      /\ t \in Seq(Chars) /\ t \in Seq(Nat) /\ Len(t) = StandardLen + m /\ NoDashes(t) = t
      /\ NormalizeID(t) = s \o x
  BY <1>1, LowerType
<1>4. /\ StandardLen \in Nat /\ Letters \in Nat /\ Cased \in Nat /\ V4Letters \in Nat /\ V6Letters \in Nat
      /\ V4Letters > 1 /\ V6Letters > 1
  BY SizesHold DEF Sizes
<1>5. x \in Seq(Nat) /\ DOMAIN x = 1..m /\ m \in Nat /\ \A i \in 1..m : x[i] \in Nat /\ x[i] < Letters
  <2>1. x \in Seq(Nat) /\ \A i \in 1..m : x[i] \in Nat /\ x[i] < Letters
    BY <1>1, <1>4, SmallerDigits
  <2> QED BY <2>1, LenProperties
<1>6. CASE \A i \in DOMAIN x : x[i] >= Cased
  <2>1. y = x
    <3> HIDE DEF x, y, m
    <3>1. ASSUME NEW i \in 1..m PROVE y[i] = x[i]
      <4>1. ~(x[i] < Cased)
        <5>1. x[i] >= Cased /\ x[i] \in Nat
          BY <1>5, <1>6
        <5> QED BY <1>4, <5>1
      <4>2. y[i] = IF x[i] < Cased THEN x[i] + Letters ELSE x[i]
        BY <1>3
      <4> QED BY <4>1, <4>2
    <3> QED BY <1>3, <1>5, <3>1, SeqEqual
  <2>2. Standard(p) = k
    BY <1>3, CleanRead
  <2>3. StandardLen = StandardLen + 0
    BY <1>4
  <2> HIDE DEF p
  <2>4. Taken(p \o Suffix(h)) = [key |-> Standard(p), hint |-> h, entered |-> TRUE]
    BY <1>3, <2>3, AnyHinted
  <2> QED BY <1>2, <1>3, <1>6, <2>1, <2>2, <2>4
<1>7. CASE ~\A i \in DOMAIN x : x[i] >= Cased
  <2>1. PICK i \in 1..m : x[i] < Cased
    BY <1>4, <1>5, <1>7
  <2>2. i \in 1..m /\ y[i] >= Letters /\ y[i] \in Nat
    <3> HIDE DEF x, y, m
    <3>1. y[i] = x[i] + Letters /\ x[i] \in Nat
      <4>1. y[i] = IF x[i] < Cased THEN x[i] + Letters ELSE x[i]
        BY <1>3
      <4> QED BY <1>5, <2>1, <4>1
    <3> QED BY <1>4, <3>1
  <2>3. ~Decodable(y, Letters)
    <3> HIDE DEF y
    <3>1. i \in DOMAIN y
      <4>1. y \in Seq(Nat) /\ Len(y) = m
        BY <1>3
      <4>2. DOMAIN y = 1..m
        BY <4>1, LenProperties
      <4> QED BY <2>2, <4>2
    <3>2. ~(y[i] < Letters)
      BY <1>4, <2>2
    <3> QED BY <3>1, <3>2 DEF Decodable
  <2> HIDE DEF p, y, t, m
  <2>4. StandardSized(Len(t))
    <3>1. Len(t) = StandardLen + m + 0
      BY <1>3, <1>4, <1>5
    <3> QED BY <1>1, <3>1, Zenon DEF StandardSized
  <2>5. After(t, StandardLen) = y
    BY <1>2, <1>3, Halves
  <2>6. ASSUME NEW l \in Kinds, Len(NoDashes(t)) = StandardLen + HintLetters(l)
        PROVE  ~Decodable(After(t, Len(t) - HintLetters(l)), Letters)
    <3>1. HintLetters(l) \in Nat
      BY HintSizes
    <3>2. Len(t) - HintLetters(l) = StandardLen
      BY <1>3, <1>4, <1>5, <2>6, <3>1
    <3> QED BY <2>3, <2>5, <3>2
  <2>7. SplitRelayHint(t) = [id |-> t, hint |-> NoHint] /\ DeviceIDFromString(t) = Standard(t)
    BY <1>3, <2>4, <2>6, Unsplit
  <2>8. Len(NormalizeID(t)) # StandardLen
    <3>1. m # 0
      BY <2>1, <1>4
    <3>2. Len(NormalizeID(t)) = StandardLen + m
      BY <1>3, NormalizedType
    <3> QED BY <1>4, <1>5, <3>1, <3>2
  <2>9. Standard(t) = Rejected
    BY <2>8 DEF Standard
  <2>10. SplitRelayHint(t).id = t /\ SplitRelayHint(t).hint = NoHint
    BY <2>7
  <2>11. Taken(t) = [key |-> Rejected, hint |-> NoHint, entered |-> TRUE]
    BY <2>7, <2>9, <2>10 DEF Taken
  <2> QED BY <1>3, <1>7, <2>11 DEF t
<1> QED BY <1>6, <1>7
-----------------------------------------------------------------------------
(* Typos. *)

\* A text in which one character is replaced.
LEMMA ReplaceType ==
  ASSUME NEW t \in Seq(Nat), NEW i \in 1..Len(t), NEW c \in Nat
  PROVE  /\ ReplaceAt(t, i, c) \in Seq(Nat) /\ Len(ReplaceAt(t, i, c)) = Len(t)
         /\ ReplaceAt(t, i, c)[i] = c
         /\ \A q \in 1..Len(t) : q # i => ReplaceAt(t, i, c)[q] = t[q]
BY ExceptSeq DEF ReplaceAt

\* A character replaced in the first part of a text.
LEMMA ReplaceInFront ==
  ASSUME NEW s \in Seq(Nat), NEW x \in Seq(Nat), NEW i \in 1..Len(s), NEW c \in Nat
  PROVE  ReplaceAt(s \o x, i, c) = ReplaceAt(s, i, c) \o x
<1> DEFINE t == s \o x
           p == ReplaceAt(s, i, c)
           u == ReplaceAt(t, i, c)
           v == p \o x
           n == Len(s)
           m == Len(x)
<1>1. IsJoin(t, s, x) /\ n \in Nat /\ m \in Nat
  BY Join
<1>2. p \in Seq(Nat) /\ Len(p) = n /\ p[i] = c /\ \A q \in 1..n : q # i => p[q] = s[q]
  BY ReplaceType
<1> HIDE DEF p, t
<1>3. IsJoin(v, p, x)
  BY <1>2, Join
<1>4. t \in Seq(Nat) /\ Len(t) = n + m /\ i \in 1..Len(t)
  BY <1>1 DEF IsJoin
<1>5. u \in Seq(Nat) /\ Len(u) = n + m /\ u[i] = c /\ \A q \in 1..n + m : q # i => u[q] = t[q]
  <2>1. /\ u \in Seq(Nat) /\ Len(u) = Len(t) /\ u[i] = c
        /\ \A q \in 1..Len(t) : q # i => u[q] = t[q]
    BY <1>4, ReplaceType, ZenonT(40)
  <2> HIDE DEF u
  <2> QED BY <1>4, <2>1
<1> HIDE DEF u, v
<1>6. v \in Seq(Nat) /\ Len(v) = n + m
  BY <1>2, <1>3 DEF IsJoin
<1>7. ASSUME NEW q \in 1..n + m PROVE u[q] = v[q]
  <2>1. CASE q = i
    BY <1>2, <1>3, <1>5, <2>1 DEF IsJoin
  <2>2. CASE q # i /\ q <= n
    <3>1. q \in 1..n
      BY <1>1, <2>2
    <3> QED BY <1>1, <1>2, <1>3, <1>5, <2>2, <3>1 DEF IsJoin
  <2>3. CASE ~(q <= n)
    <3>1. PICK j \in 1..m : q = n + j
      <4>1. q - n \in 1..m /\ q = n + (q - n)
        BY <1>1, <2>3
      <4> QED BY <4>1
    <3>2. v[n + j] = x[j] /\ t[n + j] = x[j]
      BY <1>1, <1>2, <1>3, <3>1 DEF IsJoin
    <3>3. q # i
      BY <1>1, <2>3
    <3> QED BY <1>5, <3>1, <3>2, <3>3
  <2> QED BY <2>1, <2>2, <2>3
<1>8. u = v
  BY <1>5, <1>6, <1>7, SeqEqual
<1> QED BY <1>8 DEF u, v, t, p

\* A dash typed for a letter is one letter less.
LEMMA DashForLetter ==
  ASSUME NEW t, NEW n, IsString(t, n, Letters), NEW i \in 1..n
  PROVE  Len(NoDashes(ReplaceAt(t, i, Dash))) = n - 1
<1> DEFINE a == First(t, i - 1)
           b == After(t, i)
           u == ReplaceAt(t, i, Dash)
           one == <<Dash>>
<1>1. t \in Seq(Nat) /\ Len(t) = n /\ Undashed(t) /\ n \in Nat /\ Dash \in Nat /\ i \in Nat /\ i >= 1 /\ i <= n
  <2>1. t \in Seq(Nat) /\ Len(t) = n /\ Undashed(t)
    BY LettersAreNormal
  <2>2. Dash \in Nat
    BY SizesHold DEF Sizes
  <2> QED BY <2>1, <2>2
<1>2. IsPart(SubSeq(t, 0 + 1, i - 1), t, 0, i - 1) /\ a = SubSeq(t, 0 + 1, i - 1)
  <2>1. i - 1 \in Nat /\ 0 <= i - 1 /\ i - 1 <= Len(t) /\ 0 \in Nat
    BY <1>1
  <2>2. a = SubSeq(t, 0 + 1, i - 1)
    BY DEF First
  <2> QED BY <1>1, <2>1, <2>2, Cut
<1>3. IsPart(SubSeq(t, i + 1, n), t, i, n) /\ b = SubSeq(t, i + 1, n)
  BY <1>1, Cut DEF After
<1>4. /\ a \in Seq(Nat) /\ Len(a) = i - 1 /\ \A q \in 1..i - 1 : a[q] = t[q]
      /\ b \in Seq(Nat) /\ Len(b) = n - i /\ \A q \in 1..n - i : b[q] = t[i + q]
  <2>1. (i - 1) - 0 = i - 1 /\ \A q \in 1..i - 1 : 0 + q = q
    BY <1>1
  <2> QED BY <1>2, <1>3, <2>1 DEF IsPart
<1> HIDE DEF a, b
<1>5. NoDashes(a) = a /\ NoDashes(b) = b
  <2>1. Undashed(a)
    BY <1>1, <1>4 DEF Undashed
  <2>2. Undashed(b)
    BY <1>1, <1>4, SMTT(30) DEF Undashed
  <2> QED BY <1>4, <2>1, <2>2, NothingToRemove
<1>6. one \in Seq(Nat) /\ Len(one) = 1 /\ one[1] = Dash
  BY <1>1
<1> HIDE DEF one
<1>7. IsJoin(a \o one, a, one) /\ a \o one \in Seq(Nat) /\ Len(a \o one) = i
  <2>1. IsJoin(a \o one, a, one)
    BY <1>4, <1>6, Join
  <2> QED BY <1>1, <1>4, <1>6, <2>1 DEF IsJoin
<1> DEFINE d == a \o one
           v == d \o b
<1> HIDE DEF d
<1>8. IsJoin(v, d, b)
  BY <1>4, <1>7, Join DEF d
<1>9. u \in Seq(Nat) /\ Len(u) = n /\ u[i] = Dash /\ \A q \in 1..n : q # i => u[q] = t[q]
  BY <1>1, ReplaceType, ZenonT(40)
<1> HIDE DEF u, v
<1>10. v \in Seq(Nat) /\ Len(v) = n
  <2>1. v \in Seq(Nat) /\ Len(v) = Len(d) + Len(b)
    BY <1>8 DEF IsJoin
  <2>2. Len(d) = i
    BY <1>7 DEF d
  <2>3. Len(b) = n - i /\ i + (n - i) = n
    BY <1>1, <1>4
  <2> QED BY <2>1, <2>2, <2>3
<1>11. ASSUME NEW q \in 1..n PROVE u[q] = v[q]
  <2>1. CASE q = i
    <3>1. v[i] = d[i] /\ d[(i - 1) + 1] = one[1] /\ (i - 1) + 1 = i
      BY <1>1, <1>4, <1>6, <1>7, <1>8 DEF IsJoin, d
    <3> QED BY <1>6, <1>9, <2>1, <3>1
  <2>2. CASE q # i /\ q <= i
    <3>1. q \in 1..i - 1 /\ q \in 1..i
      BY <1>1, <2>2
    <3>2. v[q] = d[q] /\ d[q] = a[q]
      BY <1>4, <1>7, <1>8, <3>1 DEF IsJoin, d
    <3> QED BY <1>4, <1>9, <2>2, <3>1, <3>2
  <2>3. CASE ~(q <= i)
    <3>1. PICK j \in 1..n - i : q = i + j
      <4>1. q - i \in 1..n - i /\ q = i + (q - i)
        BY <1>1, <2>3
      <4> QED BY <4>1
    <3>2. v[i + j] = b[j]
      BY <1>4, <1>7, <1>8, <3>1 DEF IsJoin, d
    <3>3. q # i
      BY <1>1, <2>3
    <3> QED BY <1>4, <1>9, <3>1, <3>2, <3>3
  <2> QED BY <1>1, <2>1, <2>2, <2>3
<1>12. u = v
  BY <1>9, <1>10, <1>11, SeqEqual
<1>13. NoDashes(v) = a \o b
  <2>1. NoDashes((a \o <<Dash>>) \o b) = NoDashes(a) \o NoDashes(b)
    BY <1>1, <1>4, DashBetween
  <2> QED BY <1>5, <2>1 DEF v, d, one
<1>14. Len(a \o b) = (i - 1) + (n - i)
  BY <1>4, ConcatProperties
<1>15. (i - 1) + (n - i) = n - 1
  BY <1>1
<1> QED BY <1>12, <1>13, <1>14, <1>15 DEF u

Refused(t, h) == t \in Seq(Chars) /\ Taken(t).key = Rejected /\ Taken(t).hint \in {h, NoHint} /\ Taken(t).entered = TRUE

\* A character of the ID typed wrong.
LEMMA SubstitutionRead ==
  ASSUME NEW k \in 0..KeySpace - 1, NEW h, IsAddress(h), NEW i \in 1..StandardLen, NEW c \in Chars,
         NormalizeID(ReplaceAt(StandardID(k) \o Suffix(h), i, c)) # NormalizeID(StandardID(k) \o Suffix(h))
  PROVE  Refused(ReplaceAt(StandardID(k) \o Suffix(h), i, c), h)
<1> DEFINE s == StandardID(k)
           x == Suffix(h)
           t == s \o x
           u == ReplaceAt(t, i, c)
           p == ReplaceAt(s, i, c)
           m == Len(x)
<1>1. /\ IsString(s, StandardLen, Letters) /\ Sound(s) /\ IsString(x, m, Letters) /\ m \in {0, V4Letters, V6Letters}
      /\ IsString(t, StandardLen + m, Letters)
  BY AnnouncedStandard
<1>2. /\ StandardLen \in Nat /\ Letters \in Nat /\ V4Letters \in Nat /\ V6Letters \in Nat /\ Dash \in Nat
      /\ Letters <= Base /\ Dash = Base
  BY SizesHold DEF Sizes
<1>3. c \in Nat /\ m \in Nat /\ i \in 1..StandardLen + m
  BY <1>1, <1>2, CharsOf
<1> HIDE DEF s, x, m, t
<1>4. /\ s \in Seq(Nat) /\ Len(s) = StandardLen /\ x \in Seq(Nat) /\ Undashed(s) /\ NormalizeID(s) = s
      /\ t \in Seq(Nat) /\ Len(t) = StandardLen + m /\ Undashed(t) /\ NormalizeID(t) = t
      /\ Undashed(x)
  BY <1>1, LettersAreNormal
<1>5. u \in Seq(Nat) /\ Len(u) = StandardLen + m /\ u[i] = c /\ \A q \in 1..StandardLen + m : q # i => u[q] = t[q]
  <2>1. /\ u \in Seq(Nat) /\ Len(u) = Len(t) /\ u[i] = c
        /\ \A q \in 1..Len(t) : q # i => u[q] = t[q]
    <3>1. i \in 1..Len(t)
      BY <1>3, <1>4
    <3> QED BY <1>3, <1>4, <3>1, ReplaceType, ZenonT(40)
  <2> HIDE DEF u
  <2> QED BY <1>4, <2>1
<1>6. p \in Seq(Nat) /\ Len(p) = StandardLen /\ p[i] = c /\ \A q \in 1..StandardLen : q # i => p[q] = s[q]
  BY <1>3, <1>4, ReplaceType, SMTT(30)
<1>7. u = p \o x
  BY <1>3, <1>4, ReplaceInFront DEF t
<1>8. u \in Seq(Chars)
  <2>1. t \in Seq(Chars) /\ i \in 1..Len(t)
    BY <1>1, <1>3, <1>4, CharsOf DEF IsString
  <2> QED BY <2>1, ExceptSeq DEF ReplaceAt
<1>9. NormalizeID(u) # NormalizeID(t)
  BY DEF t, s, x
<1>10. \A q \in 1..StandardLen + m : t[q] \in Nat /\ t[q] < Letters /\ Upper(t[q]) = t[q]
  <2>1. ASSUME NEW q \in 1..StandardLen + m PROVE t[q] \in Nat /\ t[q] < Letters /\ Upper(t[q]) = t[q]
    <3>1. t[q] \in Nat /\ t[q] < Letters
      BY <1>1, <1>2, SmallerDigits
    <3> QED BY <1>2, <3>1 DEF Upper
  <2> QED BY <2>1
<1>11. t[i] = s[i] /\ \A q \in 1..StandardLen : t[q] = s[q]
  <2>1. IsJoin(t, s, x)
    BY <1>4, Join DEF t
  <2> QED BY <1>4, <2>1 DEF IsJoin
<1>12. CASE c = Dash
  <2>1. Len(NoDashes(u)) = StandardLen + m - 1
    <3>1. Len(NoDashes(ReplaceAt(t, i, Dash))) = StandardLen + m - 1
      <4> DEFINE n == StandardLen + m
      <4>1. IsString(t, n, Letters) /\ i \in 1..n
        BY <1>1, <1>3
      <4> HIDE DEF n
      <4>2. Len(NoDashes(ReplaceAt(t, i, Dash))) = n - 1
        BY <4>1, DashForLetter
      <4> QED BY <1>2, <1>3, <4>2 DEF n
    <3> QED BY <1>12, <3>1
  <2> HIDE DEF u
  <2>2. Taken(u) = [key |-> Rejected, hint |-> NoHint, entered |-> TRUE]
    BY <1>1, <1>5, <2>1, ShortRead
  <2>3. Refused(u, h)
    BY <1>8, <2>2 DEF Refused
  <2> QED BY <2>3 DEF u, t, s, x
<1>13. CASE c # Dash
  <2> HIDE DEF p, u
  <2>1. Undashed(p) /\ Undashed(u)
    BY <1>4, <1>5, <1>6, <1>13 DEF Undashed
  <2>2. NoDashes(p) = p /\ NoDashes(u) = u
    BY <1>5, <1>6, <2>1, NothingToRemove
  <2>3. /\ NormalizeID(u) \in Seq(Nat) /\ Len(NormalizeID(u)) = StandardLen + m
        /\ \A q \in 1..StandardLen + m : NormalizeID(u)[q] = Upper(u[q])
    BY <1>5, <2>2, NormalizedType
  <2>4. Upper(c) # s[i]
    <3>1. SUFFICES ASSUME Upper(c) = s[i] PROVE FALSE
      OBVIOUS
    <3>2. \A q \in 1..StandardLen + m : NormalizeID(u)[q] = t[q]
      <4>1. ASSUME NEW q \in 1..StandardLen + m PROVE NormalizeID(u)[q] = t[q]
        <5>1. CASE q = i
          BY <1>5, <1>11, <2>3, <3>1, <5>1
        <5>2. CASE q # i
          BY <1>5, <1>10, <2>3, <5>2
        <5> QED BY <5>1, <5>2
      <4> QED BY <4>1
    <3>3. NormalizeID(u) = t
      BY <1>4, <2>3, <3>2, SeqEqual
    <3> QED BY <1>4, <1>9, <3>3
  <2>5. \A q \in 1..StandardLen : NormalizeID(p)[q] = Upper(p[q])
    BY <1>6, <2>2, NormalizedType
  <2>6. NormalizeID(p)[i] # s[i]
    BY <1>6, <2>4, <2>5
  <2>7. \A q \in 1..StandardLen : q # i => NormalizeID(p)[q] = s[q]
    <3>1. ASSUME NEW q \in 1..StandardLen, q # i PROVE NormalizeID(p)[q] = s[q]
      <4>1. q \in 1..StandardLen + m
        BY <1>2, <1>3
      <4>2. Upper(s[q]) = s[q]
        BY <1>10, <1>11, <4>1
      <4> QED BY <1>6, <2>5, <3>1, <4>2
    <3> QED BY <3>1
  <2>8. Len(NoDashes(p)) = StandardLen
    BY <1>6, <2>2
  <2>9. Standard(p) = Rejected
    BY <1>1, <1>6, <2>6, <2>7, <2>8, WrongRead
  <2>10. Taken(p \o Suffix(h)) = [key |-> Standard(p), hint |-> h, entered |-> TRUE]
    <3>1. Len(p) = StandardLen + 0
      BY <1>2, <1>6
    <3> QED BY <1>6, <2>8, <3>1, AnyHinted
  <2>11. Taken(u) = [key |-> Rejected, hint |-> h, entered |-> TRUE]
    BY <1>7, <2>9, <2>10 DEF x
  <2>12. Refused(u, h)
    BY <1>8, <2>11 DEF Refused
  <2> QED BY <2>12 DEF u, t, s, x
<1> QED BY <1>12, <1>13
\* Neither a check digit nor before one.
InChunk(i) == i % (GroupLen + 1) \notin {0, GroupLen}

\* Not the first and the last letter of the alphabet.
Telling(x, y) == {x, y} # {0, Letters - 1}

\* Two neighbours that changed places.
LEMMA TranspositionRead ==
  ASSUME NEW k \in 0..KeySpace - 1, NEW h, IsAddress(h), NEW i \in 1..StandardLen - 1,
         InChunk(i),
         NEW t, t = StandardID(k) \o Suffix(h), Telling(t[i], t[i + 1]),
         NormalizeID(ReplaceAt(ReplaceAt(t, i, t[i + 1]), i + 1, t[i])) # NormalizeID(t)
  PROVE  Refused(ReplaceAt(ReplaceAt(t, i, t[i + 1]), i + 1, t[i]), h)
<1> DEFINE s == StandardID(k)
           x == Suffix(h)
           a == t[i]
           b == t[i + 1]
           v == ReplaceAt(t, i, b)
           u == ReplaceAt(v, i + 1, a)
           w == ReplaceAt(s, i, b)
           p == ReplaceAt(w, i + 1, a)
           n == StandardLen
           m == Len(x)
<1>1. IsString(s, n, Letters) /\ Sound(s) /\ IsString(x, m, Letters) /\ IsString(t, n + m, Letters)
  BY AnnouncedStandard
<1>2. n \in Nat /\ Letters \in Nat
  BY SizesHold DEF Sizes
<1>3. t = s \o x
  OBVIOUS
<1> HIDE DEF s, x, m, n
<1>4. /\ s \in Seq(Nat) /\ Len(s) = n /\ x \in Seq(Nat) /\ Len(x) = m /\ m \in Nat
      /\ t \in Seq(Nat) /\ Len(t) = n + m /\ NormalizeID(t) = t
  <2>1. /\ s \in Seq(Nat) /\ Len(s) = n /\ x \in Seq(Nat) /\ Len(x) = m
        /\ t \in Seq(Nat) /\ Len(t) = n + m /\ NormalizeID(t) = t
    BY <1>1, LettersAreNormal
  <2>2. Len(x) \in Nat
    BY <2>1
  <2> QED BY <2>1, <2>2
<1>5. i \in 1..n /\ i + 1 \in 1..n /\ i \in 1..n + m /\ i + 1 \in 1..n + m /\ i # i + 1
  <2>1. i \in 1..n - 1
    BY DEF n
  <2> QED BY <1>2, <1>4, <2>1
<1>6. \A q \in 1..n : t[q] = s[q]
  <2>1. IsJoin(t, s, x)
    BY <1>3, <1>4, Join
  <2> QED BY <1>4, <2>1 DEF IsJoin
<1>7. a \in Nat /\ a < Letters /\ b \in Nat /\ b < Letters /\ a = s[i] /\ b = s[i + 1]
  <2>1. \A q \in 1..n : s[q] \in Nat /\ s[q] < Letters
    BY <1>1, <1>2, SmallerDigits
  <2> QED BY <1>5, <1>6, <2>1
<1>8. u # t
  <2>1. NormalizeID(u) # NormalizeID(t)
    OBVIOUS
  <2> HIDE DEF u
  <2> QED BY <2>1
<1> HIDE DEF a, b
<1>9. /\ v = w \o x
      /\ w \in Seq(Nat) /\ Len(w) = n /\ w[i] = b /\ \A q \in 1..n : q # i => w[q] = s[q]
  <2>1. v = w \o x
    <3>1. i \in 1..Len(s)
      BY <1>4, <1>5
    <3>2. ReplaceAt(s \o x, i, b) = ReplaceAt(s, i, b) \o x
      BY <1>4, <1>7, <3>1, ReplaceInFront, ZenonT(40)
    <3> QED BY <1>3, <3>2
  <2>2. w \in Seq(Nat) /\ Len(w) = Len(s) /\ w[i] = b /\ \A q \in 1..Len(s) : q # i => w[q] = s[q]
    <3>1. i \in 1..Len(s)
      BY <1>4, <1>5
    <3>2. s \in Seq(Nat) /\ b \in Nat
      BY <1>4, <1>7
    <3> QED BY <3>1, <3>2, ReplaceType
  <2> HIDE DEF w
  <2> QED BY <1>4, <2>1, <2>2
<1> HIDE DEF v, w
<1>10. /\ u = p \o x
       /\ p \in Seq(Nat) /\ Len(p) = n /\ p[i + 1] = a /\ \A q \in 1..n : q # i + 1 => p[q] = w[q]
  <2>2. i + 1 \in 1..Len(w)
    BY <1>5, <1>9
  <2>1. u = p \o x
    <3> DEFINE j == i + 1
    <3>1. j \in 1..Len(w) /\ w \in Seq(Nat) /\ x \in Seq(Nat) /\ a \in Nat
      BY <1>4, <1>7, <1>9, <2>2
    <3> HIDE DEF j
    <3>2. ReplaceAt(w \o x, j, a) = ReplaceAt(w, j, a) \o x
      BY <3>1, ReplaceInFront
    <3> QED BY <1>9, <3>2 DEF j
  <2>3. p \in Seq(Nat) /\ Len(p) = Len(w) /\ p[i + 1] = a /\ \A q \in 1..Len(w) : q # i + 1 => p[q] = w[q]
    <3> DEFINE j == i + 1
    <3>1. j \in 1..Len(w)
      BY <2>2
    <3> HIDE DEF j
    <3>2. /\ ReplaceAt(w, j, a) \in Seq(Nat) /\ Len(ReplaceAt(w, j, a)) = Len(w) /\ ReplaceAt(w, j, a)[j] = a
          /\ \A q \in 1..Len(w) : q # j => ReplaceAt(w, j, a)[q] = w[q]
      BY <1>7, <1>9, <3>1, ReplaceType, ZenonT(40)
    <3> QED BY <3>2 DEF j
  <2> HIDE DEF p
  <2> QED BY <1>9, <2>1, <2>3
<1> HIDE DEF u, p
<1>11. p[i] = s[i + 1] /\ p[i + 1] = s[i] /\ \A q \in 1..n : q # i /\ q # i + 1 => s[q] = p[q]
  BY <1>5, <1>7, <1>9, <1>10
<1>12. s[i] # s[i + 1]
  <2>1. SUFFICES ASSUME s[i] = s[i + 1] PROVE FALSE
    OBVIOUS
  <2>2. \A q \in 1..n : p[q] = s[q]
    BY <1>5, <1>11, <2>1
  <2>3. p = s
    BY <1>4, <1>10, <2>2, SeqEqual
  <2> QED BY <1>3, <1>8, <1>10, <2>3
<1>13. IsString(p, n, Letters)
  <2>1. \A q \in 1..n : p[q] \in 0..Letters - 1
    <3>1. ASSUME NEW q \in 1..n PROVE p[q] \in 0..Letters - 1
      <4>1. \A r \in 1..n : s[r] \in Nat /\ s[r] < Letters
        BY <1>1, <1>2, SmallerDigits
      <4>2. CASE q = i
        BY <1>2, <1>5, <1>11, <4>1, <4>2
      <4>3. CASE q = i + 1
        BY <1>2, <1>5, <1>11, <4>1, <4>3
      <4>4. CASE q # i /\ q # i + 1
        <5>1. p[q] = s[q] /\ s[q] \in Nat /\ s[q] < Letters
          BY <1>11, <4>1, <4>4
        <5> QED BY <1>2, <5>1
      <4> QED BY <4>2, <4>3, <4>4
    <3> QED BY <3>1
  <2> QED BY <1>10, <2>1, Narrower DEF IsString
<1>14. ~Sound(p)
  <2>1. {s[i], s[i + 1]} # {0, Letters - 1} /\ i % (GroupLen + 1) # 0 /\ i % (GroupLen + 1) # GroupLen
    BY <1>7 DEF a, b, InChunk, Telling
  <2> QED BY <1>1, <1>5, <1>11, <1>12, <1>13, <2>1, SwappedLetters DEF n
<1>15. NoDashes(p) = p /\ NormalizeID(p) = p /\ Decodable(p, Letters)
  BY <1>13, LettersAreNormal
<1>16. Standard(p) = Rejected
  BY <1>14, <1>15, UnsoundRejected DEF Standard
<1>17. Taken(u) = [key |-> Rejected, hint |-> h, entered |-> TRUE]
  <2>1. Len(p) = StandardLen + 0 /\ Len(NoDashes(p)) = StandardLen
    BY <1>2, <1>10, <1>15 DEF n
  <2>2. Taken(p \o Suffix(h)) = [key |-> Standard(p), hint |-> h, entered |-> TRUE]
    BY <1>10, <2>1, AnyHinted
  <2> QED BY <1>10, <1>16, <2>2 DEF x
<1>18. u \in Seq(Chars)
  <2>1. p \in Seq(Chars) /\ x \in Seq(Chars)
    BY <1>1, <1>13, CharsOf DEF IsString
  <2> QED BY <1>10, <2>1, ConcatProperties
<1>19. Refused(u, h)
  BY <1>17, <1>18 DEF Refused
<1> QED BY <1>19 DEF u, v, a, b
-----------------------------------------------------------------------------
(* DeviceIDEntry: an ID on its way. *)

\* What the server announces.
Announced(k, h, f) ==
  LET id == IF f = "compact" THEN EncodeBase63(k) ELSE StandardID(k)
  IN IF h = NoHint THEN id ELSE JoinRelayHint(id, h)

\* A string is taken for the device and its relay, or is no ID; its hint is then
\* recognised or not.
AsIt(t, k, h) == Taken(t) = [key |-> k, hint |-> h, entered |-> TRUE]

\* What the ID on its way will be taken for, entered now or later.
Expected ==
  /\ text \in Seq(Chars)
  /\ IF "typo" \notin slips /\ Recognised THEN AsIt(text, key, hint) ELSE Refused(text, hint)
  /\ slips = {} => text = Announced(key, hint, form)

EntryInv ==
  /\ key \in Keys /\ hint \in Addresses /\ form \in {"compact", "standard"}
  /\ slips \in {{}, {"dashes"}, {"lowerCase"}, {"typo"}}
  /\ form = "compact" => slips = {}
  /\ text = <<>> => slips = {}
  /\ text # <<>> => Expected
  /\ got = NotEntered \/ (text # <<>> /\ got = Taken(text))

\* What is announced, in both forms.
LEMMA AnnouncedIs ==
  ASSUME NEW k \in 0..KeySpace - 1, NEW h, IsAddress(h)
  PROVE  /\ Announced(k, h, "standard") = StandardID(k) \o Suffix(h)
         /\ h = NoHint => Announced(k, h, "compact") = EncodeBase63(k)
         /\ h # NoHint => Announced(k, h, "compact") = EncodeBase63(k) \o Digits(h.num, Base, HintDigits(h.kind))
<1> DEFINE s == StandardID(k)
           e == EncodeBase63(k)
<1>0. "standard" # "compact"
  OBVIOUS
<1>1. IsString(s, StandardLen, Letters) /\ IsString(e, CompactLen, Base)
  BY StandardRead, CompactRead
<1>2. s \in Seq(Nat) /\ Len(s) = StandardLen /\ NoDashes(s) = s /\ Len(e) = CompactLen
  BY <1>1, LettersAreNormal DEF IsString
<1>3. StandardLen # CompactLen
  <2>1. CompactLen \in Nat /\ StandardLen \in Nat
    BY SizesHold DEF Sizes
  <2>2. StandardSized(StandardLen)
    <3>1. StandardLen = StandardLen + 0 + 0
      BY <2>1
    <3> QED BY <3>1, Zenon DEF StandardSized
  <2>3. CompactSized(CompactLen)
    <3>1. CompactLen = CompactLen + 0
      BY <2>1
    <3> QED BY <3>1, Zenon DEF CompactSized
  <2> QED BY <2>2, <2>3, SizesApart
<1> HIDE DEF s, e
<1>4. CASE h = NoHint
  <2>1. Suffix(h) = <<>>
    BY <1>4, SuffixRead
  <2>2. s \o <<>> = s
    BY <1>2, ConcatEmptySeq
  <2>3. Announced(k, h, "standard") = s
    BY <1>0, <1>4 DEF Announced, s
  <2>4. Announced(k, h, "compact") = e
    BY <1>4 DEF Announced, e
  <2> QED BY <1>4, <2>1, <2>2, <2>3, <2>4 DEF s, e
<1>5. CASE h # NoHint
  <2>1. JoinRelayHint(s, h) = s \o Suffix(h)
    BY <1>2, <1>3, <1>5 DEF JoinRelayHint, Suffix
  <2>2. JoinRelayHint(e, h) = e \o Digits(h.num, Base, HintDigits(h.kind))
    BY <1>2 DEF JoinRelayHint
  <2>3. Announced(k, h, "standard") = JoinRelayHint(s, h)
    BY <1>0, <1>5 DEF Announced, s
  <2>4. Announced(k, h, "compact") = JoinRelayHint(e, h)
    BY <1>5 DEF Announced, e
  <2> QED BY <1>5, <2>1, <2>2, <2>3, <2>4 DEF s, e
<1> QED BY <1>4, <1>5

\* What is announced is understood, unless its hint has a digit too many.
LEMMA AnnouncedRead ==
  ASSUME NEW k \in 0..KeySpace - 1, NEW h, IsAddress(h), NEW f \in {"compact", "standard"}
  PROVE  /\ Announced(k, h, f) \in Seq(Chars)
         /\ IF f = "compact" /\ h.kind = "v4" => Fits(h.num, Base, V4Digits)
              THEN AsIt(Announced(k, h, f), k, h) ELSE Refused(Announced(k, h, f), h)
<1> DEFINE e == EncodeBase63(k)
           x == Digits(h.num, Base, HintDigits(h.kind))
           t == Announced(k, h, f)
<1>1. CASE f = "standard"
  <2>1. t = StandardID(k) \o Suffix(h)
    BY <1>1, AnnouncedIs
  <2>2. Taken(t) = [key |-> k, hint |-> h, entered |-> TRUE]
    BY <2>1, PlainRead
  <2>3. t \in Seq(Chars)
    <3>1. IsString(StandardID(k) \o Suffix(h), StandardLen + Len(Suffix(h)), Letters)
      BY AnnouncedStandard
    <3> QED BY <2>1, <3>1, CharsOf DEF IsString
  <2> QED BY <1>1, <2>2, <2>3 DEF AsIt
<1>2. CASE f = "compact" /\ h = NoHint
  <2>1. t = e
    BY <1>2, AnnouncedIs
  <2>2. SplitRelayHint(e) = [id |-> e, hint |-> NoHint] /\ DeviceIDFromString(e) = k
    BY CompactPlain
  <2>3. SplitRelayHint(e).id = e /\ SplitRelayHint(e).hint = h
    BY <1>2, <2>2
  <2>4. e \in Seq(Chars)
    BY CompactRead, CharsOf DEF IsString
  <2>5. h.kind # "v4"
    BY <1>2 DEF NoHint
  <2> QED BY <2>1, <2>2, <2>3, <2>4, <2>5 DEF AsIt, Taken
<1>3. CASE f = "compact" /\ h # NoHint
  <2> DEFINE q == h.kind
             n == h.num
  <2>1. q \in Kinds /\ n \in 0..Space(q) - 1 /\ h = [kind |-> q, num |-> n]
    BY <1>3, SuffixRead
  <2>2. t = e \o x
    BY <1>3, AnnouncedIs
  <2>3. CASE q = "v4" => Fits(n, Base, V4Digits)
    <3>1. SplitRelayHint(e \o x) = [id |-> e, hint |-> [kind |-> q, num |-> n]]
      BY <2>1, <2>3, CompactHinted
    <3>2. DeviceIDFromString(e) = k
      BY CompactPlain
    <3>3. SplitRelayHint(e \o x).id = e /\ SplitRelayHint(e \o x).hint = h
      BY <2>1, <3>1
    <3>4. e \o x \in Seq(Chars)
      <4>1. e \in Seq(0..Base - 1) /\ x \in Seq(0..Base - 1)
        BY <2>1, <2>3, CompactRead, HintDigitsRead DEF IsString
      <4>2. e \in Seq(Chars) /\ x \in Seq(Chars)
        BY <4>1, CharsOf
      <4> QED BY <4>2, ConcatProperties
    <3>5. AsIt(e \o x, k, h)
      BY <3>2, <3>3 DEF AsIt, Taken
    <3> QED BY <2>2, <2>3, <3>4, <3>5
  <2>4. CASE ~(q = "v4" => Fits(n, Base, V4Digits))
    <3>1. q = "v4" /\ ~Fits(n, Base, V4Digits) /\ n \in 0..Space("v4") - 1
      BY <2>1, <2>4
    <3>2. x = Digits(n, Base, V4Digits)
      BY <3>1 DEF HintDigits
    <3> DEFINE u == e \o Digits(n, Base, V4Digits)
    <3>3. u \in Seq(0..Base - 1) /\ SplitRelayHint(u) = [id |-> u, hint |-> NoHint] /\ DeviceIDFromString(u) = Rejected
      BY <3>1, CompactOverflow
    <3>4. t = u
      BY <2>2, <3>2
    <3> HIDE DEF u
    <3>5. SplitRelayHint(u).id = u /\ SplitRelayHint(u).hint = NoHint
      BY <3>3
    <3>6. u \in Seq(Chars)
      BY <3>3, CharsOf
    <3>7. Refused(u, h)
      BY <3>3, <3>5, <3>6 DEF Refused, Taken
    <3> QED BY <1>3, <2>4, <3>4, <3>6, <3>7
  <2> QED BY <2>3, <2>4
<1> QED BY <1>1, <1>2, <1>3

\* The ID and its hint are numbers the forms have room for.
LEMMA KeyAndAddress ==
  ASSUME key \in Keys, hint \in Addresses
  PROVE  key \in 0..KeySpace - 1 /\ IsAddress(hint)
<1>1. key \in 0..KeySpace - 1
  BY EntryAssumption DEF EntryAssumption
<1>2. hint \in {NoHint} \cup {V4(n) : n \in 0..V4Space - 1} \cup {V6(n) : n \in 0..V6Space - 1}
  BY EntryAssumption DEF EntryAssumption
<1>3. Space("v4") = V4Space /\ Space("v6") = V6Space
  BY DEF Space
<1>4. CASE hint = NoHint
  BY <1>1, <1>4 DEF IsAddress
<1>5. CASE \E n \in 0..V4Space - 1 : hint = V4(n)
  <2>1. PICK n \in 0..Space("v4") - 1 : hint = [kind |-> "v4", num |-> n]
    BY <1>3, <1>5 DEF V4
  <2>2. "v4" \in Kinds
    BY DEF Kinds
  <2> QED BY <1>1, <2>1, <2>2 DEF IsAddress
<1>6. CASE \E n \in 0..V6Space - 1 : hint = V6(n)
  <2>1. PICK n \in 0..Space("v6") - 1 : hint = [kind |-> "v6", num |-> n]
    BY <1>3, <1>6 DEF V6
  <2>2. "v6" \in Kinds
    BY DEF Kinds
  <2> QED BY <1>1, <2>1, <2>2 DEF IsAddress
<1> QED BY <1>2, <1>4, <1>5, <1>6
\* The groups of a standard ID with a hint are those of the ID.
LEMMA GroupOfFront ==
  ASSUME NEW s \in Seq(Nat), Len(s) = StandardLen, NEW x \in Seq(Nat), NEW g \in 1..Groups
  PROVE  Group(s \o x, g) = Group(s, g)
<1> DEFINE t == s \o x
<1>1. IsJoin(t, s, x)
  BY Join
<1>2. StandardLen \in Nat /\ Len(x) \in Nat
  BY SizesHold DEF Sizes
<1> HIDE DEF t
<1>3. t \in Seq(Nat) /\ StandardLen <= Len(t) /\ StandardLen <= Len(s) /\ \A q \in 1..StandardLen : t[q] = s[q]
  BY <1>1, <1>2 DEF IsJoin
<1>4. Grouped(t, g) /\ Grouped(s, g)
  BY <1>3, GroupsOf
<1>5. \A i \in 1..GroupLen + 1 : (g - 1) * (GroupLen + 1) + i \in 1..StandardLen
  BY GroupPlaces
<1>6. /\ Group(t, g) \in Seq(Nat) /\ Group(s, g) \in Seq(Nat)
      /\ Len(Group(t, g)) = GroupLen + 1 /\ Len(Group(s, g)) = GroupLen + 1
      /\ \A i \in 1..GroupLen + 1 : Group(t, g)[i] = t[(g - 1) * (GroupLen + 1) + i]
      /\ \A i \in 1..GroupLen + 1 : Group(s, g)[i] = s[(g - 1) * (GroupLen + 1) + i]
  BY <1>4 DEF Grouped
<1>7. \A i \in 1..GroupLen + 1 : Group(t, g)[i] = Group(s, g)[i]
  BY <1>3, <1>5, <1>6
<1>8. Group(t, g) = Group(s, g)
  BY <1>6, <1>7, SeqEqual
<1> QED BY <1>8 DEF t

\* A text in which characters are changed is not empty.
LEMMA StillThere ==
  ASSUME NEW t, NEW u, t \in Seq(Chars), t # <<>>, DOMAIN u = DOMAIN t
  PROVE  u # <<>>
<1>1. DOMAIN t # {}
  OBVIOUS
<1> QED BY <1>1

\* EntryInv is inductive.
LEMMA EntryInvHolds == EntrySpec => []EntryInv
<1>1. EntryInit => EntryInv
  BY DEF EntryInit, EntryInv
<1>2. EntryInv /\ [EntryNext]_entryVars => EntryInv'
  <2>1. SUFFICES ASSUME EntryInv, [EntryNext]_entryVars PROVE EntryInv'
    OBVIOUS
  <2>2. key \in 0..KeySpace - 1 /\ IsAddress(hint)
    BY <2>1, KeyAndAddress DEF EntryInv
  <2>3. ASSUME text # <<>>, ~got.entered, slips = {} PROVE text = Announced(key, hint, form) /\ got = NotEntered
    BY <2>1, <2>3 DEF EntryInv, Expected, Taken
  <2>4. ASSUME text # <<>>, ~got.entered, slips = {}, form = "standard"
        PROVE  text = StandardID(key) \o Suffix(hint)
    BY <2>2, <2>3, <2>4, AnnouncedIs
  <2>5. CASE Announce
    <3>1. text' = Announced(key, hint, form)
      BY <2>5 DEF Announce, Announced
    <3>2. slips' = {} /\ got' = NotEntered /\ UNCHANGED <<key, hint, form>> /\ slips = {}
      BY <2>1, <2>5 DEF EntryInv, Announce
    <3>3. form \in {"compact", "standard"}
      BY <2>1 DEF EntryInv
    <3>4. Recognised' <=> (form = "compact" /\ hint.kind = "v4" => Fits(hint.num, Base, V4Digits))
      BY <3>2 DEF Recognised
    <3>5. Expected'
      <4>1. /\ text' \in Seq(Chars)
            /\ IF form = "compact" /\ hint.kind = "v4" => Fits(hint.num, Base, V4Digits)
                 THEN AsIt(text', key, hint) ELSE Refused(text', hint)
        BY <2>2, <3>1, <3>3, AnnouncedRead
      <4>2. text' = Announced(key', hint', form')
        BY <3>1, <3>2
      <4> QED BY <3>2, <3>4, <4>1, <4>2 DEF Expected
    <3> QED BY <2>1, <3>2, <3>5 DEF EntryInv
  <2>6. CASE WriteDashes
    <3>1. /\ text # <<>> /\ ~got.entered /\ slips = {} /\ slips' = {"dashes"} /\ form = "standard"
          /\ UNCHANGED <<key, hint, form, got>>
      BY <2>6 DEF WriteDashes, Copying
    <3> DEFINE s == StandardID(key)
               x == Suffix(hint)
    <3>2. text = s \o x
      BY <2>4, <3>1
    <3>3. IsString(s, StandardLen, Letters) /\ IsString(x, Len(x), Letters)
      BY <2>2, AnnouncedStandard
    <3> HIDE DEF s, x
    <3>4. s \in Seq(Nat) /\ Len(s) = StandardLen /\ x \in Seq(Nat)
      BY <3>3, LettersAreNormal
    <3>5. After(text, StandardLen) = x
      BY <3>2, <3>4, Halves
    <3>6. ASSUME NEW g \in 1..Groups PROVE Group(text, g) = Group(s, g)
      BY <3>2, <3>4, GroupOfFront
    <3>7. text' = FlattenSeq([g \in 1..Groups |-> Group(text, g) \o (IF g < Groups THEN <<Dash>> ELSE <<>>)])
                  \o After(text, StandardLen)
      BY <2>6 DEF WriteDashes
    <3>8. [g \in 1..Groups |-> Group(text, g) \o (IF g < Groups THEN <<Dash>> ELSE <<>>)]
            = [g \in 1..Groups |-> Group(s, g) \o (IF g < Groups THEN <<Dash>> ELSE <<>>)]
      BY <3>6
    <3>9. text' = DashedID(s) \o x
      BY <3>5, <3>7, <3>8 DEF DashedID, Separator
    <3>10. text' \in Seq(Chars) /\ text' # <<>> /\ AsIt(text', key, hint)
      BY <2>2, <3>9, DashedRead DEF AsIt, s, x
    <3>11. Recognised' /\ "typo" \notin slips'
      BY <3>1 DEF Recognised
    <3>12. Expected'
      BY <3>1, <3>10, <3>11 DEF Expected
    <3> QED BY <2>1, <2>3, <3>1, <3>10, <3>12 DEF EntryInv
  <2>7. CASE WriteLowerCase
    <3>1. /\ text # <<>> /\ ~got.entered /\ slips = {} /\ slips' = {"lowerCase"} /\ form = "standard"
          /\ UNCHANGED <<key, hint, form, got>>
      BY <2>7 DEF WriteLowerCase, Copying
    <3>2. text = StandardID(key) \o Suffix(hint)
      BY <2>4, <3>1
    <3>3. text' = LowerText(StandardID(key) \o Suffix(hint))
      BY <2>7, <3>2 DEF WriteLowerCase, LowerText
    <3>4. /\ text' \in Seq(Chars)
          /\ IF \A i \in DOMAIN Suffix(hint) : Suffix(hint)[i] >= Cased
               THEN Taken(text') = [key |-> key, hint |-> hint, entered |-> TRUE]
               ELSE Taken(text') = [key |-> Rejected, hint |-> NoHint, entered |-> TRUE]
      BY <2>2, <3>3, LowerRead
    <3>5. Recognised' <=> \A i \in DOMAIN Suffix(hint) : Suffix(hint)[i] >= Cased
      <4>1. CASE hint = NoHint
        <5>1. Suffix(hint) = <<>>
          BY <4>1 DEF Suffix
        <5>2. \A i \in DOMAIN Suffix(hint) : Suffix(hint)[i] >= Cased
          BY <5>1
        <5> QED BY <3>1, <4>1, <5>2 DEF Recognised
      <4>2. CASE hint # NoHint
        <5>1. Suffix(hint) = EncodeLetters(hint.num, Space(hint.kind), HintLetters(hint.kind))
          BY <4>2 DEF Suffix
        <5> QED BY <3>1, <4>2, <5>1 DEF Recognised
      <4> QED BY <4>1, <4>2
    <3>6. Expected'
      <4>1. CASE Recognised'
        <5>1. AsIt(text', key, hint)
          BY <3>4, <3>5, <4>1 DEF AsIt
        <5> QED BY <3>1, <3>4, <4>1, <5>1 DEF Expected
      <4>2. CASE ~Recognised'
        <5>1. Refused(text', hint)
          BY <3>4, <3>5, <4>2 DEF Refused
        <5> QED BY <3>1, <3>4, <4>2, <5>1 DEF Expected
      <4> QED BY <4>1, <4>2
    <3>7. text' # <<>>
      <4>1. text \in Seq(Chars)
        BY <2>1, <3>1 DEF EntryInv, Expected
      <4>2. DOMAIN text' = DOMAIN text
        BY <2>7 DEF WriteLowerCase
      <4> QED BY <3>1, <4>1, <4>2, StillThere
    <3> QED BY <2>1, <2>3, <3>1, <3>6, <3>7 DEF EntryInv
  <2>8. CASE Mistype
    <3>1. /\ text # <<>> /\ ~got.entered /\ slips = {} /\ slips' = {"typo"} /\ form = "standard"
          /\ UNCHANGED <<key, hint, form, got>>
      BY <2>8 DEF Mistype, Copying
    <3>2. text = StandardID(key) \o Suffix(hint)
      BY <2>4, <3>1
    <3>3. text' \in Substitutions \cup Transpositions /\ NormalizeID(text') # NormalizeID(text)
      BY <2>8 DEF Mistype
    <3>6. Refused(text', hint)
      <4>1. CASE text' \in Substitutions
        <5>1. PICK i \in 1..StandardLen, c \in Chars : text' = ReplaceAt(text, i, c)
          BY <4>1 DEF Substitutions
        <5> QED BY <2>2, <3>2, <3>3, <5>1, SubstitutionRead
      <4>2. CASE text' \in Transpositions
        <5>1. PICK i \in {i \in 1..StandardLen - 1 : Swappable(i)} :
                text' = ReplaceAt(ReplaceAt(text, i, text[i + 1]), i + 1, text[i])
          BY <4>2 DEF Transpositions
        <5>2. i \in 1..StandardLen - 1 /\ InChunk(i) /\ Telling(text[i], text[i + 1])
          BY DEF Swappable, InChunk, Telling
        <5> QED BY <2>2, <3>2, <3>3, <5>1, <5>2, TranspositionRead
      <4> QED BY <3>3, <4>1, <4>2
    <3>7. Expected'
      BY <3>1, <3>6 DEF Expected, Refused
    <3>8. text' # <<>>
      <4>1. text \in Seq(Chars)
        BY <2>1, <3>1 DEF EntryInv, Expected
      <4>2. DOMAIN text' = DOMAIN text
        BY <3>3 DEF Substitutions, Transpositions, ReplaceAt
      <4> QED BY <3>1, <4>1, <4>2, StillThere
    <3> QED BY <2>1, <2>3, <3>1, <3>7, <3>8 DEF EntryInv
  <2>9. CASE Enter
    <3>1. text # <<>> /\ got' = Taken(text) /\ UNCHANGED <<key, hint, form, text, slips>>
      BY <2>9 DEF Enter, Taken
    <3>2. Expected' <=> Expected
      BY <3>1 DEF Expected, Recognised
    <3> QED BY <2>1, <3>1, <3>2 DEF EntryInv
  <2>10. CASE UNCHANGED entryVars
    <3>1. Expected' <=> Expected
      BY <2>10 DEF Expected, Recognised, entryVars
    <3> QED BY <2>1, <2>10, <3>1 DEF EntryInv, entryVars
  <2> QED BY <2>1, <2>5, <2>6, <2>7, <2>8, <2>9, <2>10 DEF EntryNext
<1> QED BY <1>1, <1>2, PTL DEF EntrySpec
-----------------------------------------------------------------------------
(* The theorems about an ID on its way. *)

\* An ID and what it is taken for are always of their types.
THEOREM EntryTypeCorrect == EntrySpec => []EntryTypeOK
<1>1. EntryInv => EntryTypeOK
  <2>1. SUFFICES ASSUME EntryInv PROVE EntryTypeOK
    OBVIOUS
  <2>2. key \in 0..KeySpace - 1 /\ IsAddress(hint)
    BY <2>1, KeyAndAddress DEF EntryInv
  <2>3. KeySpace \in Nat /\ Rejected = KeySpace /\ Rejected \in 0..KeySpace /\ key \in 0..KeySpace
    BY <2>2, SizesHold DEF Sizes, Rejected
  <2>4. NoHint.num \in 0..Space(NoHint.kind) - 1
    <3>1. NoHint.num = 0 /\ NoHint.kind = "none" /\ Space("none") = V6Space
      BY DEF NoHint, Space
    <3>2. V6Space \in Nat /\ V6Space > 0
      BY SizesHold DEF Sizes
    <3> QED BY <3>1, <3>2
  <2>5. hint.num \in 0..Space(hint.kind) - 1
    <3>1. CASE hint = NoHint
      BY <2>4, <3>1
    <3>2. CASE hint # NoHint
      BY <2>2, <3>2, SuffixRead
    <3> QED BY <3>1, <3>2
  <2>6. text \in Seq(Chars)
    <3>1. CASE text = <<>>
      BY <3>1, EmptySeq
    <3>2. CASE text # <<>>
      BY <2>1, <3>2 DEF EntryInv, Expected
    <3> QED BY <3>1, <3>2
  <2>7. got.key \in 0..KeySpace /\ got.hint \in {hint, NoHint} /\ got.entered \in BOOLEAN
    <3>1. CASE got = NotEntered
      BY <2>3, <3>1 DEF NotEntered
    <3>2. CASE got = Taken(text) /\ text # <<>>
      <4>1. AsIt(text, key, hint) \/ Refused(text, hint)
        BY <2>1, <3>2 DEF EntryInv, Expected
      <4>2. CASE AsIt(text, key, hint)
        <5>1. got.key = key /\ got.hint = hint /\ got.entered = TRUE
          BY <3>2, <4>2 DEF AsIt
        <5> QED BY <2>3, <5>1
      <4>3. CASE Refused(text, hint)
        <5>1. got.key = Rejected /\ got.hint \in {hint, NoHint} /\ got.entered = TRUE
          BY <3>2, <4>3 DEF Refused
        <5> QED BY <2>3, <5>1
      <4> QED BY <4>1, <4>2, <4>3
    <3> QED BY <2>1, <3>1, <3>2 DEF EntryInv
  <2>8. key \in Keys /\ hint \in Addresses /\ form \in {"compact", "standard"} /\ slips \subseteq {"dashes", "lowerCase", "typo"}
    BY <2>1 DEF EntryInv
  <2> QED BY <2>4, <2>5, <2>6, <2>7, <2>8 DEF EntryTypeOK
<1> QED BY <1>1, EntryInvHolds, PTL

\* Every device ID, with every hint, that was copied without a typo is taken for what
\* it is or refused as a whole (identity.go:95-188, 344-377).
THEOREM CleanCopyIsUnderstood == EntrySpec => []CleanCopyUnderstood
<1>1. EntryInv => CleanCopyUnderstood
  <2>1. SUFFICES ASSUME EntryInv, got.entered, "typo" \notin slips
        PROVE IF Recognised THEN got.key = key /\ got.hint = hint ELSE got.key = Rejected
    BY DEF CleanCopyUnderstood
  <2>2. got = Taken(text) /\ Expected
    BY <2>1 DEF EntryInv, NotEntered
  <2>3. CASE Recognised
    BY <2>1, <2>2, <2>3 DEF Expected, AsIt
  <2>4. CASE ~Recognised
    BY <2>1, <2>2, <2>4 DEF Expected, Refused
  <2> QED BY <2>3, <2>4
<1> QED BY <1>1, EntryInvHolds, PTL

\* No wrong letter and no two neighbours in the wrong order get past the check digits
\* of any device ID, with any hint behind it (identity.go:364-374, 379-407).
THEOREM TyposAreNoticed == EntrySpec => []TypoNoticed
<1>1. EntryInv => TypoNoticed
  <2>1. SUFFICES ASSUME EntryInv, got.entered, "typo" \in slips PROVE got.key = Rejected
    BY DEF TypoNoticed
  <2>2. got = Taken(text) /\ Expected
    BY <2>1 DEF EntryInv, NotEntered
  <2> QED BY <2>1, <2>2 DEF Expected, Refused
<1> QED BY <1>1, EntryInvHolds, PTL

-----------------------------------------------------------------------------
(* The identity file. *)

\* The places of a start that has found no identity.
Making == {"generate", "open", "write"}

(* While no trouble occurs one start at most makes the identity, it makes it *)
(* only when the file holds none, and what is announced is in the file.      *)
OneMaker == \A p, q \in Procs : p # q => ~(pc[p] \in Making /\ pc[q] \in Making)
MadeWhenMissing == \A p \in Procs : pc[p] \in Making => Identity(file) = None
AnnouncedIsSaved == announced = {} \/ (Identity(file) # None /\ announced = {Identity(file)})

States == {"down", "load", "generate", "open", "write", "running"}

Types ==
  /\ pc \in [Procs -> States] /\ seed \in [Procs -> Seeds \cup {None}]
  /\ \A p \in Procs : pc[p] \in {"open", "write"} => seed[p] \in Seeds

IInv == Types /\ (trouble = {} => OneMaker /\ MadeWhenMissing /\ AnnouncedIsSaved)

(* And as long as no two make it at the same time, who writes finds the file *)
(* as it was when it was truncated, whatever else goes wrong.                *)
Cleared == \A p \in Procs : pc[p] = "write" => file = Text(<<>>)
WInv == Types /\ ("overlap" \notin trouble => OneMaker /\ Cleared)

USE DEF States

\* A text that is shorter than a seed's holds no identity, a seed's text holds
\* the seed's (identity.go:50-75).
LEMMA ShortTextHoldsNone ==
  ASSUME NEW s \in Seeds, NEW n \in 0..CompactLen - 1
  PROVE  Identity(Text(First(EncodeBase63(s), n))) = None
<1> DEFINE e == EncodeBase63(s)
<1>1. s \in 0..KeySpace - 1
  BY StoreAssumption
<1>2. IsString(e, CompactLen, Base)
  BY <1>1, CompactRead
<1>3. e \in Seq(0..Base - 1) /\ Len(e) = CompactLen /\ CompactLen \in Nat
  BY <1>2, SizesHold DEF IsString, Sizes
<1> HIDE DEF e
<1>4. First(e, n) = SubSeq(e, 1, n)
  BY DEF First
<1>5. Len(First(e, n)) = n
  BY <1>3, <1>4
<1>6. DecodeBase63(First(e, n)) = Rejected
  BY <1>3, <1>5 DEF DecodeBase63
<1> QED BY <1>6 DEF Identity, Text, None, e

\* Nor does the file that was only truncated.
LEMMA EmptyTextHoldsNone == Identity(Text(<<>>)) = None
<1>1. Len(<<>>) # CompactLen
  BY SizesHold DEF Sizes
<1>2. DecodeBase63(<<>>) = Rejected
  BY <1>1 DEF DecodeBase63
<1> QED BY <1>2 DEF Identity, Text, None

\* The file that was written whole.
LEMMA SeedTextHoldsSeed ==
  ASSUME NEW s \in Seeds
  PROVE  /\ Identity(Text(EncodeBase63(s))) = DeviceKey[s]
         /\ DeviceKey[s] # None
<1>1. s \in 0..KeySpace - 1 /\ DeviceKey[s] \in 0..KeySpace - 1 /\ KeySpace \in Nat
  BY StoreAssumption, SizesHold DEF Sizes
<1>2. DecodeBase63(EncodeBase63(s)) = s
  BY <1>1, CompactRead
<1>3. s # Rejected /\ DeviceKey[s] # Rejected
  BY <1>1 DEF Rejected
<1> QED BY <1>2, <1>3 DEF Identity, Text, None

-----------------------------------------------------------------------------

\* A process that has not started makes and announces nothing.
LEMMA InitIInv == Init => IInv
<1> SUFFICES ASSUME Init PROVE IInv
  OBVIOUS
<1>1. \A p \in Procs : pc[p] = "down"
  BY DEF Init
<1>2. Types
  BY DEF Init, Types
<1>3. OneMaker /\ MadeWhenMissing /\ AnnouncedIsSaved
  BY <1>1 DEF Init, OneMaker, MadeWhenMissing, AnnouncedIsSaved, Making
<1> QED BY <1>2, <1>3 DEF IInv

\* What is written to a truncated file is all there is in it.
LEMMA WrittenAlone ==
  ASSUME NEW p \in Procs, WInv, "overlap" \notin trouble, pc[p] = "write",
         NEW n \in 0..CompactLen
  PROVE  /\ seed[p] \in Seeds
         /\ Overwritten(EncodeBase63(seed[p])) = Text(EncodeBase63(seed[p]))
         /\ Overwritten(First(EncodeBase63(seed[p]), n)) = Text(First(EncodeBase63(seed[p]), n))
         /\ n = CompactLen => First(EncodeBase63(seed[p]), n) = EncodeBase63(seed[p])
<1> DEFINE e == EncodeBase63(seed[p])
           digits == 0..Base - 1
<1>1. seed[p] \in Seeds /\ file = Text(<<>>)
  BY DEF WInv, Types, Cleared
<1>2. IsString(e, CompactLen, Base)
  BY <1>1, StoreAssumption, CompactRead
<1>3. e \in Seq(digits) /\ Len(e) = CompactLen /\ CompactLen \in Nat
  BY <1>2, SizesHold DEF IsString, Sizes
<1> HIDE DEF e, digits
<1>4. First(e, n) = SubSeq(e, 1, n) /\ First(e, n) \in Seq(digits)
  BY <1>3 DEF First
<1>5. ASSUME NEW t \in Seq(digits) PROVE Overwritten(t) = Text(t)
  <2>1. file.text = <<>>
    BY <1>1 DEF Text
  <2>2. After(<<>>, Len(t)) = <<>>
    BY <1>5 DEF After
  <2>3. t \o <<>> = t
    BY <1>5
  <2> QED BY <2>1, <2>2, <2>3 DEF Overwritten
<1>6. n = CompactLen => First(e, n) = e
  BY <1>3, <1>4
<1> QED BY <1>1, <1>3, <1>4, <1>5, <1>6 DEF e

\* A step that leaves the file and the announced identities alone, and starts no
\* making, keeps the invariant.
LEMMA Elsewhere ==
  ASSUME IInv, Types', UNCHANGED <<file, announced>>, trouble \subseteq trouble',
         \A q \in Procs : pc'[q] \in Making => pc[q] \in Making
  PROVE  IInv'
<1> SUFFICES ASSUME trouble' = {} PROVE OneMaker' /\ MadeWhenMissing' /\ AnnouncedIsSaved'
  BY DEF IInv
<1>1. OneMaker /\ MadeWhenMissing /\ AnnouncedIsSaved
  BY DEF IInv
<1>2. OneMaker'
  BY <1>1 DEF OneMaker
<1>3. MadeWhenMissing'
  BY <1>1 DEF MadeWhenMissing
<1>4. AnnouncedIsSaved'
  BY <1>1 DEF AnnouncedIsSaved
<1> QED BY <1>2, <1>3, <1>4

\* A start that has drawn a seed keeps it until it is written.
LEMMA NextTypes == ASSUME Types, Next PROVE Types'
<1> USE DEF Types, Goto
<1>1. ASSUME NEW p \in Procs, Start(p) \/ Load(p) \/ LoadFails(p) PROVE Types'
  BY <1>1 DEF Start, Load, LoadFails
<1>2. ASSUME NEW p \in Procs, Generate(p) PROVE Types'
  BY <1>2 DEF Generate
<1>3. ASSUME NEW p \in Procs, OpenFile(p) PROVE Types'
  BY <1>3 DEF OpenFile
<1>4. ASSUME NEW p \in Procs, WriteSeed(p) \/ WriteFails(p) \/ Crash(p) PROVE Types'
  BY <1>4 DEF WriteSeed, WriteFails, Crash
<1>5. Sync \/ PowerLoss => Types'
  BY DEF Sync, PowerLoss
<1> QED BY <1>1, <1>2, <1>3, <1>4, <1>5 DEF Next

\* A second maker is noted as an overlap when it starts making, and the one maker
\* that there is otherwise has truncated the file itself.
LEMMA NextWInv == ASSUME WInv, [Next]_vars PROVE WInv'
<1>1. CASE UNCHANGED vars
  BY <1>1 DEF vars, WInv, Types, OneMaker, Cleared
<1> SUFFICES ASSUME Next, "overlap" \notin trouble' PROVE OneMaker' /\ Cleared'
  BY <1>1, NextTypes DEF WInv
<1>2. "overlap" \notin trouble
  <2>1. trouble \subseteq trouble'
    BY DEF Next, Start, Load, LoadFails, Generate, OpenFile, WriteSeed, WriteFails, Crash,
           Sync, PowerLoss
  <2> QED BY <2>1
<1>3. Types /\ Types' /\ OneMaker /\ Cleared
  BY <1>2, NextTypes DEF WInv
<1>4. ASSUME UNCHANGED file,
             \A q \in Procs : /\ pc'[q] \in Making => pc[q] \in Making
                              /\ pc'[q] = "write" => pc[q] = "write"
      PROVE  OneMaker' /\ Cleared'
  BY <1>3, <1>4 DEF OneMaker, Cleared
<1>5. ASSUME NEW p \in Procs, Load(p) \/ LoadFails(p) PROVE OneMaker' /\ Cleared'
  <2>1. UNCHANGED file /\ \A q \in Procs : pc'[q] = "write" => pc[q] = "write"
    BY <1>3, <1>5 DEF Load, LoadFails, Goto, Types
  <2>2. CASE pc' = [pc EXCEPT ![p] = "running"]
    BY <1>3, <1>4, <2>1, <2>2 DEF Making, Types
  <2>3. CASE pc' = [pc EXCEPT ![p] = "generate"]
    <3>1. ~Generating(p)
      BY <1>3, <1>5, <2>3 DEF Load, LoadFails, Goto, Types
    <3>2. \A q \in Procs \ {p} : pc'[q] = pc[q] /\ pc[q] \notin Making
      BY <1>3, <2>3, <3>1 DEF Generating, Making, Types
    <3> QED BY <1>3, <2>1, <3>2 DEF OneMaker, Cleared
  <2> QED BY <1>5, <2>2, <2>3 DEF Load, LoadFails, Goto
<1>6. ASSUME NEW p \in Procs, Start(p) \/ Generate(p) \/ Crash(p)
      PROVE  OneMaker' /\ Cleared'
  <2>1. UNCHANGED file
    BY <1>6 DEF Start, Generate, Crash
  <2>2. \A q \in Procs : /\ pc'[q] \in Making => pc[q] \in Making
                         /\ pc'[q] = "write" => pc[q] = "write"
    BY <1>3, <1>6 DEF Start, Generate, Crash, Goto, Making, Types
  <2> QED BY <1>4, <2>1, <2>2
<1>7. ASSUME NEW p \in Procs, OpenFile(p) PROVE OneMaker' /\ Cleared'
  <2>1. \A q \in Procs : pc'[q] \in Making => pc[q] \in Making
    BY <1>3, <1>7 DEF OpenFile, Goto, Making, Types
  <2>2. CASE file' = Text(<<>>)
    BY <1>3, <2>1, <2>2 DEF OneMaker, Cleared
  <2>3. CASE UNCHANGED file /\ pc' = [pc EXCEPT ![p] = "down"]
    BY <1>3, <1>4, <2>1, <2>3 DEF Types
  <2> QED BY <1>7, <2>2, <2>3 DEF OpenFile, Goto
<1>8. ASSUME NEW p \in Procs, WriteSeed(p) \/ WriteFails(p) PROVE OneMaker' /\ Cleared'
  <2>1. pc[p] \in Making
    BY <1>8 DEF WriteSeed, WriteFails, Making
  <2>2. \A q \in Procs : pc'[q] \notin Making
    BY <1>3, <1>8, <2>1 DEF WriteSeed, WriteFails, Goto, OneMaker, Making, Types
  <2> QED BY <2>2 DEF OneMaker, Cleared, Making
<1>9. CASE Sync
  BY <1>4, <1>9 DEF Sync
<1>10. CASE PowerLoss
  BY <1>10 DEF PowerLoss, OneMaker, Cleared, Making
<1> QED
  BY <1>5, <1>6, <1>7, <1>8, <1>9, <1>10 DEF Next

LEMMA WInvAlways == Spec => []WInv
<1>1. Init => WInv
  <2> SUFFICES ASSUME Init PROVE WInv
    OBVIOUS
  <2>1. Types /\ \A p \in Procs : pc[p] = "down"
    BY InitIInv DEF IInv, Init
  <2> QED BY <2>1 DEF WInv, OneMaker, Cleared, Making
<1> QED BY <1>1, NextWInv, PTL DEF Spec

\* Only the one maker opens and writes the file, and only then is there something
\* to announce.
LEMMA NextIInv == ASSUME IInv, WInv, [Next]_vars PROVE IInv'
<1>1. CASE UNCHANGED vars
  BY <1>1 DEF vars, IInv, Types, OneMaker, MadeWhenMissing, AnnouncedIsSaved
<1> SUFFICES ASSUME Next PROVE IInv'
  BY <1>1
<1>2. Types /\ Types'
  BY NextTypes DEF IInv
<1>3. ASSUME NEW p \in Procs, Start(p) PROVE IInv'
  BY <1>2, <1>3, Elsewhere DEF Start, Goto, Making, Types
<1>4. ASSUME NEW p \in Procs, Load(p) PROVE IInv'
  <2>1. CASE Identity(file) # None
    <3> SUFFICES ASSUME trouble' = {} PROVE OneMaker' /\ MadeWhenMissing' /\ AnnouncedIsSaved'
      BY <1>2 DEF IInv
    <3>1. UNCHANGED file /\ trouble = {} /\ announced' = announced \cup {Identity(file)}
      BY <1>4, <2>1 DEF Load
    <3>2. OneMaker /\ MadeWhenMissing /\ AnnouncedIsSaved
      BY <3>1 DEF IInv
    <3>3. \A q \in Procs : pc'[q] \in Making => pc[q] \in Making
      BY <1>2, <1>4, <2>1 DEF Load, Goto, Making, Types
    <3>4. OneMaker' /\ MadeWhenMissing'
      BY <3>1, <3>2, <3>3 DEF OneMaker, MadeWhenMissing
    <3>5. announced' = {Identity(file)}
      BY <3>1, <3>2 DEF AnnouncedIsSaved
    <3> QED BY <2>1, <3>1, <3>4, <3>5 DEF AnnouncedIsSaved
  <2>2. CASE Identity(file) = None
    <3> SUFFICES ASSUME trouble' = {} PROVE OneMaker' /\ MadeWhenMissing' /\ AnnouncedIsSaved'
      BY <1>2 DEF IInv
    <3>1. UNCHANGED <<file, announced>> /\ trouble = {} /\ ~Generating(p)
      BY <1>4, <2>2 DEF Load
    <3>2. OneMaker /\ MadeWhenMissing /\ AnnouncedIsSaved
      BY <3>1 DEF IInv
    <3>3. \A q \in Procs \ {p} : pc'[q] = pc[q] /\ pc[q] \notin Making
      BY <1>2, <1>4, <3>1 DEF Load, Goto, Generating, Making, Types
    <3>4. OneMaker' /\ MadeWhenMissing'
      BY <2>2, <3>1, <3>3 DEF OneMaker, MadeWhenMissing
    <3>5. AnnouncedIsSaved'
      BY <3>1, <3>2 DEF AnnouncedIsSaved
    <3> QED BY <3>4, <3>5
  <2> QED BY <2>1, <2>2
<1>5. ASSUME NEW p \in Procs, LoadFails(p) PROVE IInv'
  BY <1>2, <1>5 DEF LoadFails, IInv
<1>6. ASSUME NEW p \in Procs, Generate(p) PROVE IInv'
  BY <1>2, <1>6, Elsewhere DEF Generate, Goto, Making, Types
<1>7. ASSUME NEW p \in Procs, OpenFile(p) PROVE IInv'
  <2>1. \A q \in Procs : pc'[q] \in Making => pc[q] \in Making
    BY <1>2, <1>7 DEF OpenFile, Goto, Making, Types
  <2>2. CASE UNCHANGED file
    BY <1>2, <1>7, <2>1, <2>2, Elsewhere DEF OpenFile
  <2>3. CASE file' = Text(<<>>)
    <3> SUFFICES ASSUME trouble' = {} PROVE OneMaker' /\ MadeWhenMissing' /\ AnnouncedIsSaved'
      BY <1>2 DEF IInv
    <3>1. trouble = {} /\ UNCHANGED announced /\ pc[p] \in Making
      BY <1>7 DEF OpenFile, Making
    <3>2. OneMaker /\ MadeWhenMissing /\ AnnouncedIsSaved
      BY <3>1 DEF IInv
    <3>3. announced = {}
      BY <3>1, <3>2 DEF MadeWhenMissing, AnnouncedIsSaved
    <3>4. Identity(file') = None
      BY <2>3, EmptyTextHoldsNone
    <3> QED BY <2>1, <3>1, <3>2, <3>3, <3>4 DEF OneMaker, MadeWhenMissing, AnnouncedIsSaved
  <2> QED BY <1>7, <2>2, <2>3 DEF OpenFile
<1>8. ASSUME NEW p \in Procs, WriteSeed(p) PROVE IInv'
  <2> SUFFICES ASSUME trouble' = {} PROVE OneMaker' /\ MadeWhenMissing' /\ AnnouncedIsSaved'
    BY <1>2 DEF IInv
  <2>1. trouble = {} /\ pc[p] \in Making /\ seed[p] \in Seeds
    BY <1>2, <1>8 DEF WriteSeed, Making, Types
  <2>2. OneMaker /\ MadeWhenMissing /\ AnnouncedIsSaved
    BY <2>1 DEF IInv
  <2>3. announced = {}
    BY <2>1, <2>2 DEF MadeWhenMissing, AnnouncedIsSaved
  <2>4. \A q \in Procs : pc'[q] \notin Making
    BY <1>2, <1>8, <2>1, <2>2 DEF WriteSeed, Goto, OneMaker, Making, Types
  <2>5. Identity(file') = DeviceKey[seed[p]] /\ DeviceKey[seed[p]] # None
    <3>1. pc[p] = "write" /\ file' = Overwritten(EncodeBase63(seed[p]))
      BY <1>8 DEF WriteSeed
    <3>2. CompactLen \in 0..CompactLen
      BY SizesHold DEF Sizes
    <3>3. file' = Text(EncodeBase63(seed[p]))
      BY <2>1, <3>1, <3>2, WrittenAlone
    <3> QED BY <2>1, <3>3, SeedTextHoldsSeed
  <2>6. announced' = {DeviceKey[seed[p]]}
    BY <1>8, <2>3 DEF WriteSeed
  <2> QED BY <2>4, <2>5, <2>6 DEF OneMaker, MadeWhenMissing, AnnouncedIsSaved
<1>9. ASSUME NEW p \in Procs, WriteFails(p) PROVE IInv'
  <2> SUFFICES ASSUME trouble' = {} PROVE OneMaker' /\ MadeWhenMissing' /\ AnnouncedIsSaved'
    BY <1>2 DEF IInv
  <2>1. trouble = {} /\ pc[p] \in Making /\ seed[p] \in Seeds
    BY <1>2, <1>9 DEF WriteFails, Making, Types
  <2>2. OneMaker /\ MadeWhenMissing /\ AnnouncedIsSaved
    BY <2>1 DEF IInv
  <2>3. announced' = {}
    BY <1>9, <2>1, <2>2 DEF WriteFails, MadeWhenMissing, AnnouncedIsSaved
  <2>4. \A q \in Procs : pc'[q] \notin Making
    BY <1>2, <1>9, <2>1, <2>2 DEF WriteFails, Goto, OneMaker, Making, Types
  <2> QED BY <2>3, <2>4 DEF OneMaker, MadeWhenMissing, AnnouncedIsSaved
<1>10. ASSUME NEW p \in Procs, Crash(p) PROVE IInv'
  BY <1>2, <1>10, Elsewhere DEF Crash, Goto, Making, Types
<1>11. CASE Sync
  BY <1>2, <1>11, Elsewhere DEF Sync
<1>12. CASE PowerLoss
  BY <1>2, <1>12 DEF PowerLoss, IInv
<1> QED
  BY <1>3, <1>4, <1>5, <1>6, <1>7, <1>8, <1>9, <1>10, <1>11, <1>12 DEF Next

\* What is in one file is one identity.
LEMMA IInvImpliesStable == IInv => StableIdentity
<1> SUFFICES ASSUME IInv, trouble = {} PROVE Cardinality(announced) <= 1
  BY DEF StableIdentity
<1>1. CASE announced = {}
  <2>1. Cardinality(announced) = 0
    BY <1>1, FS_EmptySet
  <2> QED BY <2>1
<1>2. CASE announced = {Identity(file)}
  <2>1. Cardinality(announced) = 1
    BY <1>2, FS_Singleton
  <2> QED BY <2>1
<1> QED BY <1>1, <1>2 DEF IInv, AnnouncedIsSaved

\* The type invariant.
THEOREM TypeCorrect == Spec => []TypeOK
<1>1. ASSUME Init PROVE TypeOK
  <2>1. file.type \in {"absent", "text", "pem"}
    BY <1>1, StoreAssumption DEF Init, Absent, Text, Pem
  <2>2. starts \in 0..MaxStarts
    BY <1>1, StoreAssumption DEF Init
  <2> QED BY <1>1, <2>1, <2>2 DEF Init, TypeOK
<1>2. ASSUME TypeOK, [Next]_vars PROVE TypeOK'
  <2> USE DEF TypeOK, Goto
  <2>1. CASE UNCHANGED vars
    BY <1>2, <2>1 DEF vars
  <2>2. ASSUME NEW p \in Procs, Start(p) PROVE TypeOK'
    BY <1>2, <2>2, StoreAssumption DEF Start
  <2>3. ASSUME NEW p \in Procs, Load(p) PROVE TypeOK'
    BY <1>2, <2>3 DEF Load
  <2>4. ASSUME NEW p \in Procs, LoadFails(p) PROVE TypeOK'
    BY <1>2, <2>4 DEF LoadFails
  <2>5. ASSUME NEW p \in Procs, Generate(p) PROVE TypeOK'
    BY <1>2, <2>5 DEF Generate
  <2>6. ASSUME NEW p \in Procs, OpenFile(p) PROVE TypeOK'
    <3>1. file'.type \in {"absent", "text", "pem"} /\ dirty' \in BOOLEAN
      <4>1. CASE file' = Text(<<>>)
        <5>1. file'.type = "text"
          BY <4>1 DEF Text
        <5>2. dirty' \in BOOLEAN
          BY <1>2, <2>6 DEF OpenFile
        <5> QED BY <5>1, <5>2
      <4>2. CASE UNCHANGED <<file, dirty>>
        BY <1>2, <4>2
      <4> QED BY <2>6, <4>1, <4>2 DEF OpenFile
    <3>2. \E place \in {"down", "write"} : pc' = [pc EXCEPT ![p] = place]
      BY <2>6 DEF OpenFile
    <3>3. UNCHANGED <<seed, drawn, starts, trouble>>
      BY <2>6 DEF OpenFile
    <3> QED BY <1>2, <3>1, <3>2, <3>3
  <2>7. ASSUME NEW p \in Procs, WriteSeed(p) PROVE TypeOK'
    <3>1. file'.type = "text"
      BY <2>7 DEF WriteSeed, Overwritten, Text
    <3> QED BY <1>2, <2>7, <3>1 DEF WriteSeed
  <2>8. ASSUME NEW p \in Procs, WriteFails(p) PROVE TypeOK'
    <3>1. file'.type = "text"
      BY <2>8 DEF WriteFails, Overwritten, Text
    <3> QED BY <1>2, <2>8, <3>1 DEF WriteFails
  <2>9. ASSUME NEW p \in Procs, Crash(p) PROVE TypeOK'
    BY <1>2, <2>9 DEF Crash
  <2>10. CASE Sync
    BY <1>2, <2>10 DEF Sync
  <2>11. CASE PowerLoss
    <3>1. /\ UNCHANGED <<seed, drawn, starts>> /\ dirty' = FALSE
          /\ trouble' = trouble \cup {"powerLoss"}
          /\ pc' = [p \in Procs |-> "down"]
      BY <2>11 DEF PowerLoss
    <3>2. file'.type = "text"
      BY <2>11 DEF PowerLoss, Text
    <3> QED BY <1>2, <3>1, <3>2
  <2> QED BY <1>2, <2>1, <2>2, <2>3, <2>4, <2>5, <2>6, <2>7, <2>8, <2>9, <2>10, <2>11 DEF Next
<1> QED BY <1>1, <1>2, PTL DEF Spec

\* All starts with a file run with one identity, wherever any of them crashes or
\* fails to write, unless two make it at once, a read fails or the power goes
\* (identity.go:206-233).
THEOREM IdentityIsStable == Spec => []StableIdentity
<1>1. Init => IInv
  BY InitIInv
<1>2. IInv /\ WInv /\ [Next]_vars => IInv'
  BY NextIInv
<1>3. IInv => StableIdentity
  BY IInvImpliesStable
<1> QED BY <1>1, <1>2, <1>3, WInvAlways, PTL DEF Spec

-----------------------------------------------------------------------------
(* That no identity comes from a torn file, whatever happens. *)

Known == {DeviceKey[s] : s \in drawn} \cup {Identity(f) : f \in InitialFiles}

\* What the file holds is known, and so is what will be written to it.
GInv ==
  /\ Types /\ drawn \subseteq Seeds
  /\ \A p \in Procs : pc[p] \in {"open", "write"} => seed[p] \in drawn
  /\ "overlap" \notin trouble =>
       /\ Identity(file) # None => Identity(file) \in Known
       /\ announced \subseteq Known

\* Each action that puts something into the file, or announces something.
LEMMA NextGInv == ASSUME GInv, WInv, [Next]_vars PROVE GInv'
<1>1. CASE UNCHANGED vars
  BY <1>1 DEF vars, GInv, Types, Known
<1> SUFFICES ASSUME Next PROVE GInv'
  BY <1>1
<1>2. Types'
  BY NextTypes DEF GInv
<1>3. ASSUME UNCHANGED <<file, announced>>, trouble \subseteq trouble',
             drawn \subseteq drawn', drawn' \subseteq Seeds,
             \A q \in Procs : pc'[q] \in {"open", "write"} => seed'[q] \in drawn'
      PROVE  GInv'
  <2>1. Known \subseteq Known'
    BY <1>3 DEF Known
  <2> QED BY <1>2, <1>3, <2>1 DEF GInv
<1>4. ASSUME NEW p \in Procs, Start(p) \/ LoadFails(p) \/ Crash(p) PROVE GInv'
  BY <1>3, <1>4 DEF Start, LoadFails, Crash, Goto, GInv, Types
<1>5. ASSUME NEW p \in Procs, Load(p) PROVE GInv'
  <2>1. /\ UNCHANGED <<file, seed, drawn>> /\ trouble \subseteq trouble'
        /\ "overlap" \notin trouble => announced' \subseteq Known
    BY <1>5 DEF Load, GInv
  <2>2. \A q \in Procs : pc'[q] \in {"open", "write"} => pc[q] \in {"open", "write"}
    BY <1>5 DEF Load, Goto, GInv, Types
  <2> QED BY <1>2, <2>1, <2>2 DEF GInv, Known
<1>6. ASSUME NEW p \in Procs, Generate(p) PROVE GInv'
  BY <1>3, <1>6 DEF Generate, Goto, GInv, Types
<1>7. ASSUME NEW p \in Procs, OpenFile(p) PROVE GInv'
  <2>1. UNCHANGED <<announced, drawn, seed, trouble>> /\ (UNCHANGED file \/ Identity(file') = None)
    BY <1>7, EmptyTextHoldsNone DEF OpenFile
  <2>2. \A q \in Procs : pc'[q] \in {"open", "write"} => pc[q] \in {"open", "write"}
    BY <1>7 DEF OpenFile, Goto, GInv, Types
  <2> QED BY <1>2, <2>1, <2>2 DEF GInv, Known
<1>8. ASSUME NEW p \in Procs, WriteSeed(p) PROVE GInv'
  <2>1. seed[p] \in drawn /\ seed[p] \in Seeds
    BY <1>8 DEF WriteSeed, GInv
  <2>2. DeviceKey[seed[p]] \in Known
    BY <2>1 DEF Known
  <2>3. /\ UNCHANGED <<drawn, seed, trouble>>
        /\ "overlap" \notin trouble => Identity(file') = DeviceKey[seed[p]]
    <3>1. pc[p] = "write" /\ file' = Overwritten(EncodeBase63(seed[p]))
      BY <1>8 DEF WriteSeed
    <3>2. CompactLen \in 0..CompactLen
      BY SizesHold DEF Sizes
    <3>3. "overlap" \notin trouble => file' = Text(EncodeBase63(seed[p]))
      BY <3>1, <3>2, WrittenAlone
    <3> QED BY <1>8, <2>1, <3>3, SeedTextHoldsSeed DEF WriteSeed
  <2>4. announced' = announced \cup {DeviceKey[seed[p]]}
    BY <1>8 DEF WriteSeed
  <2>5. \A q \in Procs : pc'[q] \in {"open", "write"} => pc[q] \in {"open", "write"}
    BY <1>8 DEF WriteSeed, Goto, GInv, Types
  <2> QED BY <1>2, <2>2, <2>3, <2>4, <2>5 DEF GInv, Known
<1>9. ASSUME NEW p \in Procs, WriteFails(p) PROVE GInv'
  <2>1. /\ UNCHANGED <<drawn, seed, announced, trouble>>
        /\ "overlap" \notin trouble => Identity(file') \in {None, DeviceKey[seed[p]]}
    <3>1. PICK n \in 0..CompactLen : file' = Overwritten(First(EncodeBase63(seed[p]), n))
      BY <1>9 DEF WriteFails
    <3>2. pc[p] = "write" /\ CompactLen \in Nat /\ seed[p] \in Seeds
      BY <1>9, SizesHold DEF WriteFails, Sizes, GInv, Types
    <3>3. CASE n = CompactLen
      <4>1. "overlap" \notin trouble => file' = Text(EncodeBase63(seed[p]))
        BY <3>1, <3>2, <3>3, WrittenAlone
      <4> QED BY <1>9, <3>2, <4>1, SeedTextHoldsSeed DEF WriteFails
    <3>4. CASE n # CompactLen
      <4>1. n \in 0..CompactLen - 1
        BY <3>2, <3>4
      <4>2. "overlap" \notin trouble => file' = Text(First(EncodeBase63(seed[p]), n))
        BY <3>1, <3>2, WrittenAlone
      <4> QED BY <1>9, <3>2, <4>1, <4>2, ShortTextHoldsNone DEF WriteFails
    <3> QED BY <3>3, <3>4
  <2>3. DeviceKey[seed[p]] \in Known
    BY <1>9 DEF WriteFails, GInv, Known
  <2>2. \A q \in Procs : pc'[q] \in {"open", "write"} => pc[q] \in {"open", "write"}
    BY <1>9 DEF WriteFails, Goto, GInv, Types
  <2> QED BY <1>2, <2>1, <2>2, <2>3 DEF GInv, Known
<1>10. CASE Sync
  BY <1>3, <1>10 DEF Sync, GInv
<1>11. CASE PowerLoss
  <2>1. /\ UNCHANGED <<drawn, seed, announced>> /\ Identity(file') = None
        /\ trouble \subseteq trouble'
    BY <1>11, EmptyTextHoldsNone DEF PowerLoss
  <2>2. \A q \in Procs : pc'[q] \notin {"open", "write"}
    BY <1>11 DEF PowerLoss
  <2> QED BY <1>2, <2>1, <2>2 DEF GInv, Known
<1> QED BY <1>4, <1>5, <1>6, <1>7, <1>8, <1>9, <1>10, <1>11 DEF Next

\* No process runs with an identity that nobody generated: a torn or an empty
\* file is never taken for one, unless two starts make the file at the same time
\* (identity.go:235-255, 281-284).
THEOREM NoIdentityFromTornFile == Spec => []AnnouncedWasGenerated
<1>1. Init => GInv
  BY InitIInv DEF Init, IInv, GInv, Types, Known
<1>2. GInv /\ WInv /\ [Next]_vars => GInv'
  BY NextGInv
<1>3. GInv => AnnouncedWasGenerated
  BY DEF GInv, Known, AnnouncedWasGenerated
<1> QED BY <1>1, <1>2, <1>3, WInvAlways, PTL DEF Spec
=============================================================================
