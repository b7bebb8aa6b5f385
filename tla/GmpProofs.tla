----------------------------- MODULE GmpProofs ------------------------------
(***************************************************************************)
(* Facts about the GMP functions: powers of two, the bits of a number, and *)
(* fractions in lowest terms.                                              *)
(***************************************************************************)
EXTENDS Gmp, TLAPS

Binary == INSTANCE BytesProofs WITH ByteValues <- 2

(* A set of numbers with an element has a least one. *)
LEMMA LeastNumber ==
    ASSUME NEW T, T \subseteq Nat, NEW n \in T
    PROVE  \E x \in T : \A y \in T : x <= y
<1> SUFFICES ASSUME \A x \in T : \E y \in T : y < x PROVE FALSE
  OBVIOUS
<1> DEFINE S == {k \in Nat : \A j \in 0..k : j \notin T}
<1>1. 0 \in S
  OBVIOUS
<1>2. \A k \in Nat : k \in S => k + 1 \in S
  OBVIOUS
<1> HIDE DEF S
<1>3. Nat \subseteq S
  BY <1>1, <1>2, Binary!Induction
<1>4. n \in Nat /\ n \in S
  BY <1>3
<1> QED
  BY <1>4 DEF S

-----------------------------------------------------------------------------
(* Recursive functions of a natural number. *)

IsTable(g, n, v, step) == g = [k \in 0..n |-> IF k = 0 THEN v ELSE step[k][g[k - 1]]]
IsSequel(f, v, step) == f = [k \in Nat |-> IF k = 0 THEN v ELSE step[k][f[k - 1]]]

(* There is a function from its first value and the step to the next one. *)
LEMMA SequelExists ==
    ASSUME NEW v, NEW step
    PROVE  \E f : IsSequel(f, v, step)
<1> DEFINE S == {n \in Nat : \E g : IsTable(g, n, v, step)}
<1>1. 0 \in S
  <2>1. IsTable([k \in 0..0 |-> v], 0, v, step)
    BY DEF IsTable
  <2> QED
    BY <2>1
<1>2. ASSUME NEW n \in Nat, n \in S PROVE n + 1 \in S
  <2>1. PICK g : IsTable(g, n, v, step)
    BY <1>2
  <2> DEFINE w == step[n + 1][g[n]]
             h == [k \in 0..(n + 1) |-> IF k = n + 1 THEN w ELSE g[k]]
  <2>2. \A k \in 0..n : g[k] = IF k = 0 THEN v ELSE step[k][g[k - 1]]
    BY <2>1 DEF IsTable
  <2>3. \A k \in 0..(n + 1) : h[k] = IF k = 0 THEN v ELSE step[k][h[k - 1]]
    <3> TAKE k \in 0..(n + 1)
    <3>1. CASE k = n + 1
      <4>1. h[k] = w /\ k # 0 /\ h[k - 1] = g[n]
        BY <3>1
      <4> QED
        BY <3>1, <4>1
    <3>2. CASE k \in 0..n
      <4>1. h[k] = g[k] /\ (k # 0 => h[k - 1] = g[k - 1])
        BY <3>2
      <4> QED
        BY <2>2, <3>2, <4>1
    <3> QED
      BY <3>1, <3>2
  <2>4. h = [k \in 0..(n + 1) |-> h[k]]
    OBVIOUS
  <2> HIDE DEF h
  <2>5. IsTable(h, n + 1, v, step)
    BY <2>3, <2>4 DEF IsTable
  <2> QED
    BY <2>5
<1> HIDE DEF S
<1>3. Nat \subseteq S
  BY <1>1, <1>2, Binary!Induction
<1>4. \A n \in Nat : \E g : IsTable(g, n, v, step)
  BY <1>3 DEF S
<1> DEFINE table(n) == CHOOSE g : IsTable(g, n, v, step)
           f == [n \in Nat |-> table(n)[n]]
<1>5. \A n \in Nat : IsTable(table(n), n, v, step)
  BY <1>4, Zenon
<1> HIDE DEF table
<1>6. \A n \in Nat : \A k \in 0..n :
          table(n)[k] = IF k = 0 THEN v ELSE step[k][table(n)[k - 1]]
  BY <1>5 DEF IsTable
<1>7. \A n, m \in Nat : n <= m => table(n)[n] = table(m)[n]
  <2> TAKE n, m \in Nat
  <2> HAVE n <= m
  <2> DEFINE U == {k \in Nat : k <= n => table(n)[k] = table(m)[k]}
  <2>1. 0 \in U
    BY <1>6
  <2>2. ASSUME NEW k \in Nat, k \in U PROVE k + 1 \in U
    <3> SUFFICES ASSUME k + 1 <= n PROVE table(n)[k + 1] = table(m)[k + 1]
      OBVIOUS
    <3>1. k + 1 \in 0..n /\ k + 1 \in 0..m /\ k + 1 # 0 /\ (k + 1) - 1 = k
      OBVIOUS
    <3>2. table(n)[k] = table(m)[k]
      BY <2>2
    <3>3. table(n)[k + 1] = step[k + 1][table(n)[k]] /\ table(m)[k + 1] = step[k + 1][table(m)[k]]
      BY <1>6, <3>1
    <3> QED
      BY <3>2, <3>3
  <2> HIDE DEF U
  <2>3. Nat \subseteq U
    BY <2>1, <2>2, Binary!Induction
  <2> QED
    BY <2>3 DEF U
<1>8. \A n \in Nat : f[n] = IF n = 0 THEN v ELSE step[n][f[n - 1]]
  <2> TAKE n \in Nat
  <2>1. n \in 0..n
    OBVIOUS
  <2>2. CASE n = 0
    BY <1>6, <2>1, <2>2
  <2>3. CASE n # 0
    <3>1. n - 1 \in Nat /\ n - 1 <= n
      BY <2>3
    <3>2. f[n] = step[n][table(n)[n - 1]]
      BY <1>6, <2>1, <2>3
    <3>3. f[n - 1] = table(n)[n - 1]
      BY <1>7, <3>1
    <3> QED
      BY <2>3, <3>2, <3>3
  <2> QED
    BY <2>2, <2>3
<1>9. f = [n \in Nat |-> f[n]]
  OBVIOUS
<1> HIDE DEF f
<1>10. IsSequel(f, v, step)
  BY <1>8, <1>9 DEF IsSequel
<1> QED
  BY <1>10

-----------------------------------------------------------------------------
(* Powers of two. *)

LEMMA Exp2Step ==
    /\ exp2[0] = 1
    /\ \A n \in Nat : exp2[n] \in Nat \ {0} /\ exp2[n + 1] = 2 * exp2[n]
<1>1. exp2 = Binary!Power
  BY Zenon DEF exp2, Binary!Power
<1> QED
  BY <1>1, Binary!PowerStep, Binary!PowerType

LEMMA Exp2Sum == \A n, m \in Nat : exp2[n + m] = exp2[n] * exp2[m]
<1> TAKE n, m \in Nat
<1> DEFINE S == {k \in Nat : exp2[n + k] = exp2[n] * exp2[k]}
<1>1. 0 \in S
  BY Exp2Step
<1>2. ASSUME NEW k \in Nat, k \in S PROVE k + 1 \in S
  <2>1. exp2[n + k] = exp2[n] * exp2[k]
    BY <1>2
  <2>2. exp2[(n + k) + 1] = 2 * exp2[n + k] /\ exp2[k + 1] = 2 * exp2[k]
    BY Exp2Step
  <2>3. exp2[n] \in Nat /\ exp2[k] \in Nat /\ exp2[n + k] \in Nat /\ (n + k) + 1 = n + (k + 1)
    BY Exp2Step
  <2>4. exp2[n] * (2 * exp2[k]) = 2 * (exp2[n] * exp2[k])
    BY <2>3
  <2>5. exp2[n + (k + 1)] = exp2[n] * exp2[k + 1]
    BY <2>1, <2>2, <2>3, <2>4
  <2> QED
    BY <2>5
<1> HIDE DEF S
<1>3. Nat \subseteq S
  BY <1>1, <1>2, Binary!Induction
<1> QED
  BY <1>3 DEF S

LEMMA Exp2Monotonic ==
    \A n, m \in Nat : /\ n <= m => exp2[n] <= exp2[m]
                      /\ n < m => 2 * exp2[n] <= exp2[m]
<1>1. ASSUME NEW n \in Nat, NEW m \in Nat, n <= m PROVE exp2[n] <= exp2[m]
  <2>1. m - n \in Nat /\ n + (m - n) = m
    BY <1>1
  <2> DEFINE a == exp2[n]
             b == exp2[m - n]
  <2>2. a \in Nat /\ b \in Nat \ {0} /\ exp2[m] = a * b
    <3>1. exp2[n + (m - n)] = exp2[n] * exp2[m - n]
      BY <2>1, Exp2Sum
    <3>2. exp2[n] \in Nat \ {0} /\ exp2[m - n] \in Nat \ {0}
      BY <2>1, Exp2Step
    <3> QED
      BY <2>1, <3>1, <3>2
  <2> HIDE DEF a, b
  <2>3. a * b >= a
    <3>1. b - 1 \in Nat /\ a * (b - 1) \in Nat /\ a * b = a * (b - 1) + a
      BY <2>2
    <3> QED
      BY <2>2, <3>1
  <2> QED
    BY <2>2, <2>3 DEF a
<1>2. ASSUME NEW n \in Nat, NEW m \in Nat, n < m PROVE 2 * exp2[n] <= exp2[m]
  <2>1. n + 1 \in Nat /\ n + 1 <= m /\ exp2[n + 1] = 2 * exp2[n]
    BY <1>2, Exp2Step
  <2>2. exp2[n + 1] <= exp2[m]
    BY <1>1, <2>1
  <2> QED
    BY <2>1, <2>2
<1> QED
  BY <1>1, <1>2

LEMMA Exp2Above == \A n \in Nat : n < exp2[n]
<1> DEFINE S == {n \in Nat : n < exp2[n]}
<1>1. 0 \in S
  BY Exp2Step
<1>2. ASSUME NEW n \in Nat, n \in S PROVE n + 1 \in S
  BY <1>2, Exp2Step
<1> HIDE DEF S
<1>3. Nat \subseteq S
  BY <1>1, <1>2, Binary!Induction
<1> QED
  BY <1>3 DEF S

-----------------------------------------------------------------------------
(* Numbers and their bits. *)

(* A number of n bits is below the n-th power of two. *)
LEMMA NumberBound ==
    ASSUME NEW bit, \A i \in Nat : bit[i] \in {0, 1}, NEW n \in Nat
    PROVE  number(bit, n) \in 0..(exp2[n] - 1)
<1> DEFINE step == [k \in Nat |-> [u \in Int |-> u + bit[k - 1] * exp2[k - 1]]]
           IsLow(f) == f = [k \in Nat |-> IF k = 0 THEN 0 ELSE f[k - 1] + bit[k - 1] * exp2[k - 1]]
           low == CHOOSE f : IsLow(f)
<1>1. PICK f : IsSequel(f, 0, step)
  BY SequelExists
<1>2. /\ f = [k \in Nat |-> f[k]]
      /\ f[0] = 0
      /\ \A k \in Nat \ {0} : f[k] = step[k][f[k - 1]]
  BY <1>1 DEF IsSequel
<1>3. \A k \in Nat : bit[k] * exp2[k] \in Nat
  BY Exp2Step
<1>4. \A k \in Nat : f[k] \in Int
  <2> DEFINE S == {k \in Nat : f[k] \in Int}
  <2>1. 0 \in S
    BY <1>2
  <2>2. ASSUME NEW k \in Nat, k \in S PROVE k + 1 \in S
    <3>1. k + 1 \in Nat \ {0} /\ (k + 1) - 1 = k /\ f[k] \in Int
      BY <2>2
    <3>2. f[k + 1] = f[k] + bit[k] * exp2[k]
      BY <1>2, <3>1
    <3> QED
      BY <1>3, <3>1, <3>2
  <2> HIDE DEF S
  <2>3. Nat \subseteq S
    BY <2>1, <2>2, Binary!Induction
  <2> QED
    BY <2>3 DEF S
<1>5. IsLow(f)
  <2>1. \A k \in Nat : f[k] = IF k = 0 THEN 0 ELSE f[k - 1] + bit[k - 1] * exp2[k - 1]
    <3> TAKE k \in Nat
    <3>1. CASE k = 0
      BY <1>2, <3>1
    <3>2. CASE k # 0
      <4>1. k \in Nat \ {0} /\ k - 1 \in Nat /\ f[k - 1] \in Int
        BY <1>4, <3>2
      <4> QED
        BY <1>2, <4>1
    <3> QED
      BY <3>1, <3>2
  <2> QED
    BY <1>2, <2>1
<1> HIDE DEF step
<1>6. IsLow(low)
  BY <1>5, Zenon
<1>7. number(bit, n) = low[n]
  BY Zenon DEF number
<1> HIDE DEF low
<1> DEFINE S == {k \in Nat : low[k] \in 0..(exp2[k] - 1)}
<1>8. 0 \in S
  BY <1>6, Exp2Step
<1>9. ASSUME NEW k \in Nat, k \in S PROVE k + 1 \in S
  <2>1. k + 1 \in Nat \ {0} /\ (k + 1) - 1 = k /\ low[k] \in 0..(exp2[k] - 1)
    BY <1>9
  <2>2. low[k + 1] = low[k] + bit[k] * exp2[k]
    BY <1>6, <2>1
  <2>3. exp2[k] \in Nat /\ exp2[k + 1] = 2 * exp2[k]
    BY Exp2Step
  <2>4. bit[k] * exp2[k] \in {0, exp2[k]}
    BY <2>3
  <2>5. low[k + 1] \in 0..(exp2[k + 1] - 1)
    BY <2>1, <2>2, <2>3, <2>4
  <2> QED
    BY <2>5
<1> HIDE DEF S, IsLow
<1>10. Nat \subseteq S
  BY <1>8, <1>9, Binary!Induction
<1> QED
  BY <1>7, <1>10 DEF S

(* The size is the number of the bits of a number. *)
LEMMA SizeIs ==
    ASSUME NEW n \in Nat
    PROVE  /\ size(n) \in Nat
           /\ \A len \in Nat : n < exp2[len] => size(n) <= len
<1> DEFINE T == {k \in Nat : n < exp2[k]}
           Is(k) == n < exp2[k] /\ (k > 0 => exp2[k - 1] <= n)
           s == CHOOSE k \in 0..n : Is(k)
<1>1. T \subseteq Nat /\ n \in T
  BY Exp2Above
<1>2. PICK k \in T : \A j \in T : k <= j
  BY <1>1, LeastNumber
<1>3. k \in 0..n
  BY <1>2, Exp2Above
<1>4. Is(k)
  <2> SUFFICES ASSUME k > 0, ~(exp2[k - 1] <= n) PROVE FALSE
    BY <1>2
  <2>1. k - 1 \in Nat /\ exp2[k - 1] \in Nat
    BY <1>2, Exp2Step
  <2>2. k - 1 \in T
    BY <2>1
  <2> QED
    BY <1>2, <2>2
<1> HIDE DEF Is
<1>5. s \in 0..n /\ Is(s)
  BY <1>3, <1>4, Zenon
<1>6. size(n) = s
  BY Zenon DEF size, Is
<1> HIDE DEF s
<1>7. ASSUME NEW len \in Nat, n < exp2[len] PROVE s <= len
  <2> SUFFICES ASSUME s > len PROVE FALSE
    BY <1>5
  <2>1. s - 1 \in Nat /\ len <= s - 1 /\ exp2[s - 1] <= n
    BY <1>5 DEF Is
  <2>2. exp2[len] <= exp2[s - 1] /\ exp2[len] \in Nat /\ exp2[s - 1] \in Nat
    BY <2>1, Exp2Monotonic, Exp2Step
  <2> QED
    BY <1>7, <2>1, <2>2
<1> QED
  BY <1>5, <1>6, <1>7

(* A bit is zero or one. *)
LEMMA BitIs == \A n \in Int, i \in Nat : tstbit(n, i) \in {0, 1}
<1> TAKE n \in Int, i \in Nat
<1>1. exp2[i] \in Nat \ {0}
  BY Exp2Step
<1>2. n \div exp2[i] \in Int
  BY <1>1
<1> QED
  BY <1>2 DEF tstbit

(* A number put together bit by bit has as many bits as its bound. *)
LEMMA NumberBelow ==
    ASSUME NEW bit, \A i \in Nat : bit[i] \in {0, 1}, NEW n \in Nat, NEW len \in Nat, n < exp2[len]
    PROVE  number(bit, size(n)) \in 0..(exp2[len] - 1)
<1>1. size(n) \in Nat /\ size(n) <= len
  BY SizeIs
<1>2. number(bit, size(n)) \in 0..(exp2[size(n)] - 1)
  BY <1>1, NumberBound
<1>3. exp2[size(n)] <= exp2[len] /\ exp2[size(n)] \in Nat /\ exp2[len] \in Nat
  BY <1>1, Exp2Monotonic, Exp2Step
<1> QED
  BY <1>2, <1>3

(* Bit by bit operations keep to the length of their operands. *)
LEMMA AndBelow ==
    ASSUME NEW a \in Nat, NEW b \in Nat, NEW len \in Nat, a < exp2[len] \/ b < exp2[len]
    PROVE  a & b \in 0..(exp2[len] - 1)
<1> DEFINE bit == [i \in Nat |-> tstbit(a, i) * tstbit(b, i)]
           n == IF a < b THEN a ELSE b
<1>1. \A i \in Nat : bit[i] \in {0, 1}
  BY BitIs
<1>2. n \in Nat /\ n < exp2[len]
  BY Exp2Step
<1>3. a & b = number(bit, size(n))
  BY DEF &
<1> HIDE DEF bit, n
<1> QED
  BY <1>1, <1>2, <1>3, NumberBelow

LEMMA OrBelow ==
    ASSUME NEW a \in Nat, NEW b \in Nat, NEW len \in Nat, a < exp2[len], b < exp2[len]
    PROVE  a | b \in 0..(exp2[len] - 1)
<1> DEFINE bit == [i \in Nat |-> IF tstbit(a, i) + tstbit(b, i) = 0 THEN 0 ELSE 1]
           n == IF a < b THEN b ELSE a
<1>1. \A i \in Nat : bit[i] \in {0, 1}
  OBVIOUS
<1>2. n \in Nat /\ n < exp2[len]
  OBVIOUS
<1>3. a | b = number(bit, size(n))
  BY DEF |
<1> HIDE DEF bit, n
<1> QED
  BY <1>1, <1>2, <1>3, NumberBelow

LEMMA XorBelow ==
    ASSUME NEW a \in Nat, NEW b \in Nat, NEW len \in Nat, a < exp2[len], b < exp2[len]
    PROVE  a ^^ b \in 0..(exp2[len] - 1)
<1> DEFINE bit == [i \in Nat |-> (tstbit(a, i) + tstbit(b, i)) % 2]
           n == IF a < b THEN b ELSE a
<1>1. \A i \in Nat : bit[i] \in {0, 1}
  BY BitIs
<1>2. n \in Nat /\ n < exp2[len]
  OBVIOUS
<1>3. a ^^ b = number(bit, size(n))
  BY DEF ^^
<1> HIDE DEF bit, n
<1> QED
  BY <1>1, <1>2, <1>3, NumberBelow

(* Setting, clearing and flipping a bit below the length. *)
LEMMA BitBelow ==
    ASSUME NEW len \in Nat, NEW n \in 0..(exp2[len] - 1), NEW i \in 0..(len - 1)
    PROVE  /\ setbit(n, i) \in 0..(exp2[len] - 1)
           /\ clrbit(n, i) \in 0..(exp2[len] - 1)
           /\ combit(n, i) \in 0..(exp2[len] - 1)
<1> DEFINE p == exp2[i]
           M == exp2[len - i - 1]
           q == n \div p
           r == n % p
           h == q \div 2
           t == q % 2
<1>1. p \in Nat \ {0} /\ M \in Nat \ {0}
  BY Exp2Step
<1>2. exp2[len] = p * (2 * M)
  <2>1. len - i - 1 \in Nat /\ len - i = (len - i - 1) + 1 /\ len = i + (len - i) /\ len - i \in Nat /\ i \in Nat
    OBVIOUS
  <2>2. exp2[len - i] = 2 * M
    BY <2>1, Exp2Step
  <2>3. exp2[len] = p * exp2[len - i]
    BY <2>1, Exp2Sum
  <2> QED
    BY <2>2, <2>3
<1> HIDE DEF p, M
<1>3. n \in Nat /\ q \in Nat /\ r \in 0..(p - 1) /\ n = p * q + r
  BY <1>1
<1> HIDE DEF q, r
<1>4. h \in Nat /\ t \in {0, 1} /\ q = 2 * h + t
  BY <1>3
<1>5. tstbit(n, i) = t
  BY DEF tstbit, t, q, p
<1>6. q < 2 * M
  <2>1. n < p * (2 * M) /\ 2 * M \in Nat
    BY <1>1, <1>2, <1>3
  <2> QED
    BY <1>1, <1>3, <2>1, Binary!QuotientBound DEF q
<1> HIDE DEF h, t
<1>7. ASSUME t = 0 PROVE n + p \in 0..(exp2[len] - 1)
  <2>1. q + 1 <= 2 * M - 1
    BY <1>1, <1>4, <1>6, <1>7
  <2> DEFINE e == 2 * M - 1 - (q + 1)
  <2>2. e \in Nat /\ 2 * M = (q + 1) + 1 + e
    BY <1>1, <1>3, <2>1
  <2> HIDE DEF e
  <2>3. p * (2 * M) = p * q + p + p + p * e /\ p * e \in Nat /\ p * q \in Nat
    BY <1>1, <1>3, <2>2
  <2> QED
    BY <1>1, <1>2, <1>3, <2>3
<1>8. ASSUME t = 1 PROVE n - p \in 0..(exp2[len] - 1)
  <2>1. q - 1 \in Nat /\ p * q = p * (q - 1) + p /\ p * (q - 1) \in Nat
    BY <1>1, <1>3, <1>4, <1>8
  <2>2. n - p \in Nat
    BY <1>1, <1>3, <2>1
  <2> QED
    BY <1>1, <2>2, Exp2Step
<1> QED
  BY <1>4, <1>5, <1>7, <1>8 DEF setbit, clrbit, combit, p

(* Multiplying and dividing by powers of two. *)
LEMMA ShiftBelow ==
    ASSUME NEW a \in Nat, NEW b \in Nat, NEW n \in 0..(exp2[a] - 1)
    PROVE  n * exp2[b] \in 0..(exp2[a + b] - 1)
<1> DEFINE p == exp2[a]
           q == exp2[b]
<1>1. p \in Nat \ {0} /\ q \in Nat \ {0} /\ exp2[a + b] = p * q
  BY Exp2Step, Exp2Sum
<1> HIDE DEF p, q
<1>2. p * q = n * q + q + (p - 1 - n) * q /\ (p - 1 - n) * q \in Nat /\ n * q \in Nat
  <2>1. p - 1 - n \in Nat /\ n \in Nat /\ p = n + 1 + (p - 1 - n)
    BY <1>1 DEF p
  <2> QED
    BY <1>1, <2>1
<1> QED
  BY <1>1, <1>2 DEF q

(* Quotients and remainders do not exceed the dividend. *)
LEMMA QuotientBelow ==
    ASSUME NEW n \in Nat, NEW b \in Nat \ {0}
    PROVE  n \div b \in 0..n
<1>1. n < b * (n + 1)
  <2>1. b - 1 \in Nat /\ b * (n + 1) = n + 1 + (b - 1) * (n + 1) /\ (b - 1) * (n + 1) \in Nat
    OBVIOUS
  <2> QED
    BY <2>1
<1>2. n \div b \in Nat /\ n \div b < n + 1
  BY <1>1, n + 1 \in Nat, Binary!QuotientBound
<1> QED
  BY <1>2

LEMMA RemainderBelow ==
    ASSUME NEW n \in Nat, NEW b \in Nat \ {0}
    PROVE  n % b \in 0..n
<1>1. n \div b \in Nat /\ n = b * (n \div b) + (n % b) /\ n % b \in Nat
  OBVIOUS
<1>2. b * (n \div b) \in Nat
  BY <1>1
<1> QED
  BY <1>1, <1>2

(* Halving often enough brings a number below a power of two. *)
LEMMA HighBitsBelow ==
    ASSUME NEW a \in Nat, NEW b \in Nat, NEW n \in Nat, n < exp2[a + b]
    PROVE  n \div exp2[b] \in 0..(exp2[a] - 1)
<1>1. exp2[a + b] = exp2[b] * exp2[a] /\ exp2[a] \in Nat /\ exp2[b] \in Nat \ {0}
  <2>1. exp2[a] \in Nat /\ exp2[b] \in Nat \ {0} /\ exp2[a + b] = exp2[a] * exp2[b]
    BY Exp2Step, Exp2Sum
  <2> QED
    BY <2>1
<1>2. n \div exp2[b] \in Nat /\ n \div exp2[b] < exp2[a]
  BY <1>1, Binary!QuotientBound
<1> QED
  BY <1>1, <1>2

(* On natural numbers tdiv_q_2exp is a shift. *)
LEMMA TruncatedQuotient ==
    ASSUME NEW n \in Nat, NEW k \in Nat
    PROVE  tdiv_q_2exp(n, k) \in 0..n
<1>1. exp2[k] \in Nat \ {0}
  BY Exp2Step
<1>2. n \div exp2[k] \in 0..n
  BY <1>1, QuotientBelow
<1>3. tdiv_q_2exp(n, k) = n \div exp2[k]
  BY <1>1 DEF tdiv_q_2exp, tdiv_q, abs
<1> QED
  BY <1>2, <1>3

-----------------------------------------------------------------------------
(* Fractions in lowest terms. *)

LEMMA Cancel ==
    ASSUME NEW x \in Int, NEW y \in Int, NEW c \in Nat \ {0}, x * c = y * c
    PROVE  x = y
<1>1. ASSUME NEW u \in Int, NEW w \in Int, u < w PROVE u * c < w * c
  <2>1. w - u - 1 \in Nat /\ w = u + 1 + (w - u - 1)
    BY <1>1
  <2>2. w * c = u * c + c + (w - u - 1) * c /\ (w - u - 1) * c \in Nat /\ u * c \in Int
    BY <2>1
  <2> QED
    BY <2>2
<1>2. ~(x < y) /\ ~(y < x)
  <2>1. x * c \in Int /\ y * c \in Int
    OBVIOUS
  <2> QED
    BY <1>1, <2>1
<1> QED
  BY <1>2

LEMMA DivisionExact ==
    ASSUME NEW n \in Int, NEW g \in Nat \ {0}
    PROVE  (n * g) \div g = n /\ (n * g) % g = 0
<1> DEFINE a == n * g
           q == a \div g
           r == a % g
<1>1. a \in Int
  OBVIOUS
<1>2. q \in Int /\ r \in 0..(g - 1) /\ a = g * q + r
  BY <1>1
<1> HIDE DEF q, r
<1>3. q = n
  <2>1. ASSUME q < n PROVE FALSE
    <3>1. n - q - 1 \in Nat /\ n = q + 1 + (n - q - 1)
      BY <1>2, <2>1
    <3>2. n * g = g * q + g + (n - q - 1) * g /\ (n - q - 1) * g \in Nat /\ g * q \in Int
      BY <1>2, <3>1
    <3> QED
      BY <1>2, <3>2
  <2>2. ASSUME n < q PROVE FALSE
    <3>1. q - n - 1 \in Nat /\ q = n + 1 + (q - n - 1)
      BY <1>2, <2>2
    <3>2. g * q = n * g + g + (q - n - 1) * g /\ (q - n - 1) * g \in Nat
      BY <1>2, <3>1
    <3> QED
      BY <1>1, <1>2, <3>2
  <2> QED
    BY <1>2, <2>1, <2>2
<1>4. r = 0
  BY <1>1, <1>2, <1>3
<1> QED
  BY <1>3, <1>4 DEF q, r

(* mpq(a, b) is a fraction equal to a / b, and no equal one has a smaller  *)
(* denominator.                                                            *)
IsLowest(r, a, b) ==
    /\ r \in [num : Int, den : Nat \ {0}]
    /\ r.num * b = a * r.den
    /\ \A n \in Int, d \in Nat \ {0} : n * b = a * d => r.den <= d

(* mpq(a, b) is the fraction a / b with the least denominator. *)
LEMMA LowestTerms ==
    ASSUME NEW a \in Int, NEW b \in Nat \ {0}
    PROVE  IsLowest(mpq(a, b), a, b)
<1> DEFINE F == {d \in Nat \ {0} : \E n \in Int : n * b = a * d}
<1>1. F \subseteq Nat /\ b \in F
  OBVIOUS
<1>2. PICK d0 \in F : \A d \in F : d0 <= d
  BY <1>1, LeastNumber
<1>3. PICK n0 \in Int : n0 * b = a * d0
  BY <1>2
<1>4. d0 \in Nat \ {0} /\ \A n \in Int, d \in Nat \ {0} : n * b = a * d => d0 <= d
  BY <1>2
<1> HIDE DEF F
<1> DEFINE g == b \div d0
           r == b % d0
<1>5. g \in Nat /\ r \in 0..(d0 - 1) /\ b = d0 * g + r
  BY <1>4
<1> HIDE DEF g, r
<1>6. r = 0
  <2> SUFFICES ASSUME r # 0 PROVE FALSE
    OBVIOUS
  <2>1. (a - g * n0) * b = a * b - g * (n0 * b)
    BY <1>5
  <2>2. a * b - g * (n0 * b) = a * b - g * (a * d0)
    BY <1>3
  <2>3. a * b - g * (a * d0) = a * (b - d0 * g)
    BY <1>4, <1>5
  <2>4. b - d0 * g = r
    BY <1>4, <1>5
  <2>5. (a - g * n0) * b = a * r /\ a - g * n0 \in Int /\ r \in Nat \ {0}
    BY <1>5, <2>1, <2>2, <2>3, <2>4
  <2>6. d0 <= r
    BY <1>4, <2>5
  <2> QED
    BY <1>4, <1>5, <2>6
<1>7. b = d0 * g /\ g \in Nat \ {0}
  BY <1>4, <1>5, <1>6
<1>8. a = n0 * g
  <2>1. n0 * b = (n0 * g) * d0 /\ n0 * g \in Int
    BY <1>4, <1>7
  <2> QED
    BY <1>3, <1>4, <2>1, Cancel
<1> DEFINE Reduces(d) == b % d = 0 /\ a % (b \div d) = 0
           Least(d) == Reduces(d) /\ \A e \in 1..(d - 1) : ~Reduces(e)
<1>9. d0 \in 1..b
  BY <1>1, <1>2, <1>4
<1>10. Reduces(d0)
  <2>1. b % d0 = 0 /\ b \div d0 = g
    BY <1>6, <1>7 DEF g, r
  <2>2. a % g = 0
    BY <1>7, <1>8, DivisionExact
  <2> QED
    BY <2>1, <2>2
<1>11. ASSUME NEW e \in 1..b, Reduces(e) PROVE d0 <= e
  <2> DEFINE h == b \div e
             m == a \div h
  <2>1. h \in Nat /\ b = e * h
    BY <1>11
  <2>2. h # 0
    BY <2>1
  <2> HIDE DEF h
  <2>3. m \in Int /\ a = h * m
    BY <1>11, <2>1, <2>2 DEF h
  <2> HIDE DEF m
  <2>4. m * b = a * e
    BY <2>1, <2>3
  <2> QED
    BY <1>4, <2>3, <2>4
<1>12. Least(d0) /\ \A d \in 1..b : Least(d) => d = d0
  <2>1. \A e \in 1..(d0 - 1) : ~Reduces(e)
    <3> TAKE e \in 1..(d0 - 1)
    <3>1. e \in 1..b /\ ~(d0 <= e)
      BY <1>9
    <3> QED
      BY <1>11, <3>1
  <2>2. ASSUME NEW d \in 1..b, Least(d) PROVE d = d0
    <3>1. d0 <= d
      BY <1>11, <2>2
    <3>2. ~(d0 \in 1..(d - 1))
      BY <1>10, <2>2
    <3> QED
      BY <1>9, <3>1, <3>2
  <2> QED
    BY <1>10, <2>1, <2>2
<1> HIDE DEF Least
<1> DEFINE den == CHOOSE d \in 1..b : Least(d)
<1>13. den \in 1..b /\ Least(den)
  BY <1>9, <1>12, Zenon
<1>14. den = d0
  BY <1>12, <1>13
<1>15. mpq(a, b) = [num |-> a \div (b \div den), den |-> den]
  <2>1. a \in Int /\ b \in Int /\ ~(b < 0) /\ abs(b) = b
    BY DEF abs
  <2> QED
    BY <2>1 DEF mpq, lowest_terms, Least
<1> HIDE DEF den
<1>16. a \div (b \div den) = n0
  <2>1. b \div den = g
    BY <1>14 DEF g
  <2> QED
    BY <1>7, <1>8, <2>1, DivisionExact
<1>17. mpq(a, b) = [num |-> n0, den |-> d0]
  BY <1>14, <1>15, <1>16
<1> QED
  BY <1>3, <1>4, <1>17 DEF IsLowest

(* Equal fractions have the same lowest terms. *)
LEMMA SameFraction ==
    ASSUME NEW a \in Int, NEW b \in Nat \ {0}, NEW c \in Int, NEW d \in Nat \ {0}, a * d = c * b
    PROVE  mpq(a, b) = mpq(c, d)
<1> DEFINE r1 == mpq(a, b)
           r2 == mpq(c, d)
           n1 == r1.num
           d1 == r1.den
           n2 == r2.num
           d2 == r2.den
<1>0. IsLowest(r1, a, b) /\ IsLowest(r2, c, d)
  BY LowestTerms
<1> HIDE DEF r1, r2
<1>1. /\ n1 \in Int /\ d1 \in Nat \ {0} /\ r1 = [num |-> n1, den |-> d1]
      /\ n1 * b = a * d1
      /\ \A n \in Int, e \in Nat \ {0} : n * b = a * e => d1 <= e
  BY <1>0 DEF IsLowest
<1>2. /\ n2 \in Int /\ d2 \in Nat \ {0} /\ r2 = [num |-> n2, den |-> d2]
      /\ n2 * d = c * d2
      /\ \A n \in Int, e \in Nat \ {0} : n * d = c * e => d2 <= e
  BY <1>0 DEF IsLowest
<1> HIDE DEF n1, d1, n2, d2
<1>3. n1 * d = c * d1
  <2>1. (n1 * d) * b = (n1 * b) * d /\ (a * d1) * d = (a * d) * d1 /\ (c * b) * d1 = (c * d1) * b
    BY <1>1
  <2>2. (n1 * d) * b = (c * d1) * b /\ n1 * d \in Int /\ c * d1 \in Int
    BY <1>1, <2>1
  <2> QED
    BY <1>1, <2>2, Cancel
<1>4. n2 * b = a * d2
  <2>1. (n2 * b) * d = (n2 * d) * b /\ (c * d2) * b = (c * b) * d2 /\ (a * d) * d2 = (a * d2) * d
    BY <1>2
  <2>2. (n2 * b) * d = (a * d2) * d /\ n2 * b \in Int /\ a * d2 \in Int
    BY <1>2, <2>1
  <2> QED
    BY <1>2, <2>2, Cancel
<1>5. d1 = d2
  <2>1. d1 <= d2
    BY <1>1, <1>2, <1>4
  <2>2. d2 <= d1
    BY <1>1, <1>2, <1>3
  <2> QED
    BY <1>1, <1>2, <2>1, <2>2
<1>6. n1 = n2
  <2>1. n1 * b = n2 * b
    BY <1>1, <1>4, <1>5
  <2> QED
    BY <1>1, <1>2, <2>1, Cancel
<1> QED
  BY <1>1, <1>2, <1>5, <1>6 DEF r1, r2

(* Products of fractions. *)
LEMMA LowestIsRational == \A a \in Int, b \in Nat \ {0} : mpq(a, b) \in Rational
<1> TAKE a \in Int, b \in Nat \ {0}
<1>1. IsLowest(mpq(a, b), a, b)
  BY LowestTerms
<1> QED
  BY <1>1 DEF IsLowest, Rational

LEMMA ProductIsRational == \A p, q \in Rational : mpq_mul(p, q) \in Rational
<1> TAKE p, q \in Rational
<1>1. p.num * q.num \in Int /\ p.den * q.den \in Nat \ {0}
  BY DEF Rational
<1> QED
  BY <1>1, LowestIsRational DEF mpq_mul

LEMMA ProductCommutes == \A p, q \in Rational : mpq_mul(p, q) = mpq_mul(q, p)
<1> TAKE p, q \in Rational
<1>1. p.num * q.num = q.num * p.num /\ p.den * q.den = q.den * p.den
  BY DEF Rational
<1> QED
  BY <1>1 DEF mpq_mul

(* The product of three factors is that of all numerators and denominators. *)
LEMMA ThreeFactors ==
    ASSUME NEW p \in Rational, NEW q \in Rational, NEW r \in Rational
    PROVE  mpq_mul(mpq_mul(p, q), r) = mpq((p.num * q.num) * r.num, (p.den * q.den) * r.den)
<1> DEFINE a == p.num * q.num
           b == p.den * q.den
           t == mpq(a, b)
           n == t.num
           d == t.den
<1>1. a \in Int /\ b \in Nat \ {0} /\ r.num \in Int /\ r.den \in Nat \ {0}
  BY DEF Rational
<1>2. mpq_mul(mpq_mul(p, q), r) = mpq(n * r.num, d * r.den)
  BY Zenon DEF mpq_mul
<1> HIDE DEF a, b
<1>3. IsLowest(t, a, b)
  BY <1>1, LowestTerms
<1> HIDE DEF t
<1>4. n \in Int /\ d \in Nat \ {0} /\ n * b = a * d
  BY <1>3 DEF IsLowest
<1> HIDE DEF n, d
<1>5. (n * r.num) * (b * r.den) = (a * r.num) * (d * r.den)
  <2>1. (n * r.num) * (b * r.den) = (n * b) * (r.num * r.den)
    BY <1>1, <1>4
  <2>2. (a * r.num) * (d * r.den) = (a * d) * (r.num * r.den)
    BY <1>1, <1>4
  <2> QED
    BY <1>4, <2>1, <2>2
<1>6. /\ n * r.num \in Int /\ a * r.num \in Int
      /\ d * r.den \in Nat \ {0} /\ b * r.den \in Nat \ {0}
  BY <1>1, <1>4
<1>7. mpq(n * r.num, d * r.den) = mpq(a * r.num, b * r.den)
  BY <1>5, <1>6, SameFraction
<1> QED
  BY <1>2, <1>7 DEF a, b

LEMMA ProductAssociates ==
    \A p, q, r \in Rational : mpq_mul(mpq_mul(p, q), r) = mpq_mul(p, mpq_mul(q, r))
<1> TAKE p, q, r \in Rational
<1>1. mpq_mul(mpq_mul(p, q), r) = mpq((p.num * q.num) * r.num, (p.den * q.den) * r.den)
  BY ThreeFactors
<1>2. mpq_mul(mpq_mul(q, r), p) = mpq((q.num * r.num) * p.num, (q.den * r.den) * p.den)
  BY ThreeFactors
<1>3. /\ (p.num * q.num) * r.num = (q.num * r.num) * p.num
      /\ (p.den * q.den) * r.den = (q.den * r.den) * p.den
  BY DEF Rational
<1>4. mpq_mul(mpq_mul(q, r), p) = mpq_mul(p, mpq_mul(q, r))
  BY ProductIsRational, ProductCommutes
<1> QED
  BY <1>1, <1>2, <1>3, <1>4

LEMMA One == mpq(1, 1) = [num |-> 1, den |-> 1]
<1> DEFINE t == mpq(1, 1)
<1>1. IsLowest(t, 1, 1)
  BY LowestTerms
<1> HIDE DEF t
<1>2. t.den = 1 /\ t.num = 1 /\ t = [num |-> t.num, den |-> t.den]
  BY <1>1 DEF IsLowest
<1> QED
  BY <1>2 DEF t

(* One is neutral for fractions in lowest terms. *)
LEMMA ProductWithOne ==
    \A a \in Int, b \in Nat \ {0} : mpq_mul(mpq(1, 1), mpq(a, b)) = mpq(a, b)
<1> TAKE a \in Int, b \in Nat \ {0}
<1> DEFINE t == mpq(a, b)
<1>1. IsLowest(t, a, b)
  BY LowestTerms
<1>2. mpq_mul(mpq(1, 1), t) = mpq(1 * t.num, 1 * t.den)
  BY One DEF mpq_mul
<1> HIDE DEF t
<1>3. t.num \in Int /\ t.den \in Nat \ {0} /\ t.num * b = a * t.den
  BY <1>1 DEF IsLowest
<1>4. mpq(t.num, t.den) = mpq(a, b)
  BY <1>3, SameFraction
<1>5. 1 * t.num = t.num /\ 1 * t.den = t.den
  BY <1>3
<1> QED
  BY <1>2, <1>4, <1>5 DEF t
=============================================================================
