---------------------------- MODULE BytesProofs -----------------------------
(***************************************************************************)
(* Facts about natural numbers and their bytes.  Induction is stated for   *)
(* sets of numbers: a property is proved by induction as the set of the    *)
(* numbers that have it.                                                   *)
(***************************************************************************)
EXTENDS Bytes, FiniteSetsExt, TLAPS, WellFoundedInduction

-----------------------------------------------------------------------------
(* Sets of numbers. *)
Less == {ss \in Nat \X Nat : ss[1] < ss[2]}

(* A set of numbers that is not empty has a smallest one. *)
LEMMA SmallestNumber ==
    ASSUME NEW T, T \subseteq Nat, T # {}
    PROVE  \E x \in T : \A y \in T : x <= y
<1>1. IsWellFoundedOn(Less, Nat)
  BY NatLessThanWellFounded, Zenon DEF Less, OpToRel
<1>2. PICK x \in T : \A y \in T : ~ (<<y, x>> \in Less)
  BY <1>1, WFMin, Zenon
<1>3. \A y \in T : x <= y
  <2> TAKE y \in T
  <2>1. x \in Nat /\ y \in Nat /\ <<y, x>> \notin Less
    BY <1>2
  <2> QED
    BY <2>1 DEF Less
<1> QED
  BY <1>3

(* Induction. *)
LEMMA Induction ==
    ASSUME NEW S, 0 \in S, \A n \in Nat : n \in S => n + 1 \in S
    PROVE  Nat \subseteq S
<1> SUFFICES ASSUME Nat \ S # {} PROVE FALSE
  OBVIOUS
<1>1. PICK x \in Nat \ S : \A y \in Nat \ S : x <= y
  BY SmallestNumber
<1>2. x - 1 \in Nat /\ x - 1 \in S
  BY <1>1
<1> QED
  BY <1>2

(* A set of numbers with a bound that is not empty has a greatest one. *)
LEMMA GreatestNumber ==
    ASSUME NEW n \in Nat, NEW T, T \subseteq 0..n, T # {}
    PROVE  \E x \in T : \A y \in T : x >= y
<1> DEFINE U == {u \in Nat : n - u \in T}
<1>1. PICK t \in T : t \in 0..n
  OBVIOUS
<1>2. n - t \in U
  BY <1>1
<1>3. PICK u \in U : \A v \in U : u <= v
  BY <1>2, SmallestNumber
<1>4. \A y \in T : n - y \in U
  OBVIOUS
<1>5. n - u \in T /\ u \in Nat
  BY <1>3
<1>6. \A y \in T : n - u >= y
  <2> TAKE y \in T
  <2>1. u <= n - y /\ y \in 0..n
    BY <1>3, <1>4
  <2> QED
    BY <1>5, <2>1
<1> QED
  BY <1>5, <1>6

(* Max and Min are what they should be. *)
LEMMA MaxIs ==
    ASSUME NEW T, T \subseteq Nat, NEW g \in T, \A y \in T : g >= y
    PROVE  Max(T) = g
<1> DEFINE top == CHOOSE x \in T : \A y \in T : x >= y
<1>1. top \in T /\ \A y \in T : top >= y
  OBVIOUS
<1> HIDE DEF top
<1>2. top = g
  BY <1>1
<1> QED
  BY <1>2 DEF Max, top

LEMMA MinIs ==
    ASSUME NEW T, T \subseteq Nat, NEW g \in T, \A y \in T : g <= y
    PROVE  Min(T) = g
<1> DEFINE low == CHOOSE x \in T : \A y \in T : x <= y
<1>1. low \in T /\ \A y \in T : low <= y
  OBVIOUS
<1> HIDE DEF low
<1>2. low = g
  BY <1>1
<1> QED
  BY <1>2 DEF Min, low

-----------------------------------------------------------------------------
(* Products and quotients. *)

(* The quotient and the remainder are the only ones. *)
LEMMA DivisionUnique ==
    ASSUME NEW a \in Nat, NEW b \in Nat \ {0}, NEW q \in Nat, NEW r \in 0..(b - 1), a = b * q + r
    PROVE  a \div b = q /\ a % b = r
<1>1. a = b * (a \div b) + (a % b) /\ a % b \in 0..(b - 1) /\ a \div b \in Nat
  OBVIOUS
<1> DEFINE p == a \div b
           s == a % b
<1>2. p \in Nat /\ s \in 0..(b - 1) /\ b * p + s = b * q + r
  BY <1>1
<1> HIDE DEF p, s
<1>3. p <= q
  <2> SUFFICES ASSUME p >= q + 1 PROVE FALSE
    BY <1>2
  <2>1. PICK d \in Nat : p = q + 1 + d
    <3>1. p - q - 1 \in Nat /\ p = q + 1 + (p - q - 1)
      BY <1>2
    <3> QED
      BY <3>1
  <2>2. b * p = b * q + b + b * d /\ b * d \in Nat /\ b * q \in Nat
    BY <2>1
  <2> QED
    BY <1>2, <2>2
<1>4. q <= p
  <2> SUFFICES ASSUME q >= p + 1 PROVE FALSE
    BY <1>2
  <2>1. PICK d \in Nat : q = p + 1 + d
    <3>1. q - p - 1 \in Nat /\ q = p + 1 + (q - p - 1)
      BY <1>2
    <3> QED
      BY <3>1
  <2>2. b * q = b * p + b + b * d /\ b * d \in Nat /\ b * p \in Nat
    BY <1>2, <2>1
  <2> QED
    BY <1>2, <2>2
<1>5. p = q /\ s = r
  BY <1>2, <1>3, <1>4
<1> QED
  BY <1>5 DEF p, s

(* A number below b * c has a quotient by b below c. *)
LEMMA QuotientBound ==
    ASSUME NEW a \in Nat, NEW b \in Nat \ {0}, NEW c \in Nat, a < b * c
    PROVE  a \div b \in Nat /\ a \div b < c
<1> DEFINE q == a \div b
           r == a % b
<1>1. q \in Nat /\ r \in 0..(b - 1) /\ a = b * q + r
  OBVIOUS
<1> HIDE DEF q, r
<1>2. q < c
  <2> SUFFICES ASSUME q >= c PROVE FALSE
    BY <1>1
  <2>1. q - c \in Nat /\ q = c + (q - c)
    BY <1>1
  <2>2. b * q = b * c + b * (q - c) /\ b * (q - c) \in Nat /\ b * c \in Nat
    BY <2>1
  <2> QED
    BY <1>1, <2>2
<1> QED
  BY <1>1, <1>2 DEF q

(* Two divisions in a row are one by the product. *)
LEMMA DivisionTwice ==
    ASSUME NEW a \in Nat, NEW b \in Nat \ {0}, NEW c \in Nat \ {0}
    PROVE  a \div (b * c) = (a \div b) \div c
<1> DEFINE q == a \div b
           r == a % b
           s == q \div c
           t == q % c
<1>1. q \in Nat /\ r \in 0..(b - 1) /\ a = b * q + r
  OBVIOUS
<1>2. s \in Nat /\ t \in 0..(c - 1) /\ q = c * s + t
  BY <1>1
<1> HIDE DEF q, r, s, t
<1>3. b * q = (b * c) * s + b * t /\ b * t \in Nat /\ b * c \in Nat /\ (b * c) * s \in Nat
  BY <1>2
<1>4. b * t + r < b * c
  <2>1. b * c = b * t + b + b * (c - 1 - t) /\ b * (c - 1 - t) \in Nat
    BY <1>2
  <2> QED
    BY <1>1, <1>3, <2>1
<1>5. a = (b * c) * s + (b * t + r) /\ b * t + r \in 0..((b * c) - 1) /\ b * c \in Nat \ {0}
  BY <1>1, <1>3, <1>4
<1>6. a \div (b * c) = s
  BY <1>2, <1>5, DivisionUnique
<1> QED
  BY <1>6 DEF s, q

-----------------------------------------------------------------------------
(* Powers.  A beginning of the table of powers obeys the equation of the   *)
(* whole up to its end; there is one of each length, and they agree.       *)
PowerEquation(g, k) == g[k] = IF k = 0 THEN 1 ELSE ByteValues * g[k - 1]
Tables(n) == {g \in [0..n -> Nat \ {0}] : \A k \in 0..n : PowerEquation(g, k)}

LEMMA TableExists ==
    ASSUME NEW n \in Nat
    PROVE  Tables(n) # {}
<1> DEFINE S == {m \in Nat : Tables(m) # {}}
<1>1. 0 \in S
  <2>1. [k \in 0..0 |-> 1] \in Tables(0)
    BY DEF Tables, PowerEquation
  <2> QED
    BY <2>1
<1>2. ASSUME NEW m \in Nat, m \in S PROVE m + 1 \in S
  <2>1. PICK g \in Tables(m) : TRUE
    BY <1>2
  <2>2. g \in [0..m -> Nat \ {0}] /\ \A k \in 0..m : PowerEquation(g, k)
    BY <2>1 DEF Tables
  <2> DEFINE p == ByteValues * g[m]
  <2>3. p \in Nat \ {0}
    BY <2>2, ByteAssumption
  <2> HIDE DEF p
  <2> DEFINE h == [k \in 0..(m + 1) |-> IF k = m + 1 THEN p ELSE g[k]]
  <2>4. h \in [0..(m + 1) -> Nat \ {0}]
    BY <2>2, <2>3
  <2>5. \A k \in 0..(m + 1) : PowerEquation(h, k)
    <3> TAKE k \in 0..(m + 1)
    <3>1. CASE k = m + 1
      <4>1. h[k] = p /\ k - 1 = m /\ h[k - 1] = g[m] /\ k # 0
        BY <3>1
      <4> QED
        BY <4>1 DEF PowerEquation, p
    <3>2. CASE k \in 0..m
      <4>1. PowerEquation(g, k) /\ h[k] = g[k] /\ (k # 0 => h[k - 1] = g[k - 1])
        BY <2>2, <3>2
      <4> QED
        BY <4>1 DEF PowerEquation
    <3> QED
      BY <3>1, <3>2
  <2> HIDE DEF h
  <2>6. h \in Tables(m + 1)
    BY <2>4, <2>5 DEF Tables
  <2> QED
    BY <2>6
<1> HIDE DEF S
<1>3. Nat \subseteq S
  BY <1>1, <1>2, Induction
<1> QED
  BY <1>3 DEF S

LEMMA TablesAgree ==
    ASSUME NEW n \in Nat, NEW m \in Nat, NEW g \in Tables(n), NEW h \in Tables(m),
           NEW k \in 0..n, k <= m
    PROVE  g[k] = h[k]
<1> DEFINE S == {i \in Nat : i <= n /\ i <= m => g[i] = h[i]}
<1>1. \A i \in 0..n : PowerEquation(g, i)
  BY DEF Tables
<1>2. \A i \in 0..m : PowerEquation(h, i)
  BY DEF Tables
<1>3. 0 \in S
  BY <1>1, <1>2 DEF PowerEquation
<1>4. ASSUME NEW i \in Nat, i \in S PROVE i + 1 \in S
  <2> SUFFICES ASSUME i + 1 <= n, i + 1 <= m PROVE g[i + 1] = h[i + 1]
    OBVIOUS
  <2> DEFINE j == i + 1
  <2>1. j \in 0..n /\ j \in 0..m /\ j # 0 /\ j - 1 = i /\ g[i] = h[i]
    BY <1>4
  <2> HIDE DEF j
  <2>2. g[j] = ByteValues * g[i] /\ h[j] = ByteValues * h[i]
    BY <1>1, <1>2, <2>1 DEF PowerEquation
  <2> QED
    BY <2>1, <2>2 DEF j
<1> HIDE DEF S
<1>5. Nat \subseteq S
  BY <1>3, <1>4, Induction
<1> QED
  BY <1>5 DEF S

(* The equation by which Power is defined has a solution, so it holds. *)
LEMMA PowerDef ==
    Power = [n \in Nat |-> IF n = 0 THEN 1 ELSE ByteValues * Power[n - 1]]
<1> DEFINE table(n) == CHOOSE g : g \in Tables(n)
           f == [n \in Nat |-> table(n)[n]]
<1>1. \A n \in Nat : table(n) \in Tables(n)
  BY TableExists, Zenon
<1> HIDE DEF table
<1>2. ASSUME NEW n \in Nat PROVE f[n] = IF n = 0 THEN 1 ELSE ByteValues * f[n - 1]
  <2>1. PowerEquation(table(n), n)
    <3>1. table(n) \in Tables(n) /\ n \in 0..n
      BY <1>1
    <3> QED
      BY <3>1 DEF Tables
  <2>2. CASE n = 0
    BY <2>1, <2>2 DEF PowerEquation
  <2>3. CASE n # 0
    <3>1. n - 1 \in Nat /\ n - 1 \in 0..(n - 1) /\ n - 1 <= n
      BY <2>3
    <3>2. table(n - 1) \in Tables(n - 1) /\ table(n) \in Tables(n)
      BY <1>1, <3>1
    <3>3. table(n - 1)[n - 1] = table(n)[n - 1]
      BY <3>1, <3>2, TablesAgree
    <3>4. f[n] = ByteValues * table(n)[n - 1]
      BY <2>1, <2>3 DEF PowerEquation
    <3> QED
      BY <2>3, <3>1, <3>3, <3>4
  <2> QED
    BY <2>2, <2>3
<1>3. f = [n \in Nat |-> IF n = 0 THEN 1 ELSE ByteValues * f[n - 1]]
  BY <1>2
<1> HIDE DEF f
<1> QED
  BY <1>3, Zenon DEF Power

LEMMA PowerStep ==
    /\ Power[0] = 1
    /\ \A n \in Nat : Power[n + 1] = ByteValues * Power[n]
<1>1. Power[0] = 1
  BY PowerDef, Zenon
<1>2. ASSUME NEW n \in Nat PROVE Power[n + 1] = ByteValues * Power[n]
  <2> DEFINE m == n + 1
  <2>1. m \in Nat /\ m # 0 /\ m - 1 = n
    OBVIOUS
  <2> HIDE DEF m
  <2>2. Power[m] = ByteValues * Power[m - 1]
    BY <2>1, PowerDef, Zenon
  <2> QED
    BY <2>1, <2>2 DEF m
<1> QED
  BY <1>1, <1>2

LEMMA PowerType == \A n \in Nat : Power[n] \in Nat \ {0}
<1> DEFINE S == {n \in Nat : Power[n] \in Nat \ {0}}
<1>1. 0 \in S
  BY PowerStep
<1>2. \A n \in Nat : n \in S => n + 1 \in S
  BY PowerStep, ByteAssumption
<1> HIDE DEF S
<1>3. Nat \subseteq S
  BY <1>1, <1>2, Induction
<1> QED
  BY <1>3 DEF S

-----------------------------------------------------------------------------
(* Bytes of words. *)
LEMMA ByteOfType ==
    ASSUME NEW d \in Nat, NEW k \in Nat
    PROVE  ByteOf(d, k) \in Byte
<1>1. Power[k] \in Nat \ {0}
  BY PowerType
<1> DEFINE q == d \div Power[k]
<1>2. q \in Nat
  BY <1>1
<1> HIDE DEF q
<1>3. q % ByteValues \in Byte
  BY <1>2, ByteAssumption DEF Byte
<1> QED
  BY <1>3 DEF ByteOf, q

LEMMA FirstByte ==
    ASSUME NEW d \in Nat
    PROVE  ByteOf(d, 0) = d % ByteValues
<1>1. d \div 1 = d
  OBVIOUS
<1> QED
  BY <1>1, PowerStep DEF ByteOf

(* Without its first byte, a word has its bytes one place lower. *)
LEMMA NextByte ==
    ASSUME NEW d \in Nat, NEW k \in Nat
    PROVE  ByteOf(d, k + 1) = ByteOf(d \div ByteValues, k)
<1>1. Power[k] \in Nat \ {0} /\ Power[k + 1] = ByteValues * Power[k]
  BY PowerType, PowerStep
<1>2. d \div (ByteValues * Power[k]) = (d \div ByteValues) \div Power[k]
  BY <1>1, ByteAssumption, DivisionTwice
<1> QED
  BY <1>1, <1>2 DEF ByteOf

(* A word is its first byte and the word of the others. *)
LEMMA WordStep ==
    ASSUME NEW n \in Nat, NEW bytes, bytes[0] \in Byte, NEW rest,
           \A k \in 0..(n - 1) : rest[k] = bytes[k + 1],
           NEW w, IsWord(w, n, rest)
    PROVE  IsWord(ByteValues * w + bytes[0], n + 1, bytes)
<1> DEFINE B == ByteValues
           v == B * w + bytes[0]
           P == Power[n]
<1>1. B \in Nat \ {0} /\ P \in Nat \ {0} /\ Power[n + 1] = B * P /\ w \in 0..(P - 1)
      /\ bytes[0] \in 0..(B - 1)
  BY ByteAssumption, PowerStep, PowerType DEF IsWord, Byte
<1> HIDE DEF P
<1>2. v \in 0..(Power[n + 1] - 1)
  <2>1. B * P = B * w + B + B * (P - 1 - w) /\ B * (P - 1 - w) \in Nat /\ B * w \in Nat
    BY <1>1
  <2> QED
    BY <1>1, <2>1
<1>3. v \in Nat /\ v \div B = w /\ v % B = bytes[0]
  <2>1. v \in Nat /\ w \in Nat
    BY <1>1, <1>2
  <2> QED
    BY <1>1, <2>1, DivisionUnique
<1> HIDE DEF v
<1>4. ASSUME NEW k \in 0..n PROVE ByteOf(v, k) = bytes[k]
  <2>1. CASE k = 0
    BY <1>3, <2>1, FirstByte
  <2>2. CASE k # 0
    <3> DEFINE j == k - 1
    <3>1. j \in Nat /\ j \in 0..(n - 1) /\ k = j + 1
      BY <2>2
    <3> HIDE DEF j
    <3>2. ByteOf(v, j + 1) = ByteOf(w, j)
      BY <1>3, <3>1, NextByte
    <3>3. ByteOf(w, j) = bytes[j + 1]
      BY <3>1 DEF IsWord
    <3> QED
      BY <3>1, <3>2, <3>3
  <2> QED
    BY <2>1, <2>2
<1>5. (n + 1) - 1 = n
  OBVIOUS
<1> QED
  BY <1>2, <1>4, <1>5 DEF IsWord, v

LEMMA WordExists ==
    ASSUME NEW n \in Nat, NEW bytes, \A k \in 0..(n - 1) : bytes[k] \in Byte
    PROVE  \E w : IsWord(w, n, bytes)
<1> DEFINE AreBytes(b, m) == \A k \in 0..(m - 1) : b[k] \in Byte
           S == {m \in Nat : \A b \in [Nat -> Byte] : \E w : IsWord(w, m, b)}
<1>1. 0 \in S
  <2>1. \A b : IsWord(0, 0, b)
    BY PowerStep DEF IsWord
  <2> QED
    BY <2>1
<1>2. ASSUME NEW m \in Nat, m \in S PROVE m + 1 \in S
  <2> SUFFICES ASSUME NEW b \in [Nat -> Byte] PROVE \E w : IsWord(w, m + 1, b)
    OBVIOUS
  <2> DEFINE rest == [k \in Nat |-> b[k + 1]]
  <2>1. rest \in [Nat -> Byte] /\ \A k \in 0..(m - 1) : rest[k] = b[k + 1]
    OBVIOUS
  <2>2. PICK w : IsWord(w, m, rest)
    BY <1>2, <2>1
  <2>3. b[0] \in Byte
    OBVIOUS
  <2> HIDE DEF rest
  <2> QED
    BY <2>1, <2>2, <2>3, WordStep
<1> HIDE DEF S
<1>3. Nat \subseteq S
  BY <1>1, <1>2, Induction
<1> DEFINE all == [k \in Nat |-> IF k \in 0..(n - 1) THEN bytes[k] ELSE 0]
<1>4. all \in [Nat -> Byte] /\ \A k \in 0..(n - 1) : all[k] = bytes[k]
  BY ByteAssumption DEF Byte
<1> HIDE DEF all
<1>5. PICK w : IsWord(w, n, all)
  BY <1>3, <1>4 DEF S
<1> QED
  BY <1>4, <1>5 DEF IsWord

(* Words with the same bytes are the same. *)
LEMMA WordUnique ==
    ASSUME NEW n \in Nat, NEW bytes, NEW v, NEW w, IsWord(v, n, bytes), IsWord(w, n, bytes)
    PROVE  v = w
<1> DEFINE Same(m, x, y) == \A k \in 0..(m - 1) : ByteOf(x, k) = ByteOf(y, k)
           S == {m \in Nat : \A x, y \in 0..(Power[m] - 1) : Same(m, x, y) => x = y}
<1>1. 0 \in S
  BY PowerStep
<1>2. ASSUME NEW m \in Nat, m \in S PROVE m + 1 \in S
  <2> SUFFICES ASSUME NEW x \in 0..(Power[m + 1] - 1), NEW y \in 0..(Power[m + 1] - 1),
                      Same(m + 1, x, y)
               PROVE  x = y
    OBVIOUS
  <2> DEFINE B == ByteValues
  <2>1. B \in Nat \ {0} /\ Power[m] \in Nat \ {0} /\ Power[m + 1] = B * Power[m]
    BY ByteAssumption, PowerStep, PowerType
  <2>2. x \in Nat /\ y \in Nat /\ x < B * Power[m] /\ y < B * Power[m]
    BY <2>1
  <2>3. x \div B \in 0..(Power[m] - 1) /\ y \div B \in 0..(Power[m] - 1)
    <3>1. x \div B \in Nat /\ x \div B < Power[m] /\ y \div B \in Nat /\ y \div B < Power[m]
      BY <2>1, <2>2, QuotientBound
    <3> QED
      BY <2>1, <3>1
  <2>4. Same(m, x \div B, y \div B)
    <3> TAKE k \in 0..(m - 1)
    <3>1. k \in Nat /\ k + 1 \in 0..((m + 1) - 1)
      OBVIOUS
    <3>2. ByteOf(x, k + 1) = ByteOf(y, k + 1)
      BY <3>1
    <3> QED
      BY <2>2, <3>1, <3>2, NextByte
  <2>5. x \div B = y \div B
    BY <1>2, <2>3, <2>4
  <2>6. x % B = y % B
    <3>1. 0 \in 0..((m + 1) - 1)
      OBVIOUS
    <3> QED
      BY <2>2, <3>1, FirstByte
  <2>7. x = B * (x \div B) + (x % B) /\ y = B * (y \div B) + (y % B)
    BY <2>1, <2>2
  <2> QED
    BY <2>5, <2>6, <2>7
<1> HIDE DEF S
<1>3. Nat \subseteq S
  BY <1>1, <1>2, Induction
<1> QED
  BY <1>3 DEF IsWord, S

(* WordOf is the only word with its bytes. *)
LEMMA WordOfIsWord ==
    ASSUME NEW n \in Nat, NEW bytes, \A k \in 0..(n - 1) : bytes[k] \in Byte
    PROVE  /\ IsWord(WordOf(n, bytes), n, bytes)
           /\ WordOf(n, bytes) \in Nat
           /\ \A w : IsWord(w, n, bytes) => w = WordOf(n, bytes)
<1>1. IsWord(WordOf(n, bytes), n, bytes)
  BY WordExists DEF IsWord, WordOf
<1>2. WordOf(n, bytes) \in Nat
  <2>1. Power[n] \in Nat
    BY PowerType
  <2> QED
    BY <1>1, <2>1 DEF IsWord
<1> QED
  BY <1>1, <1>2, WordUnique

(* A word of n bytes is made of its own bytes. *)
LEMMA WordOfBytes ==
    ASSUME NEW n \in Nat, NEW w \in 0..(Power[n] - 1), NEW bytes,
           \A k \in 0..(n - 1) : bytes[k] = ByteOf(w, k)
    PROVE  WordOf(n, bytes) = w
<1>1. w \in Nat
  BY PowerType
<1>2. \A k \in 0..(n - 1) : bytes[k] \in Byte
  BY <1>1, ByteOfType
<1>3. IsWord(w, n, bytes)
  BY DEF IsWord
<1> QED
  BY <1>2, <1>3, WordOfIsWord
=============================================================================
