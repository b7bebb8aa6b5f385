--------------------------- MODULE LibraryProofs ----------------------------
(***************************************************************************)
(* Calls of the C run time library: bitvectors stay in normal form, and    *)
(* the loop of real_power keeps the invariant that its comment states.     *)
(***************************************************************************)
EXTENDS Library, GmpProofs

-----------------------------------------------------------------------------
(* Words and loops. *)

LEMMA WordType ==
    /\ WordBits \in Nat \ {0} /\ ByteBits \in Nat \ {0} /\ WordBits = 8 * ByteBits
    /\ Word = exp2[WordBits] /\ Word \in Nat \ {0}
  BY WordAssumption, Exp2Step DEF Word

LEMMA UiType == \A n \in Int : ui(n) \in 0..(Word - 1)
<1> TAKE n \in Int
<1>1. abs(n) \in Nat
  BY DEF abs
<1>2. abs(n) % Word \in 0..(Word - 1)
  BY <1>1, WordType
<1> QED
  BY <1>2, WordType DEF ui, get_ui

LEMMA UiBelow == \A n \in Nat : ui(n) \in 0..n
<1> TAKE n \in Nat
<1>1. abs(n) = n
  BY DEF abs
<1>2. n % Word \in 0..n
  BY WordType, RemainderBelow
<1> QED
  BY <1>1, <1>2, WordType DEF ui, get_ui

(* A shift to the left lengthens a vector by the count at most. *)
LEMMA LslBelow ==
    ASSUME NEW a \in Nat, NEW n \in Nat, NEW v \in 0..(exp2[a] - 1)
    PROVE  lsl(v, n) \in 0..(exp2[a + n] - 1)
<1> DEFINE k == n % WordBits
           p == exp2[WordBits - k]
           r == v % p
<1>1. k \in 0..n /\ k \in 0..(WordBits - 1)
  BY WordType, RemainderBelow
<1>2. WordBits - k \in Nat /\ v \in Nat
  BY <1>1, WordType
<1> HIDE DEF k
<1>3. p \in Nat \ {0}
  BY <1>2, Exp2Step
<1> HIDE DEF p
<1>4. r \in 0..v
  BY <1>2, <1>3, RemainderBelow
<1> HIDE DEF r
<1>5. r \in 0..(exp2[a] - 1)
  BY <1>2, <1>4, Exp2Step
<1>6. r * exp2[k] \in 0..(exp2[a + k] - 1)
  BY <1>1, <1>5, ShiftBelow
<1>7. exp2[a + k] <= exp2[a + n] /\ exp2[a + k] \in Nat /\ exp2[a + n] \in Nat
  BY <1>1, Exp2Monotonic, Exp2Step
<1>8. lsl(v, n) = r * exp2[k]
  BY DEF lsl, k, p, r
<1> QED
  BY <1>6, <1>7, <1>8

LEMMA LsrBelow ==
    ASSUME NEW v \in Nat, NEW n \in Int
    PROVE  lsr(v, n) \in 0..v
<1>1. n % WordBits \in Nat
  BY WordType
<1>2. exp2[n % WordBits] \in Nat \ {0}
  BY <1>1, Exp2Step
<1> QED
  BY <1>2, QuotientBelow DEF lsr

(* A mask is a number of as many bits as it is for. *)
LEMMA MaskBelow == \A len \in Nat : mask(len) \in 0..(exp2[len] - 1)
<1> TAKE len \in Nat
<1>0. WordBits - len \in Int /\ Word - 1 \in Nat /\ exp2[len] \in Nat \ {0}
  BY WordType, Exp2Step
<1>1. CASE len \notin 1..WordBits
  <2>1. mask(len) = 0
    BY <1>1, WordType DEF mask, safe_rshift
  <2> QED
    BY <1>0, <2>1
<1>2. CASE len \in 1..WordBits
  <2>1. WordBits - len \in 0..(WordBits - 1) /\ len + (WordBits - len) = WordBits
    BY <1>2, WordType
  <2>2. mask(len) = (Word - 1) \div exp2[WordBits - len]
    <3>1. (WordBits - len) % WordBits = WordBits - len
      BY <2>1, WordType
    <3> QED
      BY <2>1, <3>1, WordType DEF mask, safe_rshift, lsr
  <2>3. Word - 1 < exp2[len + (WordBits - len)]
    BY <2>1, WordType
  <2>4. (Word - 1) \div exp2[WordBits - len] \in 0..(exp2[len] - 1)
    BY <1>0, <2>1, <2>3, HighBitsBelow
  <2> QED
    BY <2>2, <2>4
<1> QED
  BY <1>1, <1>2

(* A loop ends in T[n] if its start is in T[0] and each of its n iterations *)
(* leads from T[k] into T[k + 1].                                           *)
LEMMA LoopStays ==
    ASSUME NEW step, NEW v, NEW a \in Int, NEW b \in Int, NEW T, v \in T[0],
           \A k \in Nat : k <= b - a => \A u \in T[k] : step[a + k][u] \in T[k + 1]
    PROVE  For(step, v, a, b) \in T[IF b < a THEN 0 ELSE b - a + 1]
<1> DEFINE IsAfter(f) == f = [k \in Nat |-> IF k = 0 THEN v ELSE step[a + k - 1][f[k - 1]]]
           after == CHOOSE f : IsAfter(f)
           steps == [k \in Nat |-> step[a + k - 1]]
<1>1. PICK f : IsSequel(f, v, steps)
  BY SequelExists
<1>2. IsAfter(f)
  BY <1>1 DEF IsSequel
<1>3. IsAfter(after)
  BY <1>2, Zenon
<1>4. For(step, v, a, b) = IF b < a THEN v ELSE after[b - a + 1]
  BY Zenon DEF For
<1> HIDE DEF after
<1> DEFINE S == {k \in Nat : k <= b - a + 1 => after[k] \in T[k]}
<1>5. 0 \in S
  BY <1>3
<1>6. ASSUME NEW k \in Nat, k \in S PROVE k + 1 \in S
  <2> SUFFICES ASSUME k + 1 <= b - a + 1 PROVE after[k + 1] \in T[k + 1]
    OBVIOUS
  <2>1. k <= b - a /\ after[k] \in T[k]
    BY <1>6
  <2>2. k + 1 # 0 /\ (k + 1) - 1 = k /\ a + (k + 1) - 1 = a + k
    OBVIOUS
  <2>3. after[k + 1] = step[a + k][after[k]]
    BY <1>3, <2>2
  <2> QED
    BY <2>1, <2>3
<1> HIDE DEF S, IsAfter
<1>7. Nat \subseteq S
  BY <1>5, <1>6, Binary!Induction
<1>8. CASE b < a
  BY <1>4, <1>8
<1>9. CASE ~(b < a)
  <2>1. b - a + 1 \in Nat /\ b - a + 1 \in S
    BY <1>7, <1>9
  <2>2. after[b - a + 1] \in T[b - a + 1]
    BY <2>1 DEF S
  <2> QED
    BY <1>4, <1>9, <2>2
<1> QED
  BY <1>8, <1>9

(* In particular a loop stays in a set that its iterations do not leave. *)
LEMMA LoopInvariant ==
    ASSUME NEW step, NEW a \in Int, NEW b \in Int, NEW R, NEW v \in R,
           \A i \in a..b : \A u \in R : step[i][u] \in R
    PROVE  For(step, v, a, b) \in R
<1> DEFINE T == [k \in Nat |-> R]
<1>1. v \in T[0]
  OBVIOUS
<1>2. \A k \in Nat : k <= b - a => \A u \in T[k] : step[a + k][u] \in T[k + 1]
  <2> TAKE k \in Nat
  <2> HAVE k <= b - a
  <2>1. a + k \in a..b /\ T[k] = R /\ T[k + 1] = R
    OBVIOUS
  <2> QED
    BY <2>1
<1>3. T[IF b < a THEN 0 ELSE b - a + 1] = R
  OBVIOUS
<1> HIDE DEF T
<1>4. For(step, v, a, b) \in T[IF b < a THEN 0 ELSE b - a + 1]
  BY <1>1, <1>2, LoopStays
<1> QED
  BY <1>3, <1>4

-----------------------------------------------------------------------------
(* Bitvectors in normal form, one function after the other.  Stores says   *)
(* that a call changes d only, to a bitvector in normal form.              *)
Stores(m, d, m1) == \E v : IsNormal(v) /\ m1 = [m EXCEPT ![d] = v]

(* rop is given a length and a number of as many bits. *)
LEMMA PutStores ==
    ASSUME NEW m, NEW d, NEW len \in Nat, NEW n \in 0..(exp2[len] - 1)
    PROVE  Stores(m, d, Put(m, d, len, n))
<1>1. IsNormal([len |-> len, bits |-> n])
  BY Exp2Step DEF IsNormal
<1> QED
  BY <1>1, Zenon DEF Put, Stores

(* normalize_lbits brings any integer to the length. *)
LEMMA NormalizeStores ==
    ASSUME NEW m, NEW d \in DOMAIN m, NEW len \in Nat, NEW n \in Int
    PROVE  Stores(m, d, normalize_lbits(Put(m, d, len, n), d))
<1>1. Put(m, d, len, n)[d].len = len /\ Put(m, d, len, n)[d].bits = n
  BY DEF Put
<1>2. normalize_lbits(Put(m, d, len, n), d) = Put(Put(m, d, len, n), d, len, n % exp2[len])
  BY <1>1 DEF normalize_lbits
<1>3. Put(Put(m, d, len, n), d, len, n % exp2[len]) = Put(m, d, len, n % exp2[len])
  BY DEF Put
<1>4. n % exp2[len] \in 0..(exp2[len] - 1)
  BY Exp2Step
<1> HIDE DEF Put
<1> QED
  BY <1>2, <1>3, <1>4, PutStores

(* A memory in which the operands of f can be. *)
NormalMem(m) ==
    /\ \A v \in DOMAIN m \cap BitSlots : IsNormal(m[v])
    /\ \A v \in DOMAIN m \cap Integers : m[v] \in Int

(* The operands by name. *)
LEMMA SlotsAre ==
    ASSUME NEW m, NormalMem(m)
    PROVE  /\ "x" \in DOMAIN m => /\ m.x.len \in Nat /\ m.x.bits \in 0..(exp2[m.x.len] - 1)
                                  /\ m.x.bits \in Nat /\ exp2[m.x.len] \in Nat
           /\ "y" \in DOMAIN m => /\ m.y.len \in Nat /\ m.y.bits \in 0..(exp2[m.y.len] - 1)
                                  /\ m.y.bits \in Nat /\ exp2[m.y.len] \in Nat
           /\ "n" \in DOMAIN m => m.n \in Int /\ ui(m.n) \in Nat
           /\ "k" \in DOMAIN m => m.k \in Int /\ ui(m.k) \in Nat
           /\ "j" \in DOMAIN m => m.j \in Int /\ ui(m.j) \in Nat
<1>1. ASSUME NEW v \in {"x", "y"}, v \in DOMAIN m
      PROVE  /\ m[v].len \in Nat /\ m[v].bits \in 0..(exp2[m[v].len] - 1)
             /\ m[v].bits \in Nat /\ exp2[m[v].len] \in Nat
  <2>1. IsNormal(m[v])
    BY <1>1 DEF NormalMem, BitSlots
  <2> QED
    BY <2>1, Exp2Step DEF IsNormal
<1>2. ASSUME NEW v \in {"n", "k", "j"}, v \in DOMAIN m
      PROVE  m[v] \in Int /\ ui(m[v]) \in Nat
  <2>1. m[v] \in Int
    BY <1>2 DEF NormalMem, Integers
  <2> QED
    BY <2>1, UiType, WordType
<1> QED
  BY <1>1, <1>2

(* The bits of an operand are a natural number, also if it is rop itself. *)
LEMMA BitsNowType ==
    ASSUME NEW m, NormalMem(m), NEW d, NEW n \in Nat, NEW v \in {"x", "y"}, v \in DOMAIN m
    PROVE  BitsNow(m, d, n, v) \in Nat
  BY SlotsAre DEF BitsNow

(* Sums, products, and the other functions that end by normalising. *)
LEMMA NormalizedFunctions ==
    ASSUME NEW m, NormalMem(m), NEW d \in DOMAIN m, NEW f, Reads(f) \subseteq DOMAIN m, Typed(f, m),
           f \in {"add_bits", "sub_bits", "add_bits_int", "sub_bits_int", "mult_vec", "mults_vec",
                  "vector_subrange_lbits", "sail_truncate", "sail_truncateLSB",
                  "shift_bits_left", "shiftl"}
    PROVE  Stores(m, d, Written(f, m, d))
<1>1. "x" \in DOMAIN m
  BY DEF Reads
<1>2. m.x.len \in Nat /\ m.x.bits \in Nat
  BY <1>1, SlotsAre
<1>3. CASE f = "add_bits"
  <2>1. "y" \in DOMAIN m
    BY <1>3 DEF Reads
  <2>2. m.x.bits + m.y.bits \in Int
    BY <1>2, <2>1, SlotsAre
  <2> QED
    BY <1>2, <1>3, <2>2, NormalizeStores DEF Written, add_bits
<1>4. CASE f = "sub_bits"
  <2>1. "y" \in DOMAIN m
    BY <1>4 DEF Reads
  <2>2. m.x.bits - m.y.bits \in Int
    BY <1>2, <2>1, SlotsAre
  <2> QED
    BY <1>2, <1>4, <2>2, NormalizeStores DEF Written, sub_bits
<1>5. CASE f = "add_bits_int"
  <2>1. "n" \in DOMAIN m
    BY <1>5 DEF Reads
  <2>2. m.x.bits + m.n \in Int
    BY <1>2, <2>1, SlotsAre
  <2> QED
    BY <1>2, <1>5, <2>2, NormalizeStores DEF Written, add_bits_int
<1>6. CASE f = "sub_bits_int"
  <2>1. "n" \in DOMAIN m
    BY <1>6 DEF Reads
  <2>2. m.x.bits - m.n \in Int
    BY <1>2, <2>1, SlotsAre
  <2> QED
    BY <1>2, <1>6, <2>2, NormalizeStores DEF Written, sub_bits_int
<1>7. CASE f = "mult_vec"
  <2>1. "y" \in DOMAIN m
    BY <1>7 DEF Reads
  <2>2. m.x.bits * m.y.bits \in Int /\ m.x.len * 2 \in Nat
    BY <1>2, <2>1, SlotsAre
  <2> QED
    BY <1>7, <2>2, NormalizeStores DEF Written, mult_vec
<1>8. CASE f = "mults_vec"
  <2>1. "y" \in DOMAIN m
    BY <1>8 DEF Reads
  <2>2. ASSUME NEW op, op.len \in Nat, op.bits \in Nat PROVE sail_signed(op) \in Int
    <3>1. CASE op.len = 0
      BY <3>1 DEF sail_signed
    <3>2. CASE op.len # 0
      <4>1. op.len - 1 \in Nat /\ exp2[op.len - 1] \in Nat
        BY <2>2, <3>2, Exp2Step
      <4> QED
        BY <2>2, <3>2, <4>1 DEF sail_signed, combit, mul_2exp
    <3> QED
      BY <3>1, <3>2
  <2>3. sail_signed(m.x) \in Int /\ sail_signed(m.y) \in Int
    BY <1>2, <2>1, <2>2, SlotsAre
  <2>4. sail_signed(m.x) * sail_signed(m.y) \in Int /\ m.x.len * 2 \in Nat
    BY <1>2, <2>3
  <2> QED
    BY <1>8, <2>4, NormalizeStores DEF Written, mults_vec
<1>9. CASE f = "vector_subrange_lbits"
  <2>1. "n" \in DOMAIN m /\ "k" \in DOMAIN m
    BY <1>9 DEF Reads
  <2>2. ui(m.n) \in Nat /\ ui(m.k) \in Nat /\ ui(m.k) <= ui(m.n) + 1
    BY <1>9, <2>1, SlotsAre DEF Typed
  <2>3. fdiv_q_2exp(m.x.bits, ui(m.k)) \in Int /\ ui(m.n) - (ui(m.k) - 1) \in Nat
    BY <1>2, <2>2, Exp2Step DEF fdiv_q_2exp
  <2> QED
    BY <1>9, <2>3, NormalizeStores DEF Written, vector_subrange_lbits
<1>10. CASE f = "sail_truncate"
  <2>1. "n" \in DOMAIN m
    BY <1>10 DEF Reads
  <2>2. ui(m.n) \in Nat /\ m.x.bits \in Int
    BY <1>2, <2>1, SlotsAre
  <2> QED
    BY <1>10, <2>2, NormalizeStores DEF Written, sail_truncate
<1>11. CASE f = "sail_truncateLSB"
  <2>1. "n" \in DOMAIN m
    BY <1>11 DEF Reads
  <2>2. ui(m.n) \in Nat /\ ui(m.n) <= m.x.len
    BY <1>11, <2>1, SlotsAre DEF Typed
  <2>3. fdiv_q_2exp(m.x.bits, m.x.len - ui(m.n)) \in Int
    BY <1>2, <2>2, Exp2Step DEF fdiv_q_2exp
  <2> QED
    BY <1>11, <2>2, <2>3, NormalizeStores DEF Written, sail_truncateLSB
<1>12. CASE f = "shift_bits_left"
  <2>1. "y" \in DOMAIN m
    BY <1>12 DEF Reads
  <2>2. ui(m.y.bits) \in Nat
    BY <2>1, SlotsAre, UiType, WordType
  <2>3. mul_2exp(m.x.bits, ui(m.y.bits)) \in Int
    BY <1>2, <2>2, Exp2Step DEF mul_2exp
  <2> QED
    BY <1>2, <1>12, <2>3, NormalizeStores DEF Written, shift_bits_left
<1>13. CASE f = "shiftl"
  <2>1. "n" \in DOMAIN m
    BY <1>13 DEF Reads
  <2>2. mul_2exp(m.x.bits, ui(m.n)) \in Int
    BY <1>2, <2>1, SlotsAre, Exp2Step DEF mul_2exp
  <2> QED
    BY <1>2, <1>13, <2>2, NormalizeStores DEF Written, shiftl
<1> QED
  BY <1>3, <1>4, <1>5, <1>6, <1>7, <1>8, <1>9, <1>10, <1>11, <1>12, <1>13

(* A number below a power of two is below a higher one. *)
LEMMA BelowLonger ==
    ASSUME NEW a \in Nat, NEW b \in Nat, a <= b, NEW n \in 0..(exp2[a] - 1)
    PROVE  n \in 0..(exp2[b] - 1)
<1>1. exp2[a] <= exp2[b] /\ exp2[a] \in Nat /\ exp2[b] \in Nat
  BY Exp2Monotonic, Exp2Step
<1> QED
  BY <1>1

(* Conversions keep the length: an lbits that becomes a word is cut to it, *)
(* a word that becomes an lbits is already below it.                       *)
LEMMA ConversionFunctions ==
    ASSUME NEW m, NormalMem(m), NEW d \in DOMAIN m, NEW f, Reads(f) \subseteq DOMAIN m,
           f \in {"CREATE_lbits", "RECREATE_lbits", "COPY_lbits", "CREATE_OF_lbits_fbits",
                  "CREATE_OF_sbits_lbits", "CREATE_OF_lbits_sbits", "RECREATE_OF_lbits_fbits",
                  "CONVERT_OF_fbits_lbits", "CONVERT_OF_lbits_fbits", "CONVERT_OF_lbits_sbits",
                  "CONVERT_OF_sbits_lbits"}
    PROVE  Stores(m, d, Written(f, m, d))
<1>1. CASE f \in {"CREATE_lbits", "RECREATE_lbits"}
  <2>1. 0 \in 0..(exp2[0] - 1)
    BY Exp2Step
  <2> QED
    BY <1>1, <2>1, PutStores DEF Written, CREATE_lbits, RECREATE_lbits
<1>2. CASE f \notin {"CREATE_lbits", "RECREATE_lbits"}
  <2>1. "x" \in DOMAIN m
    BY <1>2 DEF Reads
  <2>2. m.x.len \in Nat /\ m.x.bits \in 0..(exp2[m.x.len] - 1) /\ m.x.bits \in Nat /\ exp2[m.x.len] \in Nat
    BY <2>1, SlotsAre
  <2>3. CASE f \in {"COPY_lbits", "CREATE_OF_lbits_fbits", "CREATE_OF_lbits_sbits",
                    "RECREATE_OF_lbits_fbits"}
    BY <2>2, <2>3, PutStores DEF Written, COPY_lbits, CREATE_OF_lbits_fbits,
       CREATE_OF_lbits_sbits, RECREATE_OF_lbits_fbits
  <2>4. CASE f \in {"CREATE_OF_sbits_lbits", "CONVERT_OF_fbits_lbits", "CONVERT_OF_sbits_lbits"}
    <3>1. ui(m.x.bits) \in 0..m.x.bits
      BY <2>2, UiBelow
    <3>2. ui(m.x.bits) \in 0..(exp2[m.x.len] - 1)
      BY <2>2, <3>1
    <3> QED
      BY <2>2, <2>4, <3>2, PutStores DEF Written, CREATE_OF_sbits_lbits,
         CONVERT_OF_fbits_lbits, CONVERT_OF_sbits_lbits
  <2>5. CASE f \in {"CONVERT_OF_lbits_fbits", "CONVERT_OF_lbits_sbits"}
    <3>1. mask(m.x.len) \in Nat /\ m.x.bits < exp2[m.x.len]
      BY <2>2, MaskBelow
    <3>2. m.x.bits & mask(m.x.len) \in 0..(exp2[m.x.len] - 1)
      BY <2>2, <3>1, AndBelow
    <3> QED
      BY <2>2, <2>5, <3>2, PutStores DEF Written, CONVERT_OF_lbits_fbits, CONVERT_OF_lbits_sbits
  <2> QED
    BY <1>2, <2>3, <2>4, <2>5
<1> QED
  BY <1>1, <1>2

(* append_64 adds a word below the bits that it shifts up. *)
LEMMA Append64Stores ==
    ASSUME NEW m, NormalMem(m), "x" \in DOMAIN m, "n" \in DOMAIN m, m.n \in 0..(Word - 1)
    PROVE  Stores(m, "x", append_64(m, "x"))
<1> DEFINE len == m.x.len
           n == m.x.bits
<1>1. len \in Nat /\ n \in 0..(exp2[len] - 1)
  BY SlotsAre
<1> HIDE DEF len, n
<1>2. n * exp2[WordBits] \in 0..(exp2[len + WordBits] - 1)
  BY <1>1, WordType, ShiftBelow
<1>3. n * exp2[WordBits] + m.n \in 0..(exp2[len + WordBits] - 1)
  <2> DEFINE p == exp2[len]
             w == exp2[WordBits]
  <2>1. p \in Nat /\ w \in Nat /\ exp2[len + WordBits] = p * w /\ m.n \in 0..(w - 1)
    BY <1>1, WordType, Exp2Sum, Exp2Step
  <2> HIDE DEF p, w
  <2>2. p - 1 - n \in Nat /\ p = n + 1 + (p - 1 - n)
    BY <1>1, <2>1 DEF p
  <2>3. p * w = n * w + w + (p - 1 - n) * w /\ (p - 1 - n) * w \in Nat /\ n * w \in Nat
    BY <1>1, <2>1, <2>2
  <2>4. n * w + m.n \in 0..(p * w - 1)
    BY <2>1, <2>3
  <2> QED
    BY <2>1, <2>4 DEF w
<1>4. append_64(m, "x") = Put(m, "x", len + WordBits, n * exp2[WordBits] + m.n)
  BY DEF append_64, mul_2exp, len, n
<1>5. len + WordBits \in Nat
  BY <1>1, WordType
<1> QED
  BY <1>3, <1>4, <1>5, PutStores

(* And, or, exclusive or and the shift to the right. *)
LEMMA BitwiseFunctions ==
    ASSUME NEW m, NormalMem(m), NEW d \in DOMAIN m, NEW f, Reads(f) \subseteq DOMAIN m, Typed(f, m),
           f \in {"and_bits", "or_bits", "xor_bits", "shift_bits_right"}
    PROVE  Stores(m, d, Written(f, m, d))
<1>1. "x" \in DOMAIN m /\ "y" \in DOMAIN m
  BY DEF Reads
<1> DEFINE len == m.x.len
           a == m.x.bits
           b == m.y.bits
<1>2. len \in Nat /\ a \in 0..(exp2[len] - 1) /\ a \in Nat /\ b \in Nat /\ exp2[len] \in Nat
  BY <1>1, SlotsAre
<1>0. a < exp2[len] /\ (m.y.len = len => b < exp2[len])
  BY <1>1, <1>2, SlotsAre
<1> HIDE DEF len, a, b
<1>3. CASE f = "and_bits"
  <2>1. a & b \in 0..(exp2[len] - 1)
    BY <1>0, <1>2, AndBelow
  <2> QED
    BY <1>2, <1>3, <2>1, PutStores DEF Written, and_bits, len, a, b
<1>4. CASE f \in {"or_bits", "xor_bits"}
  <2>1. m.y.len = len
    BY <1>4 DEF Typed, len
  <2>2. a < exp2[len] /\ b < exp2[len]
    BY <1>0, <2>1
  <2>3. a | b \in 0..(exp2[len] - 1)
    BY <1>2, <2>2, OrBelow
  <2>4. a ^^ b \in 0..(exp2[len] - 1)
    BY <1>2, <2>2, XorBelow
  <2> QED
    BY <1>2, <1>4, <2>3, <2>4, PutStores DEF Written, or_bits, xor_bits, len, a, b
<1>5. CASE f = "shift_bits_right"
  <2>0. ui(b) \in 0..b
    BY <1>2, UiBelow
  <2>1. ui(b) \in Nat
    BY <1>2, <2>0
  <2>2. tdiv_q_2exp(a, ui(b)) \in 0..a
    BY <1>2, <2>1, TruncatedQuotient
  <2>3. tdiv_q_2exp(a, ui(b)) \in 0..(exp2[len] - 1)
    BY <1>2, <2>2
  <2> QED
    BY <1>2, <1>5, <2>3, PutStores DEF Written, shift_bits_right, len, a, b
<1> QED
  BY <1>3, <1>4, <1>5

(* The new length is not below the length of the bits. *)
LEMMA LengthFunctions ==
    ASSUME NEW m, NormalMem(m), NEW d \in DOMAIN m, NEW f, Reads(f) \subseteq DOMAIN m, Typed(f, m),
           f \in {"zeros", "zero_extend", "shiftr"}
    PROVE  Stores(m, d, Written(f, m, d))
<1>1. "n" \in DOMAIN m /\ (f # "zeros" => "x" \in DOMAIN m)
  BY DEF Reads
<1>2. ui(m.n) \in Nat
  BY <1>1, SlotsAre
<1>3. CASE f = "zeros"
  <2>1. 0 \in 0..(exp2[ui(m.n)] - 1)
    BY <1>2, Exp2Step
  <2> QED
    BY <1>2, <1>3, <2>1, PutStores DEF Written, zeros
<1>4. CASE f = "zero_extend"
  <2>1. m.x.len \in Nat /\ m.x.bits \in 0..(exp2[m.x.len] - 1) /\ m.x.len <= ui(m.n)
    BY <1>1, <1>4, SlotsAre DEF Typed
  <2>2. m.x.bits \in 0..(exp2[ui(m.n)] - 1)
    BY <1>2, <2>1, BelowLonger
  <2> QED
    BY <1>2, <1>4, <2>2, PutStores DEF Written, zero_extend
<1>5. CASE f = "shiftr"
  <2>1. m.x.len \in Nat /\ m.x.bits \in 0..(exp2[m.x.len] - 1) /\ m.x.bits \in Nat /\ exp2[m.x.len] \in Nat
    BY <1>1, <1>5, SlotsAre
  <2>2. tdiv_q_2exp(m.x.bits, ui(m.n)) \in 0..m.x.bits
    BY <1>2, <2>1, TruncatedQuotient
  <2>3. tdiv_q_2exp(m.x.bits, ui(m.n)) \in 0..(exp2[m.x.len] - 1)
    BY <2>1, <2>2
  <2> QED
    BY <1>5, <2>1, <2>3, PutStores DEF Written, shiftr
<1> QED
  BY <1>3, <1>4, <1>5

(* Functions with a loop over bits. *)
LEMMA SetBitsBelow ==
    ASSUME NEW len \in Nat, NEW u \in 0..(exp2[len] - 1), NEW a \in Nat, NEW b \in Int, b < len
    PROVE  SetBits(u, a, b) \in 0..(exp2[len] - 1)
<1> DEFINE R == 0..(exp2[len] - 1)
           step == [i \in Nat |-> [v \in Nat |-> setbit(v, i)]]
<1>1. \A i \in a..b : \A v \in R : step[i][v] \in R
  <2> TAKE i \in a..b
  <2> TAKE v \in R
  <2>1. i \in 0..(len - 1) /\ i \in Nat /\ v \in Nat
    BY Exp2Step
  <2>2. setbit(v, i) \in R
    BY <2>1, BitBelow
  <2> QED
    BY <2>1, <2>2
<1> HIDE DEF R, step
<1>2. u \in R /\ a \in Int
  BY DEF R
<1>3. For(step, u, a, b) \in R
  BY <1>1, <1>2, LoopInvariant
<1> QED
  BY <1>3 DEF SetBits, R, step

(* not_bits complements one bit after the other. *)
LEMMA NotBitsStores ==
    ASSUME NEW m, NormalMem(m), NEW d, "x" \in DOMAIN m
    PROVE  Stores(m, d, not_bits(m, d))
<1> DEFINE len == m.x.len
           n == m.x.bits
           R == 0..(exp2[len] - 1)
           step == [i \in Nat |-> [u \in Nat |-> combit(u, i)]]
<1>1. len \in Nat /\ n \in R
  BY SlotsAre
<1>2. not_bits(m, d) = Put(m, d, len, For(step, n, 0, len - 1))
  BY DEF not_bits
<1> HIDE DEF len, n
<1>3. \A i \in 0..(len - 1) : \A u \in R : step[i][u] \in R
  <2> TAKE i \in 0..(len - 1)
  <2> TAKE u \in R
  <2>1. i \in Nat /\ u \in Nat
    BY Exp2Step
  <2>2. combit(u, i) \in R
    BY <1>1, BitBelow
  <2> QED
    BY <2>1, <2>2
<1> HIDE DEF R, step
<1>4. For(step, n, 0, len - 1) \in R
  BY <1>1, <1>3, LoopInvariant
<1> QED
  BY <1>1, <1>2, <1>4, PutStores DEF R

(* sign_extend sets the bits from the old length to the new one. *)
LEMMA SignExtendStores ==
    ASSUME NEW m, NormalMem(m), NEW d, {"x", "n"} \subseteq DOMAIN m, m.x.len <= ui(m.n)
    PROVE  Stores(m, d, sign_extend(m, d))
<1> DEFINE len == ui(m.n)
           n == m.x.bits
<1>1. m.x.len \in Nat /\ n \in 0..(exp2[m.x.len] - 1) /\ len \in Nat
  BY SlotsAre
<1> HIDE DEF len
<1>2. n \in 0..(exp2[len] - 1)
  BY <1>1, BelowLonger DEF len
<1> HIDE DEF n
<1>3. SetBits(n, m.x.len, len - 1) \in 0..(exp2[len] - 1)
  BY <1>1, <1>2, SetBitsBelow
<1> DEFINE r == IF tstbit(n, m.x.len - 1) = 1 THEN SetBits(n, m.x.len, len - 1) ELSE n
<1>4. r \in 0..(exp2[len] - 1)
  BY <1>2, <1>3
<1>5. sign_extend(m, d) = Put(m, d, len, r)
  BY DEF sign_extend, len, n
<1> HIDE DEF r
<1> QED
  BY <1>1, <1>4, <1>5, PutStores

(* slice and get_slice_int set bits of a zero, below the new length. *)
LEMMA SliceStores ==
    ASSUME NEW m, NormalMem(m), NEW d, {"x", "n", "k"} \subseteq DOMAIN m
    PROVE  Stores(m, d, slice(m, d))
<1> DEFINE len == ui(m.k)
           R == 0..(exp2[len] - 1)
           step == [i \in Nat |-> [u \in Nat |->
                      IF tstbit(BitsNow(m, d, u, "x"), i + ui(m.n)) = 1 THEN setbit(u, i) ELSE u]]
<1>1. len \in Nat
  BY SlotsAre
<1>2. slice(m, d) = Put(m, d, len, For(step, 0, 0, len - 1))
  BY DEF slice
<1> HIDE DEF len
<1>3. \A i \in 0..(len - 1) : \A u \in R : step[i][u] \in R
  <2> TAKE i \in 0..(len - 1)
  <2> TAKE u \in R
  <2>1. i \in Nat /\ u \in Nat
    BY Exp2Step
  <2>2. setbit(u, i) \in R
    BY <1>1, BitBelow
  <2> QED
    BY <2>1, <2>2
<1>4. 0 \in R
  BY <1>1, Exp2Step
<1> HIDE DEF R, step
<1>5. For(step, 0, 0, len - 1) \in R
  BY <1>1, <1>3, <1>4, LoopInvariant
<1> QED
  BY <1>1, <1>2, <1>5, PutStores DEF R

LEMMA GetSliceIntStores ==
    ASSUME NEW m, NormalMem(m), NEW d, {"n", "k", "j"} \subseteq DOMAIN m
    PROVE  Stores(m, d, get_slice_int(m, d))
<1> DEFINE len == ui(m.n)
           R == 0..(exp2[len] - 1)
           step == [i \in Nat |-> [u \in Nat |->
                      IF tstbit(m.k, i + ui(m.j)) = 1 THEN setbit(u, i) ELSE u]]
<1>1. len \in Nat
  BY SlotsAre
<1>2. get_slice_int(m, d) = Put(m, d, len, For(step, 0, 0, len - 1))
  BY DEF get_slice_int
<1> HIDE DEF len
<1>3. \A i \in 0..(len - 1) : \A u \in R : step[i][u] \in R
  <2> TAKE i \in 0..(len - 1)
  <2> TAKE u \in R
  <2>1. i \in Nat /\ u \in Nat
    BY Exp2Step
  <2>2. setbit(u, i) \in R
    BY <1>1, BitBelow
  <2> QED
    BY <2>1, <2>2
<1>4. 0 \in R
  BY <1>1, Exp2Step
<1> HIDE DEF R, step
<1>5. For(step, 0, 0, len - 1) \in R
  BY <1>1, <1>3, <1>4, LoopInvariant
<1> QED
  BY <1>1, <1>2, <1>5, PutStores DEF R

(* A slice that ends within the vector leaves its length. *)
LEMMA WriteSliceStores ==
    ASSUME NEW m, NormalMem(m), NEW d, "x" \in DOMAIN m, NEW start \in Nat, NEW n \in Int,
           start + n <= m.x.len
    PROVE  Stores(m, d, write_slice(m, d, start, n))
<1> DEFINE len == m.x.len
           R == 0..(exp2[len] - 1)
           step == [i \in Nat |-> [u \in Nat |->
                      setbit_to(u, i + start, tstbit(BitsNow(m, d, u, "y"), i))]]
<1>1. len \in Nat /\ m.x.bits \in R
  BY SlotsAre
<1>2. write_slice(m, d, start, n) = Put(m, d, len, For(step, m.x.bits, 0, n - 1))
  BY DEF write_slice
<1>0. start + n <= len
  OBVIOUS
<1> HIDE DEF len
<1>3. \A i \in 0..(n - 1) : \A u \in R : step[i][u] \in R
  <2> TAKE i \in 0..(n - 1)
  <2> TAKE u \in R
  <2>1. i \in Nat /\ u \in Nat /\ i + start \in 0..(len - 1)
    BY <1>0, <1>1, Exp2Step
  <2>2. setbit(u, i + start) \in R /\ clrbit(u, i + start) \in R
    BY <1>1, <2>1, BitBelow
  <2> QED
    BY <2>1, <2>2 DEF setbit_to
<1> HIDE DEF R, step
<1>5. For(step, m.x.bits, 0, n - 1) \in R
  BY <1>1, <1>3, LoopInvariant
<1> QED
  BY <1>1, <1>2, <1>5, PutStores DEF R

(* The sign fills the bits that the shift has freed. *)
LEMMA ShiftArithStores ==
    ASSUME NEW m, NormalMem(m), NEW d, {"x", "y"} \subseteq DOMAIN m, ui(m.y.bits) <= m.x.len
    PROVE  Stores(m, d, shift_bits_right_arith(m, d))
<1> DEFINE len == m.x.len
           s == ui(m.y.bits)
           n == fdiv_q_2exp(m.x.bits, s)
           r == IF tstbit(BitsNow(m, d, n, "x"), len - 1) # 0
                THEN SetBits(n, len - 1 - s + 1, len - 1) ELSE n
<1>1. len \in Nat /\ m.x.bits \in Nat /\ m.x.bits \in 0..(exp2[len] - 1) /\ exp2[len] \in Nat
  BY SlotsAre
<1>2. s \in Nat /\ s <= len
  <2>1. m.y.bits \in Int
    BY SlotsAre
  <2> QED
    BY <2>1, UiType, WordType
<1>3. shift_bits_right_arith(m, d) = Put(m, d, len, r)
  BY DEF shift_bits_right_arith
<1> HIDE DEF len, s
<1>4. n \in 0..(exp2[len] - 1)
  <2>1. exp2[s] \in Nat \ {0}
    BY <1>2, Exp2Step
  <2>2. m.x.bits \div exp2[s] \in 0..m.x.bits
    BY <1>1, <2>1, QuotientBelow
  <2> QED
    BY <1>1, <2>2 DEF fdiv_q_2exp
<1> HIDE DEF n
<1>5. SetBits(n, len - 1 - s + 1, len - 1) \in 0..(exp2[len] - 1)
  <2>1. len - 1 - s + 1 \in Nat /\ len - 1 \in Int /\ len - 1 < len
    BY <1>1, <1>2
  <2> QED
    BY <1>1, <1>4, <2>1, SetBitsBelow
<1>6. r \in 0..(exp2[len] - 1)
  BY <1>4, <1>5
<1> HIDE DEF r
<1> QED
  BY <1>1, <1>3, <1>6, PutStores

(* The bits of y go below those of x, also when rop is y. *)
LEMMA AppendStores ==
    ASSUME NEW m, NormalMem(m), NEW d, {"x", "y"} \subseteq DOMAIN m
    PROVE  Stores(m, d, append(m, d))
<1> DEFINE len == m.x.len + m.y.len
           n == m.x.bits * exp2[m.y.len]
           y == BitsNow(m, d, n, "y")
<1>1. /\ m.x.len \in Nat /\ m.x.bits \in 0..(exp2[m.x.len] - 1)
      /\ m.y.len \in Nat /\ m.y.bits \in 0..(exp2[m.y.len] - 1)
  BY SlotsAre
<1>2. append(m, d) = Put(m, d, len, n | y)
  BY DEF append, mul_2exp
<1>3. len \in Nat /\ m.y.len <= len
  BY <1>1
<1>4. n \in 0..(exp2[len] - 1)
  BY <1>1, ShiftBelow
<1>5. m.y.bits \in 0..(exp2[len] - 1)
  BY <1>1, <1>3, BelowLonger
<1> HIDE DEF len, n
<1>6. y \in 0..(exp2[len] - 1)
  BY <1>4, <1>5 DEF BitsNow
<1> HIDE DEF y
<1>7. n \in Nat /\ y \in Nat /\ n < exp2[len] /\ y < exp2[len]
  BY <1>3, <1>4, <1>6, Exp2Step
<1>8. n | y \in 0..(exp2[len] - 1)
  BY <1>3, <1>7, OrBelow
<1> QED
  BY <1>2, <1>3, <1>8, PutStores

(* After each iteration rop is one length of x longer. *)
LEMMA ReplicateStores ==
    ASSUME NEW m, NormalMem(m), NEW d, {"x", "n"} \subseteq DOMAIN m
    PROVE  Stores(m, d, replicate_bits(m, d))
<1> DEFINE len == m.x.len
           times == ui(m.n)
           T == [k \in Nat |-> 0..(exp2[len * k] - 1)]
           step == [i \in Nat |-> [u \in Nat |->
                      LET n == mul_2exp(u, m.x.len) IN n | BitsNow(m, d, n, "x")]]
<1>1. len \in Nat /\ m.x.bits \in 0..(exp2[len] - 1) /\ times \in Nat
  BY SlotsAre
<1>2. replicate_bits(m, d) = Put(m, d, len * times, For(step, 0, 1, times))
  BY DEF replicate_bits
<1>3. 0 \in T[0]
  BY <1>1, Exp2Step
<1>4. ASSUME NEW k \in Nat, NEW u \in T[k] PROVE step[1 + k][u] \in T[k + 1]
  <2> DEFINE long == len * (k + 1)
             n == u * exp2[len]
             x == BitsNow(m, d, n, "x")
  <2>1. len * k \in Nat /\ long = len * k + len /\ long \in Nat /\ len <= long
    BY <1>1
  <2>2. u \in 0..(exp2[len * k] - 1) /\ u \in Nat
    BY <1>1, <1>4, <2>1, Exp2Step
  <2>3. n \in 0..(exp2[long] - 1)
    BY <1>1, <2>1, <2>2, ShiftBelow
  <2>4. m.x.bits \in 0..(exp2[long] - 1)
    BY <1>1, <2>1, BelowLonger
  <2>5. step[1 + k][u] = n | x
    BY <2>2 DEF mul_2exp
  <2>6. T[k + 1] = 0..(exp2[long] - 1)
    OBVIOUS
  <2> HIDE DEF n, long, step, T
  <2>7. x \in 0..(exp2[long] - 1)
    BY <2>3, <2>4 DEF BitsNow
  <2> HIDE DEF x
  <2>8. n \in Nat /\ x \in Nat /\ n < exp2[long] /\ x < exp2[long]
    BY <2>1, <2>3, <2>7, Exp2Step
  <2>9. n | x \in 0..(exp2[long] - 1)
    BY <2>1, <2>8, OrBelow
  <2> QED
    BY <2>5, <2>6, <2>9
<1>5. T[times] = 0..(exp2[len * times] - 1) /\ len * times \in Nat
  BY <1>1
<1> HIDE DEF T, step, len, times
<1>6. For(step, 0, 1, times) \in T[IF times < 1 THEN 0 ELSE times - 1 + 1]
  BY <1>1, <1>3, <1>4, LoopStays
<1>7. (IF times < 1 THEN 0 ELSE times - 1 + 1) = times
  BY <1>1
<1> QED
  BY <1>2, <1>5, <1>6, <1>7, PutStores

(* The order of bytes: the vector is a whole number q of groups of 2 * b   *)
(* bits; those above it are zero.                                          *)
LEMMA SwapHalvesBelow ==
    ASSUME NEW b \in Nat \ {0}, NEW q \in Nat, NEW v \in 0..(exp2[(2 * b) * q] - 1),
           NEW groups \in Nat, groups >= q, WordBits \div (2 * b) = groups
    PROVE  swap_halves(v, b) \in 0..(exp2[(2 * b) * q] - 1)
<1> DEFINE G == 2 * b
           least(k) == IF k < q THEN k ELSE q
           T == [k \in Nat |-> 0..(exp2[G * least(k)] - 1)]
           pair(g) == (v \div exp2[G * g]) % exp2[G]
           swapped(g) == (pair(g) % exp2[b]) * exp2[b] + (pair(g) \div exp2[b])
           step == [g \in Nat |-> [u \in Nat |-> u + swapped(g) * exp2[G * g]]]
<1>1. swap_halves(v, b) = For(step, 0, 0, groups - 1)
  BY DEF swap_halves
<1>2. G \in Nat \ {0} /\ v \in Nat /\ exp2[G] \in Nat \ {0} /\ exp2[b] \in Nat \ {0} /\ G = b + b
  <2>1. G \in Nat \ {0} /\ G * q \in Nat /\ G = b + b
    OBVIOUS
  <2> QED
    BY <2>1, Exp2Step
<1>0. v \in 0..(exp2[G * q] - 1)
  OBVIOUS
<1> HIDE DEF G
<1>3. \A k \in Nat : least(k) \in Nat /\ G * least(k) \in Nat
  BY <1>2
<1>4. 0 \in T[0]
  BY <1>2, <1>3, Exp2Step
<1>5. ASSUME NEW g \in Nat PROVE pair(g) \in 0..(exp2[G] - 1) /\ (g >= q => pair(g) = 0)
  <2>1. exp2[G * g] \in Nat \ {0}
    BY <1>2, Exp2Step
  <2>2. v \div exp2[G * g] \in Nat
    BY <1>2, <2>1
  <2>3. ASSUME g >= q PROVE v \div exp2[G * g] = 0
    <3>1. G * q \in Nat /\ G * g \in Nat /\ G * q <= G * g
      <4>1. g - q \in Nat /\ g = q + (g - q)
        BY <2>3
      <4>2. G * g = G * q + G * (g - q) /\ G * (g - q) \in Nat /\ G * q \in Nat
        BY <1>2, <4>1
      <4> QED
        BY <4>2
    <3>2. exp2[G * q] <= exp2[G * g] /\ exp2[G * q] \in Nat
      BY <3>1, Exp2Monotonic, Exp2Step
    <3>3. v < exp2[G * g] /\ v = exp2[G * g] * 0 + v /\ v \in 0..(exp2[G * g] - 1)
      BY <1>0, <1>2, <2>1, <3>2
    <3> QED
      BY <1>2, <2>1, <3>3, Binary!DivisionUnique
  <2>4. 0 % exp2[G] = 0
    BY <1>2
  <2> QED
    BY <1>2, <2>2, <2>3, <2>4
<1> HIDE DEF pair
<1>6. ASSUME NEW g \in Nat PROVE swapped(g) \in 0..(exp2[G] - 1) /\ (g >= q => swapped(g) = 0)
  <2> DEFINE e == exp2[b]
             r == pair(g) % e
             h == pair(g) \div e
  <2>1. e \in Nat \ {0} /\ exp2[G] = e * e
    BY <1>2, Exp2Sum
  <2>2. pair(g) \in Nat /\ pair(g) < e * e
    BY <1>2, <1>5, <2>1
  <2> HIDE DEF e
  <2>3. r \in 0..(e - 1) /\ h \in Nat /\ h < e
    BY <2>1, <2>2, Binary!QuotientBound
  <2>4. g >= q => r = 0 /\ h = 0
    BY <1>5, <2>1
  <2> HIDE DEF r, h
  <2>5. e - 1 - r \in Nat /\ e = r + 1 + (e - 1 - r)
    BY <2>1, <2>3
  <2>6. e * e = r * e + e + (e - 1 - r) * e /\ (e - 1 - r) * e \in Nat /\ r * e \in Nat
    BY <2>1, <2>3, <2>5
  <2>7. r * e + h \in 0..(e * e - 1)
    BY <2>1, <2>3, <2>6
  <2>8. g >= q => r * e + h = 0
    BY <2>1, <2>4
  <2>9. swapped(g) = r * e + h
    BY DEF r, h, e
  <2> QED
    BY <2>1, <2>7, <2>8, <2>9
<1> HIDE DEF swapped
<1>7. ASSUME NEW k \in Nat, NEW u \in T[k] PROVE step[0 + k][u] \in T[k + 1]
  <2>0. u \in 0..(exp2[G * least(k)] - 1) /\ u \in Nat
    BY <1>3, <1>7, Exp2Step
  <2>1. step[0 + k][u] = u + swapped(k) * exp2[G * k]
    BY <2>0
  <2>2. T[k + 1] = 0..(exp2[G * least(k + 1)] - 1)
    OBVIOUS
  <2> HIDE DEF step, T
  <2>3. CASE k < q
    <3>1. least(k) = k /\ least(k + 1) = k + 1
      <4>1. k + 1 < q \/ k + 1 = q
        BY <2>3
      <4> QED
        BY <2>3, <4>1
    <3> DEFINE p == exp2[G * k]
               w == exp2[G]
               t == swapped(k)
    <3>2. G * k \in Nat /\ G * (k + 1) = G * k + G
      BY <1>2
    <3>3. p \in Nat \ {0} /\ w \in Nat \ {0} /\ exp2[G * (k + 1)] = p * w
      <4>1. exp2[G * k + G] = exp2[G * k] * exp2[G]
        BY <1>2, <3>2, Exp2Sum
      <4>2. exp2[G * k] \in Nat \ {0}
        BY <3>2, Exp2Step
      <4> QED
        BY <1>2, <3>2, <4>1, <4>2
    <3>4. u \in 0..(p - 1) /\ t \in 0..(w - 1)
      BY <1>6, <2>0, <3>1
    <3> HIDE DEF p, w, t
    <3>5. w - 1 - t \in Nat /\ w = t + 1 + (w - 1 - t)
      BY <3>3, <3>4
    <3>6. p * w = t * p + p + (w - 1 - t) * p /\ (w - 1 - t) * p \in Nat /\ t * p \in Nat
      BY <3>3, <3>4, <3>5
    <3>7. u + t * p \in 0..(p * w - 1)
      BY <3>3, <3>4, <3>6
    <3> QED
      BY <2>1, <2>2, <3>1, <3>3, <3>7 DEF p, w, t
  <2>4. CASE k >= q
    <3>1. least(k) = q /\ least(k + 1) = q
      BY <2>4
    <3>0. G * k \in Nat
      BY <1>2
    <3>2. swapped(k) = 0 /\ exp2[G * k] \in Nat
      BY <1>6, <2>4, <3>0, Exp2Step
    <3>3. u + swapped(k) * exp2[G * k] = u
      BY <2>0, <3>2
    <3> QED
      BY <2>0, <2>1, <2>2, <3>1, <3>3
  <2> QED
    BY <2>3, <2>4
<1> DEFINE last == groups - 1
<1>8. \A k \in Nat : k <= last - 0 => \A u \in T[k] : step[0 + k][u] \in T[k + 1]
  BY <1>7
<1>9. last \in Int /\ 0 \in Int /\ (IF last < 0 THEN 0 ELSE last - 0 + 1) = groups
  OBVIOUS
<1>10. T[groups] = 0..(exp2[G * q] - 1)
  OBVIOUS
<1> HIDE DEF T, step, last
<1>11. For(step, 0, 0, last) \in T[IF last < 0 THEN 0 ELSE last - 0 + 1]
  BY <1>4, <1>8, <1>9, LoopStays
<1> QED
  BY <1>1, <1>9, <1>10, <1>11 DEF G, last

(* reverse_endianness: by halves for the lengths of a machine integer, byte *)
(* after byte for the others.                                              *)
LEMMA ReverseStores ==
    ASSUME NEW m, NormalMem(m), NEW d, "x" \in DOMAIN m, m.x.len % ByteBits = 0
    PROVE  Stores(m, d, reverse_endianness(m, d))
<1> DEFINE B == ByteBits
           len == m.x.len
           x == ui(m.x.bits)
           R == 0..(exp2[len] - 1)
           byte(u, i) == tdiv_q_2exp(BitsNow(m, d, u, "x"), i * B) % exp2[B]
           step == [i \in Nat |-> [u \in Nat |-> mul_2exp(u, B) | byte(u, i)]]
           r == CASE len = 8 * B -> swap_halves(swap_halves(swap_halves(x, 4 * B), 2 * B), B)
                  [] len = 4 * B -> swap_halves(swap_halves(x, 2 * B), B)
                  [] len = 2 * B -> swap_halves(x, B)
                  [] len = B     -> m.x.bits
                  [] OTHER -> For(step, 0, 0, (len + B - 1) \div B - 1)
<1>1. reverse_endianness(m, d) = Put(m, d, len, r)
  BY DEF reverse_endianness
<1>2. len \in Nat /\ m.x.bits \in R /\ m.x.bits \in Nat /\ len % B = 0 /\ exp2[len] \in Nat
  BY SlotsAre
<1>0. r \in R => Stores(m, d, reverse_endianness(m, d))
  BY <1>1, <1>2, PutStores
<1>3. B \in Nat \ {0} /\ WordBits = 8 * B
  BY WordType
<1>4. x \in R
  <2>1. x \in 0..m.x.bits
    BY <1>2, UiBelow
  <2> QED
    BY <1>2, <2>1
<1>5. ASSUME NEW q \in Nat, NEW g \in Nat, NEW b \in Nat \ {0}, NEW v \in R,
             len = (2 * b) * q, g >= q, WordBits = (2 * b) * g
      PROVE  swap_halves(v, b) \in R
  <2>1. WordBits \div (2 * b) = g
    <3>1. 2 * b \in Nat \ {0} /\ WordBits \in Nat /\ WordBits = (2 * b) * g + 0 /\ 0 \in 0..((2 * b) - 1)
      BY <1>3, <1>5
    <3> QED
      BY <3>1, Binary!DivisionUnique
  <2> QED
    BY <1>5, <2>1, SwapHalvesBelow
<1> HIDE DEF B, len, x, step
<1>6. \A q, g \in {1, 2, 4}, b \in {B, 2 * B, 4 * B}, v \in R :
         len = (2 * b) * q /\ g >= q /\ WordBits = (2 * b) * g => swap_halves(v, b) \in R
  <2> TAKE q, g \in {1, 2, 4}, b \in {B, 2 * B, 4 * B}, v \in R
  <2>1. q \in Nat /\ g \in Nat /\ b \in Nat \ {0}
    BY <1>3
  <2> QED
    BY <1>5, <2>1
<1> HIDE DEF R
<1>7. CASE len = 8 * B
  <2>1. len = (2 * (4 * B)) * 1 /\ len = (2 * (2 * B)) * 2 /\ len = (2 * B) * 4 /\ WordBits = len
    BY <1>3, <1>7
  <2>2. swap_halves(x, 4 * B) \in R
    BY <1>4, <1>6, <2>1
  <2>3. swap_halves(swap_halves(x, 4 * B), 2 * B) \in R
    BY <1>6, <2>1, <2>2
  <2>4. swap_halves(swap_halves(swap_halves(x, 4 * B), 2 * B), B) \in R
    BY <1>6, <2>1, <2>3
  <2>5. len # 4 * B /\ len # 2 * B /\ len # B
    BY <1>3, <1>7
  <2>6. r = swap_halves(swap_halves(swap_halves(x, 4 * B), 2 * B), B)
    BY <1>7, <2>5, Zenon
  <2> QED
    BY <1>0, <2>4, <2>6
<1>8. CASE len = 4 * B
  <2>1. /\ WordBits = (2 * (2 * B)) * 2 /\ len = (2 * (2 * B)) * 1
        /\ WordBits = (2 * B) * 4 /\ len = (2 * B) * 2 /\ len # 8 * B /\ len # 2 * B /\ len # B
    BY <1>3, <1>8
  <2>2. swap_halves(x, 2 * B) \in R
    BY <1>4, <1>6, <2>1
  <2>3. swap_halves(swap_halves(x, 2 * B), B) \in R
    BY <1>6, <2>1, <2>2
  <2>4. r = swap_halves(swap_halves(x, 2 * B), B)
    BY <1>8, <2>1, Zenon
  <2> QED
    BY <1>0, <2>3, <2>4
<1>9. CASE len = 2 * B
  <2>1. WordBits = (2 * B) * 4 /\ len = (2 * B) * 1 /\ len # 8 * B /\ len # 4 * B /\ len # B
    BY <1>3, <1>9
  <2>2. swap_halves(x, B) \in R
    BY <1>4, <1>6, <2>1
  <2>3. r = swap_halves(x, B)
    BY <1>9, <2>1, Zenon
  <2> QED
    BY <1>0, <2>2, <2>3
<1>10. CASE len = B
  <2>1. len # 8 * B /\ len # 4 * B /\ len # 2 * B
    BY <1>3, <1>10
  <2> QED
    BY <1>0, <1>2, <1>10, <2>1
<1>11. CASE len \notin {8 * B, 4 * B, 2 * B, B}
  <2> DEFINE q == len \div B
             T == [k \in Nat |-> 0..(exp2[B * k] - 1)]
             last == q - 1
  <2>1. q \in Nat /\ len = B * q
    BY <1>2, <1>3
  <2>2. (len + B - 1) \div B = q
    <3> DEFINE w == B * q
    <3>0. w \in Nat /\ len = w
      BY <1>3, <2>1
    <3> HIDE DEF w
    <3>1. len + B - 1 \in Nat /\ len + B - 1 = w + (B - 1) /\ B - 1 \in 0..(B - 1)
      BY <1>2, <1>3, <3>0
    <3> QED
      BY <1>3, <2>1, <3>1, Binary!DivisionUnique DEF w
  <2>3. r = For(step, 0, 0, last)
    BY <1>11, <2>2
  <2> HIDE DEF q, r
  <2>4. ASSUME NEW k \in Nat, NEW u \in T[k] PROVE step[0 + k][u] \in T[k + 1]
    <3> DEFINE long == B * (k + 1)
               n == u * exp2[B]
               c == byte(u, k)
    <3>1. B * k \in Nat /\ long = B * k + B /\ long \in Nat /\ B <= long
      BY <1>3
    <3>2. u \in 0..(exp2[B * k] - 1) /\ u \in Nat
      BY <2>4, <3>1, Exp2Step
    <3>3. n \in 0..(exp2[long] - 1)
      BY <1>3, <3>1, <3>2, ShiftBelow
    <3>4. c \in 0..(exp2[B] - 1)
      <4>1. BitsNow(m, d, u, "x") \in Nat /\ k * B \in Nat
        BY <1>3, <3>2, BitsNowType
      <4>2. tdiv_q_2exp(BitsNow(m, d, u, "x"), k * B) \in Nat
        BY <4>1, TruncatedQuotient
      <4>3. exp2[B] \in Nat \ {0}
        BY <1>3, Exp2Step
      <4> QED
        BY <4>2, <4>3
    <3>5. step[0 + k][u] = n | c
      BY <3>2 DEF mul_2exp, step
    <3>6. T[k + 1] = 0..(exp2[long] - 1)
      OBVIOUS
    <3> HIDE DEF n, long, c, T
    <3>7. c \in 0..(exp2[long] - 1)
      BY <1>3, <3>1, <3>4, BelowLonger
    <3>8. n \in Nat /\ c \in Nat /\ n < exp2[long] /\ c < exp2[long]
      BY <3>1, <3>3, <3>7, Exp2Step
    <3>9. n | c \in 0..(exp2[long] - 1)
      BY <3>1, <3>8, OrBelow
    <3> QED
      BY <3>5, <3>6, <3>9
  <2>5. \A k \in Nat : k <= last - 0 => \A u \in T[k] : step[0 + k][u] \in T[k + 1]
    BY <2>4
  <2>6. last \in Int /\ 0 \in Int /\ (IF last < 0 THEN 0 ELSE last - 0 + 1) = q
    BY <2>1
  <2>7. 0 \in T[0]
    BY <1>3, Exp2Step
  <2>8. T[q] = R
    BY <2>1 DEF R
  <2> HIDE DEF T, last
  <2>9. For(step, 0, 0, last) \in T[IF last < 0 THEN 0 ELSE last - 0 + 1]
    BY <2>5, <2>6, <2>7, LoopStays
  <2> QED
    BY <1>0, <2>3, <2>6, <2>8, <2>9
<1> QED
  BY <1>7, <1>8, <1>10, <1>11, <1>9

(* Functions that return a bitvector by value. *)
LEMMA JoinedIsNormal ==
    ASSUME NEW op1, IsNormal(op1), NEW op2, IsNormal(op2)
    PROVE  IsNormal([len |-> op1.len + op2.len, bits |-> lsl(op1.bits, op2.len) | op2.bits])
<1> DEFINE a == op1.len
           b == op2.len
           high == lsl(op1.bits, b)
           low == op2.bits
<1>1. /\ a \in Nat /\ op1.bits \in 0..(exp2[a] - 1) /\ b \in Nat /\ low \in 0..(exp2[b] - 1)
      /\ a + b \in Nat /\ b <= a + b
  BY Exp2Step DEF IsNormal
<1>2. high \in 0..(exp2[a + b] - 1) /\ low \in 0..(exp2[a + b] - 1)
  BY <1>1, LslBelow, BelowLonger
<1> HIDE DEF a, b, high, low
<1>3. high \in Nat /\ low \in Nat /\ high < exp2[a + b] /\ low < exp2[a + b]
  BY <1>1, <1>2, Exp2Step
<1>4. high | low \in 0..(exp2[a + b] - 1)
  BY <1>1, <1>3, OrBelow
<1>5. IsNormal([len |-> a + b, bits |-> high | low])
  BY <1>1, <1>4, Exp2Step DEF IsNormal
<1> QED
  BY <1>5 DEF a, b, high, low

(* fast_replicate_bits shifts by the length in each iteration. *)
LEMMA ReplicatedIsNormal ==
    ASSUME NEW op, IsNormal(op), NEW n \in Nat \ {0}
    PROVE  IsNormal([len |-> op.len * n, bits |-> fast_replicate_bits(op.len, op.bits, n)])
<1> DEFINE len == op.len
           T == [k \in Nat |-> 0..(exp2[len * (k + 1)] - 1)]
           step == [i \in Nat |-> [u \in Nat |-> u | lsl(u, len)]]
           last == n - 1
<1>1. len \in Nat /\ op.bits \in 0..(exp2[len] - 1)
  BY Exp2Step DEF IsNormal
<1>2. fast_replicate_bits(op.len, op.bits, n) = For(step, op.bits, 1, last)
  BY DEF fast_replicate_bits
<1> HIDE DEF len
<1>3. op.bits \in T[0]
  <2>1. len * (0 + 1) = len
    BY <1>1
  <2> QED
    BY <1>1, <2>1
<1>4. ASSUME NEW k \in Nat, NEW u \in T[k] PROVE step[1 + k][u] \in T[k + 1]
  <2> DEFINE short == len * (k + 1)
             long == len * ((k + 1) + 1)
             s == lsl(u, len)
  <2>1. short \in Nat /\ long = short + len /\ long \in Nat /\ short <= long
    BY <1>1
  <2>2. u \in 0..(exp2[short] - 1) /\ u \in Nat
    BY <1>4, <2>1, Exp2Step
  <2>3. step[1 + k][u] = u | s
    BY <2>2
  <2>4. T[k + 1] = 0..(exp2[long] - 1)
    OBVIOUS
  <2> HIDE DEF T, step, short, long
  <2>5. s \in 0..(exp2[long] - 1)
    BY <1>1, <2>1, <2>2, LslBelow
  <2>6. u \in 0..(exp2[long] - 1)
    BY <2>1, <2>2, BelowLonger
  <2> HIDE DEF s
  <2>7. u \in Nat /\ s \in Nat /\ u < exp2[long] /\ s < exp2[long]
    BY <2>1, <2>5, <2>6, Exp2Step
  <2>8. u | s \in 0..(exp2[long] - 1)
    BY <2>1, <2>7, OrBelow
  <2> QED
    BY <2>3, <2>4, <2>8
<1>5. last \in Int /\ 1 \in Int /\ (IF last < 1 THEN 0 ELSE last - 1 + 1) = n - 1
  OBVIOUS
<1>6. T[n - 1] = 0..(exp2[len * n] - 1) /\ len * n \in Nat
  <2>1. n - 1 \in Nat /\ (n - 1) + 1 = n
    OBVIOUS
  <2> QED
    BY <1>1, <2>1
<1>7. \A k \in Nat : k <= last - 1 => \A u \in T[k] : step[1 + k][u] \in T[k + 1]
  BY <1>4
<1> HIDE DEF T, step, last
<1>8. For(step, op.bits, 1, last) \in T[IF last < 1 THEN 0 ELSE last - 1 + 1]
  BY <1>3, <1>5, <1>7, LoopStays
<1>9. ASSUME NEW l \in Nat, NEW b \in 0..(exp2[l] - 1) PROVE IsNormal([len |-> l, bits |-> b])
  BY Exp2Step DEF IsNormal
<1>10. For(step, op.bits, 1, last) \in 0..(exp2[len * n] - 1)
  BY <1>5, <1>6, <1>8
<1>11. IsNormal([len |-> len * n, bits |-> For(step, op.bits, 1, last)])
  BY <1>6, <1>9, <1>10
<1> QED
  BY <1>2, <1>11 DEF len

(* A slice is masked with its length. *)
LEMMA MaskedIsNormal ==
    ASSUME NEW op, IsNormal(op), NEW start \in Int, NEW len \in Nat
    PROVE  /\ IsNormal([len |-> len, bits |-> lsr(op.bits, start) & mask(len)])
           /\ IsNormal([len |-> len, bits |-> mask(len) & lsr(op.bits, start)])
<1> DEFINE a == lsr(op.bits, start)
           b == mask(len)
<1>1. op.bits \in Nat
  BY DEF IsNormal
<1>2. a \in Nat
  BY <1>1, LsrBelow
<1>3. b \in Nat /\ b < exp2[len]
  BY MaskBelow, Exp2Step
<1> HIDE DEF a, b
<1>4. a & b \in 0..(exp2[len] - 1) /\ b & a \in 0..(exp2[len] - 1)
  BY <1>2, <1>3, AndBelow
<1>5. IsNormal([len |-> len, bits |-> a & b]) /\ IsNormal([len |-> len, bits |-> b & a])
  BY <1>4, Exp2Step DEF IsNormal
<1> QED
  BY <1>5 DEF a, b

(* Two words bit by bit. *)
LEMMA BitwiseIsNormal ==
    ASSUME NEW op1, IsNormal(op1), NEW op2, IsNormal(op2)
    PROVE  /\ IsNormal([op1 EXCEPT !.bits = @ & op2.bits])
           /\ op1.len = op2.len => IsNormal([op1 EXCEPT !.bits = @ | op2.bits])
           /\ op1.len = op2.len => IsNormal([len |-> op1.len, bits |-> op1.bits ^^ op2.bits])
<1> DEFINE len == op1.len
           a == op1.bits
           b == op2.bits
<1>1. len \in Nat /\ a \in Nat /\ b \in Nat /\ a < exp2[len] /\ (len = op2.len => b < exp2[len])
  BY DEF IsNormal
<1>2. ASSUME NEW n PROVE [op1 EXCEPT !.bits = n] = [len |-> len, bits |-> n]
  BY DEF IsNormal
<1>3. [op1 EXCEPT !.bits = @ & op2.bits] = [len |-> len, bits |-> a & b]
  BY <1>2
<1>4. [op1 EXCEPT !.bits = @ | op2.bits] = [len |-> len, bits |-> a | b]
  BY <1>2
<1>0. b < exp2[len] <=> op2.bits < exp2[op1.len]
  OBVIOUS
<1> HIDE DEF len, a, b
<1>5. a & b \in 0..(exp2[len] - 1)
  BY <1>1, AndBelow
<1>6. b < exp2[len] => a | b \in 0..(exp2[len] - 1) /\ a ^^ b \in 0..(exp2[len] - 1)
  BY <1>1, OrBelow, XorBelow
<1>7. ASSUME NEW n \in 0..(exp2[len] - 1) PROVE IsNormal([len |-> len, bits |-> n])
  BY <1>1, Exp2Step DEF IsNormal
<1>8. op1.len = op2.len => a | b \in 0..(exp2[len] - 1) /\ a ^^ b \in 0..(exp2[len] - 1)
  BY <1>1, <1>6 DEF len
<1>9. op1.len = op2.len => IsNormal([len |-> len, bits |-> a | b]) /\ IsNormal([len |-> len, bits |-> a ^^ b])
  BY <1>7, <1>8
<1>10. IsNormal([len |-> len, bits |-> a & b])
  BY <1>5, <1>7
<1> QED
  BY <1>3, <1>4, <1>9, <1>10 DEF len, a, b

(* The complement of a word, masked with the length. *)
LEMMA ComplementIsNormal ==
    ASSUME NEW op, IsNormal(op), op.len <= WordBits
    PROVE  IsNormal(inline_not_bits(op))
<1> DEFINE a == Word - 1 - op.bits
           b == exp2[op.len] - 1
<1>1. op.len \in Nat /\ op.bits \in Nat /\ op.bits < exp2[op.len] /\ exp2[op.len] \in Nat
  BY Exp2Step DEF IsNormal
<1>2. exp2[op.len] <= Word
  BY <1>1, WordType, Exp2Monotonic
<1>3. a \in Nat /\ b \in Nat /\ b < exp2[op.len]
  BY <1>1, <1>2, WordType
<1> HIDE DEF a, b
<1>4. a & b \in 0..(exp2[op.len] - 1)
  BY <1>1, <1>3, AndBelow
<1>5. IsNormal([len |-> op.len, bits |-> a & b])
  BY <1>1, <1>4 DEF IsNormal
<1> QED
  BY <1>5 DEF inline_not_bits, a, b

(* Every function that returns a bitvector, and every expression in its    *)
(* place.                                                                  *)
LEMMA ValuesAreNormal ==
    ASSUME NEW m, NormalMem(m), NEW f \in BitValues, Reads(f) \subseteq DOMAIN m, Typed(f, m)
    PROVE  IsNormal(Value(f, m))
<1>1. "x" \in DOMAIN m /\ IsNormal(m.x)
  <2>1. "x" \in DOMAIN m
    BY DEF BitValues, Reads
  <2> QED
    BY <2>1 DEF NormalMem, BitSlots
<1>2. CASE f \in {"append_sf", "append_fs", "append_ss", "inline_append", "xor_sbits", "inline_and",
                  "inline_or"}
  <2>1. "y" \in DOMAIN m
    BY <1>2 DEF Reads
  <2>2. IsNormal(m.y)
    BY <2>1 DEF NormalMem, BitSlots
  <2>3. CASE f \in {"append_sf", "append_fs", "append_ss", "inline_append"}
    <3>1. IsNormal([len |-> m.x.len + m.y.len, bits |-> lsl(m.x.bits, m.y.len) | m.y.bits])
      BY <1>1, <2>2, JoinedIsNormal
    <3> QED
      BY <2>2, <2>3, <3>1 DEF Value, append_sf, append_fs, append_ss, inline_append
  <2>4. CASE f = "inline_and"
    BY <1>1, <2>2, <2>4, BitwiseIsNormal DEF Value
  <2>5. CASE f = "inline_or"
    <3>1. m.x.len = m.y.len
      BY <2>5 DEF Typed
    <3> QED
      BY <1>1, <2>2, <2>5, <3>1, BitwiseIsNormal DEF Value
  <2>6. CASE f = "xor_sbits"
    <3>1. m.x.len = m.y.len
      BY <2>6 DEF Typed
    <3> QED
      BY <1>1, <2>2, <2>6, <3>1, BitwiseIsNormal DEF Value, xor_sbits
  <2> QED
    BY <1>2, <2>3, <2>4, <2>5, <2>6
<1>3. CASE f = "fast_replicate_bits"
  <2>1. "n" \in DOMAIN m
    BY <1>3 DEF Reads
  <2>2. m.n \in Nat \ {0}
    BY <1>3, <2>1, SlotsAre DEF Typed
  <2>3. IsNormal([len |-> m.x.len * m.n, bits |-> fast_replicate_bits(m.x.len, m.x.bits, m.n)])
    BY <1>1, <2>2, ReplicatedIsNormal
  <2> QED
    BY <1>3, <2>3 DEF Value
<1>4. CASE f \in {"sslice", "inline_slice", "inline_vector_subrange"}
  <2>1. "n" \in DOMAIN m /\ "k" \in DOMAIN m
    BY <1>4 DEF Reads
  <2>2. m.n \in Int /\ m.k \in Int
    BY <2>1, SlotsAre
  <2>3. CASE f \in {"sslice", "inline_slice"}
    <3>1. m.k \in Nat
      BY <2>3 DEF Typed
    <3> QED
      BY <1>1, <2>2, <2>3, <3>1, MaskedIsNormal DEF Value, sslice, inline_slice
  <2>4. CASE f = "inline_vector_subrange"
    <3>1. m.k <= m.n + 1
      BY <2>4 DEF Typed
    <3>2. m.n - (m.k - 1) \in Nat
      BY <2>2, <3>1
    <3>3. IsNormal([len |-> m.n - (m.k - 1), bits |-> mask(m.n - (m.k - 1)) & lsr(m.x.bits, m.k)])
      BY <1>1, <2>2, <3>2, MaskedIsNormal
    <3> QED
      BY <2>4, <3>3 DEF Value, inline_vector_subrange
  <2> QED
    BY <1>4, <2>3, <2>4
<1>5. CASE f = "inline_not_bits"
  <2>1. m.x.len <= WordBits
    BY <1>5 DEF Typed
  <2> QED
    BY <1>1, <1>5, <2>1, ComplementIsNormal DEF Value
<1> QED
  BY <1>2, <1>3, <1>4, <1>5 DEF BitValues

(* Every function that writes a bitvector through its pointer. *)
LEMMA FunctionsStore ==
    ASSUME NEW m, NormalMem(m), NEW d \in DOMAIN m, NEW f \in MemFunctions,
           Reads(f) \subseteq DOMAIN m, Typed(f, m), f = "append_64" => d = "x"
    PROVE  Stores(m, d, Written(f, m, d))
<1>1. CASE f \in {"CREATE_lbits", "RECREATE_lbits", "COPY_lbits", "CREATE_OF_lbits_fbits",
                  "CREATE_OF_sbits_lbits", "CREATE_OF_lbits_sbits", "RECREATE_OF_lbits_fbits",
                  "CONVERT_OF_fbits_lbits", "CONVERT_OF_lbits_fbits", "CONVERT_OF_lbits_sbits",
                  "CONVERT_OF_sbits_lbits"}
  BY <1>1, ConversionFunctions
<1>2. CASE f = "append_64"
  <2>1. "x" \in DOMAIN m /\ "n" \in DOMAIN m
    BY <1>2 DEF Reads
  <2>2. m.n \in 0..(Word - 1)
    BY <1>2 DEF Typed
  <2> QED
    BY <1>2, <2>1, <2>2, Append64Stores DEF Written
<1>3. CASE f \in {"add_bits", "sub_bits", "add_bits_int", "sub_bits_int", "mult_vec", "mults_vec",
                  "vector_subrange_lbits", "sail_truncate", "sail_truncateLSB",
                  "shift_bits_left", "shiftl"}
  BY <1>3, NormalizedFunctions
<1>4. CASE f \in {"and_bits", "or_bits", "xor_bits", "shift_bits_right"}
  BY <1>4, BitwiseFunctions
<1>5. CASE f \in {"zeros", "zero_extend", "shiftr"}
  BY <1>5, LengthFunctions
<1>6. CASE f = "not_bits"
  <2>1. "x" \in DOMAIN m
    BY <1>6 DEF Reads
  <2> QED
    BY <1>6, <2>1, NotBitsStores DEF Written
<1>7. CASE f = "sign_extend"
  <2>1. {"x", "n"} \subseteq DOMAIN m /\ m.x.len <= ui(m.n)
    BY <1>7 DEF Reads, Typed
  <2> QED
    BY <1>7, <2>1, SignExtendStores DEF Written
<1>8. CASE f = "append"
  <2>1. {"x", "y"} \subseteq DOMAIN m
    BY <1>8 DEF Reads
  <2> QED
    BY <1>8, <2>1, AppendStores DEF Written
<1>9. CASE f = "replicate_bits"
  <2>1. {"x", "n"} \subseteq DOMAIN m
    BY <1>9 DEF Reads
  <2> QED
    BY <1>9, <2>1, ReplicateStores DEF Written
<1>10. CASE f = "get_slice_int"
  <2>1. {"n", "k", "j"} \subseteq DOMAIN m
    BY <1>10 DEF Reads
  <2> QED
    BY <1>10, <2>1, GetSliceIntStores DEF Written
<1>11. CASE f = "slice"
  <2>1. {"x", "n", "k"} \subseteq DOMAIN m
    BY <1>11 DEF Reads
  <2> QED
    BY <1>11, <2>1, SliceStores DEF Written
<1>12. CASE f = "vector_update_subrange_lbits"
  <2>1. {"x", "n", "k"} \subseteq DOMAIN m /\ ui(m.n) < m.x.len
    BY <1>12 DEF Reads, Typed
  <2>2. m.x.len \in Nat /\ ui(m.n) \in Nat /\ ui(m.k) \in Nat
    BY <2>1, SlotsAre
  <2>3. ui(m.n) - (ui(m.k) - 1) \in Int /\ ui(m.k) + (ui(m.n) - (ui(m.k) - 1)) <= m.x.len
    BY <2>1, <2>2
  <2>4. Stores(m, d, write_slice(m, d, ui(m.k), ui(m.n) - (ui(m.k) - 1)))
    BY <2>1, <2>2, <2>3, WriteSliceStores
  <2> QED
    BY <1>12, <2>4 DEF Written, vector_update_subrange_lbits
<1>13. CASE f = "set_slice"
  <2>1. {"x", "y", "n"} \subseteq DOMAIN m /\ ui(m.n) + m.y.len <= m.x.len
    BY <1>13 DEF Reads, Typed
  <2>2. m.y.len \in Nat /\ ui(m.n) \in Nat
    BY <2>1, SlotsAre
  <2>3. Stores(m, d, write_slice(m, d, ui(m.n), m.y.len))
    BY <2>1, <2>2, WriteSliceStores
  <2> QED
    BY <1>13, <2>3 DEF Written, set_slice
<1>14. CASE f = "shift_bits_right_arith"
  <2>1. {"x", "y"} \subseteq DOMAIN m /\ ui(m.y.bits) <= m.x.len
    BY <1>14 DEF Reads, Typed
  <2> QED
    BY <1>14, <2>1, ShiftArithStores DEF Written
<1>15. CASE f = "reverse_endianness"
  <2>1. "x" \in DOMAIN m /\ m.x.len % ByteBits = 0
    BY <1>15 DEF Reads, Typed
  <2> QED
    BY <1>15, <2>1, ReverseStores DEF Written
<1> QED
  BY <1>1, <1>2, <1>3, <1>4, <1>5, <1>6, <1>7, <1>8, <1>9, <1>10, <1>11, <1>12, <1>13, <1>14,
     <1>15 DEF MemFunctions

-----------------------------------------------------------------------------
(* The functions whose loop is modelled step by step. *)
Loops == {"real_power", "sqrt_real"}

(* A call in progress: the operands are still those of the call, but for   *)
(* the result of a loop that goes to one of them.                          *)
CallInv ==
    call # NoCall =>
        /\ call.f \in DOMAIN Operands /\ call.args \in Operands[call.f]
        /\ DOMAIN mem = DOMAIN call.args \cup {call.d}
        /\ call.d \in BitSlots <=> call.f \in MemFunctions \cup BitValues
        /\ call.f = "append_64" => call.d = "x"
        /\ \A v \in DOMAIN call.args : (call.f \in Loops /\ v = call.d) \/ mem[v] = call.args[v]

IInv == CallInv /\ NormalForm

(* What the types say of the operands, they say of the memory that holds   *)
(* the operands.                                                           *)
LEMMA TypedNow ==
    ASSUME NEW f \in MemFunctions \cup BitValues, NEW a, NEW m, Typed(f, a), NormalMem(m),
           DOMAIN a \subseteq DOMAIN m, \A v \in DOMAIN a : m[v] = a[v]
    PROVE  Reads(f) \subseteq DOMAIN m /\ Typed(f, m)
<1>1. Reads(f) \subseteq DOMAIN a
  BY DEF Typed
<1>2. /\ "x" \in Reads(f) => m.x = a.x
      /\ "y" \in Reads(f) => m.y = a.y
      /\ "n" \in Reads(f) => m.n = a.n
      /\ "k" \in Reads(f) => m.k = a.k
  BY <1>1
<1>3. f # "real_power"
  BY DEF MemFunctions, BitValues
<1>4. f \in {"sub_bits", "and_bits", "or_bits", "xor_bits", "xor_sbits", "inline_or"} =>
          m.x.len = m.y.len
  <2> HAVE f \in {"sub_bits", "and_bits", "or_bits", "xor_bits", "xor_sbits", "inline_or"}
  <2>1. "x" \in Reads(f) /\ "y" \in Reads(f)
    BY DEF Reads
  <2> QED
    BY <1>2, <2>1 DEF Typed
<1>5. f \in {"zero_extend", "sign_extend"} => m.x.len <= ui(m.n)
  <2> HAVE f \in {"zero_extend", "sign_extend"}
  <2>1. "x" \in Reads(f) /\ "n" \in Reads(f)
    BY DEF Reads
  <2> QED
    BY <1>2, <2>1 DEF Typed
<1>6. /\ f = "append_64" => m.n \in 0..(Word - 1)
      /\ f \in {"sail_truncate", "sail_truncateLSB"} => ui(m.n) <= m.x.len
      /\ f = "fast_replicate_bits" => m.n >= 1
  <2>1. f \in {"append_64", "sail_truncate", "sail_truncateLSB", "fast_replicate_bits"} =>
            "x" \in Reads(f) /\ "n" \in Reads(f)
    BY DEF Reads
  <2> QED
    BY <1>2, <2>1 DEF Typed
<1>7. /\ f \in {"vector_subrange_lbits", "vector_update_subrange_lbits"} => ui(m.k) <= ui(m.n) + 1
      /\ f = "slice" => ui(m.n) + ui(m.k) <= m.x.len
      /\ f = "inline_vector_subrange" => m.k <= m.n + 1
      /\ f \in {"sslice", "inline_slice"} => m.k \in Nat
      /\ f = "vector_update_subrange_lbits" => ui(m.n) < m.x.len
  <2>1. f \in {"vector_subrange_lbits", "inline_vector_subrange", "slice", "sslice", "inline_slice",
              "vector_update_subrange_lbits"} =>
            "x" \in Reads(f) /\ "n" \in Reads(f) /\ "k" \in Reads(f)
    BY DEF Reads
  <2> QED
    BY <1>2, <2>1 DEF Typed
<1>8. /\ f = "inline_not_bits" => m.x.len <= WordBits
      /\ f = "reverse_endianness" => m.x.len % ByteBits = 0
  <2>1. f \in {"inline_not_bits", "reverse_endianness"} => "x" \in Reads(f)
    BY DEF Reads
  <2> QED
    BY <1>2, <2>1 DEF Typed
<1>9. f = "set_slice" => ui(m.n) + m.y.len <= m.x.len
  <2> HAVE f = "set_slice"
  <2>1. "x" \in Reads(f) /\ "y" \in Reads(f) /\ "n" \in Reads(f)
    BY DEF Reads
  <2> QED
    BY <1>2, <2>1 DEF Typed
<1>10. f = "shift_bits_right_arith" => ui(m.y.bits) <= m.x.len
  <2> HAVE f = "shift_bits_right_arith"
  <2>1. "x" \in Reads(f) /\ "y" \in Reads(f)
    BY DEF Reads
  <2> QED
    BY <1>2, <2>1 DEF Typed
<1>11. Reads(f) \subseteq DOMAIN m
  BY <1>1
<1> HIDE DEF Reads
<1> QED
  BY <1>3, <1>4, <1>5, <1>6, <1>7, <1>8, <1>9, <1>10, <1>11 DEF Typed, NormalMem

(* At the moment of the call the variables are as the types say. *)
LEMMA CallIsTyped ==
    ASSUME IInv, call # NoCall, call.f \in MemFunctions \cup BitValues
    PROVE  /\ NormalMem(mem) /\ call.d \in DOMAIN mem /\ call.d \in BitSlots
           /\ Reads(call.f) \subseteq DOMAIN mem /\ Typed(call.f, mem)
           /\ call.f = "append_64" => call.d = "x"
<1>1. /\ call.f \in DOMAIN Operands /\ call.args \in Operands[call.f]
      /\ DOMAIN mem = DOMAIN call.args \cup {call.d} /\ call.d \in BitSlots
      /\ call.f = "append_64" => call.d = "x"
  BY DEF IInv, CallInv
<1>2. \A v \in DOMAIN call.args : mem[v] = call.args[v]
  <2>1. call.f \notin Loops
    BY DEF Loops, MemFunctions, BitValues
  <2> QED
    BY <2>1 DEF IInv, CallInv
<1>3. Typed(call.f, call.args)
  BY <1>1, OperandAssumption
<1>4. NormalMem(mem)
  <2>1. \A v \in DOMAIN mem \cap Integers : v \in DOMAIN call.args
    BY <1>1 DEF BitSlots, Integers
  <2>2. \A v \in DOMAIN mem \cap Integers : mem[v] \in Int
    BY <1>2, <1>3, <2>1 DEF Typed
  <2> QED
    BY <2>2 DEF NormalMem, IInv, NormalForm
<1>5. DOMAIN call.args \subseteq DOMAIN mem
  BY <1>1
<1>6. Reads(call.f) \subseteq DOMAIN mem /\ Typed(call.f, mem)
  BY <1>2, <1>3, <1>4, <1>5, TypedNow
<1> QED
  BY <1>1, <1>4, <1>6

(* The invariant holds when a call begins, and every step keeps it. *)
LEMMA InvInit == Init => IInv
<1> SUFFICES ASSUME Init PROVE IInv
  OBVIOUS
<1> DEFINE Elsewhere(f, args) ==
               \E v \in LeftOver(Dest(f)) :
                  /\ f # "append_64"
                  /\ mem = [s \in DOMAIN args \cup {Dest(f)} |-> IF s \in DOMAIN args THEN args[s] ELSE v]
                  /\ call = [f |-> f, d |-> Dest(f), args |-> args]
           Here(f, args) ==
               \E d \in DOMAIN args :
                  /\ <<f, d>> \in InPlace
                  /\ mem = args
                  /\ call = [f |-> f, d |-> d, args |-> args]
<1>0. PICK f \in DOMAIN Operands : \E args \in Operands[f] : Elsewhere(f, args) \/ Here(f, args)
  BY DEF Init
<1>1. PICK args \in Operands[f] : Elsewhere(f, args) \/ Here(f, args)
  BY <1>0
<1>2. Typed(f, args)
  BY OperandAssumption
<1>3. \A v \in DOMAIN args \cap BitSlots : IsNormal(args[v])
  BY <1>2 DEF Typed
<1>4. ASSUME NEW v \in LeftOver(Dest(f)), f # "append_64",
             mem = [s \in DOMAIN args \cup {Dest(f)} |-> IF s \in DOMAIN args THEN args[s] ELSE v],
             call = [f |-> f, d |-> Dest(f), args |-> args]
      PROVE  IInv
  <2>1. Dest(f) \in BitSlots <=> f \in MemFunctions \cup BitValues
    BY OperandAssumption
  <2>2. call.f = f /\ call.d = Dest(f) /\ call.args = args
    BY <1>4
  <2>3. DOMAIN mem = DOMAIN args \cup {Dest(f)} /\ \A u \in DOMAIN args : mem[u] = args[u]
    BY <1>4
  <2>4. CallInv
    BY <1>4, <2>1, <2>2, <2>3 DEF CallInv
  <2>5. Dest(f) \in BitSlots => IsNormal(v)
    <3>1. exp2[0] = 1 /\ exp2[1] = 2 /\ exp2[2] = 4
      <4>1. exp2[0] = 1 /\ exp2[0 + 1] = 2 * exp2[0] /\ exp2[1 + 1] = 2 * exp2[1]
        BY Exp2Step
      <4> QED
        BY <4>1
    <3>2. Dest(f) \in BitSlots => Dest(f) = "r"
      BY DEF Dest, BitSlots
    <3>3. Dest(f) = "r" => v \in {[len |-> 0, bits |-> 0], [len |-> 2, bits |-> 3]}
      BY DEF LeftOver
    <3>4. v \in {[len |-> 0, bits |-> 0], [len |-> 2, bits |-> 3]} => IsNormal(v)
      BY <3>1 DEF IsNormal
    <3> QED
      BY <3>2, <3>3, <3>4
  <2>6. NormalForm
    BY <1>3, <1>4, <2>5 DEF NormalForm
  <2> QED
    BY <2>4, <2>6 DEF IInv
<1>5. ASSUME NEW d \in DOMAIN args, <<f, d>> \in InPlace, mem = args,
             call = [f |-> f, d |-> d, args |-> args]
      PROVE  IInv
  <2>1. (d \in BitSlots <=> f \in MemFunctions \cup BitValues) /\ (f = "append_64" => d = "x")
    <3>1. <<f, d>>[1] = f /\ <<f, d>>[2] = d
      OBVIOUS
    <3> QED
      BY <1>5, <3>1, OperandAssumption
  <2>2. call.f = f /\ call.d = d /\ call.args = args
    BY <1>5
  <2>3. DOMAIN mem = DOMAIN args \cup {d}
    BY <1>5
  <2>4. CallInv
    BY <1>5, <2>1, <2>2, <2>3 DEF CallInv
  <2>5. NormalForm
    BY <1>3, <1>5 DEF NormalForm
  <2> QED
    BY <2>4, <2>5 DEF IInv
<1> QED
  BY <1>1, <1>4, <1>5

(* A call that ends and leaves the other bitvectors alone.                 *)
LEMMA FinishKeeps ==
    ASSUME IInv, call # NoCall, NEW v, call.d \in BitSlots => IsNormal(v),
           Finish([mem EXCEPT ![call.d] = v])
    PROVE  IInv'
<1>1. mem' = [mem EXCEPT ![call.d] = v] /\ call' = NoCall
  BY DEF Finish
<1>2. DOMAIN mem' = DOMAIN mem
  BY <1>1
<1>3. ASSUME NEW u \in DOMAIN mem' \cap BitSlots PROVE IsNormal(mem'[u])
  <2>1. IsNormal(mem[u])
    BY <1>2, <1>3 DEF IInv, NormalForm
  <2>2. mem'[u] = IF u = call.d THEN v ELSE mem[u]
    BY <1>1, <1>2, <1>3
  <2> QED
    BY <1>3, <2>1, <2>2
<1> QED
  BY <1>1, <1>3 DEF IInv, CallInv, NormalForm

(* A step of a loop changes its local variables and its result.            *)
LEMMA LoopKeeps ==
    ASSUME IInv, call # NoCall, call.f \in Loops, UNCHANGED call, NEW v,
           mem' = mem \/ mem' = [mem EXCEPT ![call.d] = v]
    PROVE  IInv'
<1>1. call.d \notin BitSlots
  BY DEF IInv, CallInv, Loops, MemFunctions, BitValues
<1>2. DOMAIN mem' = DOMAIN mem /\ \A u \in DOMAIN mem : u # call.d => mem'[u] = mem[u]
  OBVIOUS
<1>3. NormalForm'
  <2>1. \A u \in DOMAIN mem \cap BitSlots : mem'[u] = mem[u]
    BY <1>1, <1>2
  <2> QED
    BY <1>2, <2>1 DEF IInv, NormalForm
<1>4. CallInv'
  <2>1. \A u \in DOMAIN call.args : u = call.d \/ mem'[u] = call.args[u]
    BY <1>2 DEF IInv, CallInv
  <2> QED
    BY <1>2, <2>1 DEF IInv, CallInv
<1> QED
  BY <1>3, <1>4 DEF IInv

LEMMA InvNext == IInv /\ [Next]_vars => IInv'
<1> SUFFICES ASSUME IInv, [Next]_vars PROVE IInv'
  OBVIOUS
<1>1. CASE CallValue
  <2>1. call # NoCall /\ Finish([mem EXCEPT ![call.d] = Value(call.f, mem)])
        /\ call.f \notin MemFunctions
    BY <1>1 DEF CallValue
  <2>2. call.d \in BitSlots => IsNormal(Value(call.f, mem))
    <3> HAVE call.d \in BitSlots
    <3>1. call.f \in BitValues
      BY <2>1 DEF IInv, CallInv
    <3>2. NormalMem(mem) /\ Reads(call.f) \subseteq DOMAIN mem /\ Typed(call.f, mem)
      BY <2>1, <3>1, CallIsTyped
    <3> QED
      BY <3>1, <3>2, ValuesAreNormal
  <2> QED
    BY <2>1, <2>2, FinishKeeps
<1>2. CASE CallMem
  <2>1. call # NoCall /\ call.f \in MemFunctions /\ Finish(Written(call.f, mem, call.d))
    BY <1>2 DEF CallMem
  <2>2. /\ NormalMem(mem) /\ call.d \in DOMAIN mem /\ Reads(call.f) \subseteq DOMAIN mem
        /\ Typed(call.f, mem) /\ (call.f = "append_64" => call.d = "x")
    BY <2>1, CallIsTyped
  <2>3. Stores(mem, call.d, Written(call.f, mem, call.d))
    BY <2>1, <2>2, FunctionsStore
  <2>4. PICK v : IsNormal(v) /\ Written(call.f, mem, call.d) = [mem EXCEPT ![call.d] = v]
    BY <2>3 DEF Stores
  <2> QED
    BY <2>1, <2>4, FinishKeeps
<1>3. CASE PowerStart
  <2>1. call # NoCall /\ call.f \in Loops /\ mem' = [mem EXCEPT ![call.d] = mpq(1, 1)] /\ UNCHANGED call
    BY <1>3 DEF PowerStart, Loops
  <2> QED
    BY <2>1, LoopKeeps
<1>4. CASE PowerOdd
  <2>1. /\ call # NoCall /\ call.f \in Loops /\ UNCHANGED call
        /\ mem' = [mem EXCEPT ![call.d] = mpq_mul(mem[call.d], loop.b)]
    BY <1>4 DEF PowerOdd, InPower, Loops
  <2> QED
    BY <2>1, LoopKeeps
<1>5. CASE PowerEven
  <2>1. call # NoCall /\ call.f \in Loops /\ UNCHANGED call /\ mem' = mem
    BY <1>5 DEF PowerEven, InPower, Loops
  <2> QED
    BY <2>1, LoopKeeps
<1>6. CASE PowerEnd
  <2> DEFINE v == IF get_si(WordBits, mem.n) < 0 THEN mpq_inv(mem[call.d]) ELSE mem[call.d]
  <2>1. call # NoCall /\ call.f = "real_power" /\ Finish([mem EXCEPT ![call.d] = v])
    BY <1>6 DEF PowerEnd, InPower
  <2>2. call.d \notin BitSlots
    BY <2>1 DEF IInv, CallInv, MemFunctions, BitValues
  <2> QED
    BY <2>1, <2>2, FinishKeeps
<1>7. CASE SqrtStart \/ SqrtStep
  <2>1. call # NoCall /\ call.f = "sqrt_real" /\ call.f \in Loops
    BY <1>7 DEF SqrtStart, SqrtStep, Loops
  <2>2. call.d \notin BitSlots
    BY <2>1 DEF IInv, CallInv, MemFunctions, BitValues
  <2>3. (UNCHANGED <<mem, call>>) \/ \E v : Finish([mem EXCEPT ![call.d] = v])
    BY <1>7, Zenon DEF SqrtStart, SqrtStep
  <2> QED
    BY <2>1, <2>2, <2>3, FinishKeeps, LoopKeeps
<1>8. CASE Returned \/ UNCHANGED vars
  BY <1>8 DEF Returned, vars, IInv, CallInv, NormalForm
<1> QED
  BY <1>1, <1>2, <1>3, <1>4, <1>5, <1>6, <1>7, <1>8 DEF Next

(* Bitvectors stay in normal form: every function of lib/sail.c and every  *)
(* expression the compiler writes in its place, called with operands of    *)
(* their types, also with the result going to an operand.                  *)
THEOREM BitsAreNormal == Spec => []NormalForm
<1>1. IInv => NormalForm
  BY DEF IInv
<1> QED
  BY <1>1, InvInit, InvNext, PTL DEF Spec

-----------------------------------------------------------------------------
(* Powers, as real_power computes them. *)

(* Fractions in lowest terms. *)
IsReduced(p) == \E a \in Int, b \in Nat \ {0} : p = mpq(a, b)

LEMMA ReducedIsRational == \A p : IsReduced(p) => p \in Rational
  BY LowestIsRational DEF IsReduced

LEMMA ProductIsReduced == \A p, q \in Rational : IsReduced(mpq_mul(p, q))
<1> TAKE p, q \in Rational
<1>1. p.num * q.num \in Int /\ p.den * q.den \in Nat \ {0}
  BY DEF Rational
<1> QED
  BY <1>1 DEF IsReduced, mpq_mul

(* A power is the product of the base and the power before it. *)
LEMMA PowerStep ==
    ASSUME NEW v \in Rational
    PROVE  /\ Power(v, 0) = mpq(1, 1)
           /\ \A e \in Nat : Power(v, e + 1) = mpq_mul(v, Power(v, e))
<1> DEFINE IsPower(f) == f = [k \in Nat |-> IF k = 0 THEN mpq(1, 1) ELSE mpq_mul(v, f[k - 1])]
           p == CHOOSE f : IsPower(f)
           times == [w \in Rational |-> mpq_mul(v, w)]
           steps == [k \in Nat |-> times]
<1>1. PICK f : IsSequel(f, mpq(1, 1), steps)
  BY SequelExists
<1>2. f[0] = mpq(1, 1) /\ f = [k \in Nat |-> f[k]]
  BY <1>1 DEF IsSequel
<1>3. ASSUME NEW k \in Nat PROVE f[k + 1] = times[f[k]]
  <2>1. k + 1 \in Nat /\ k + 1 # 0 /\ (k + 1) - 1 = k
    OBVIOUS
  <2> QED
    BY <1>1, <2>1 DEF IsSequel
<1> HIDE DEF steps
<1> DEFINE S == {k \in Nat : f[k] \in Rational}
<1>4. 0 \in S
  <2>1. mpq(1, 1) \in Rational
    BY LowestIsRational
  <2> QED
    BY <1>2, <2>1
<1>5. ASSUME NEW k \in Nat, k \in S PROVE k + 1 \in S
  <2>1. f[k] \in Rational /\ f[k + 1] = mpq_mul(v, f[k])
    BY <1>3, <1>5
  <2> QED
    BY <2>1, ProductIsRational
<1>6. \A k \in Nat : f[k] \in Rational
  <2> HIDE DEF S
  <2>1. Nat \subseteq S
    BY <1>4, <1>5, Binary!Induction
  <2> QED
    BY <2>1 DEF S
<1>7. \A k \in Nat : f[k] = IF k = 0 THEN mpq(1, 1) ELSE mpq_mul(v, f[k - 1])
  <2> TAKE k \in Nat
  <2>1. CASE k = 0
    BY <1>2, <2>1
  <2>2. CASE k # 0
    <3>1. k - 1 \in Nat /\ (k - 1) + 1 = k
      BY <2>2
    <3>2. f[k - 1] \in Rational
      BY <1>6, <3>1
    <3>3. f[k] = times[f[k - 1]]
      BY <1>3, <3>1
    <3> QED
      BY <2>2, <3>2, <3>3
  <2> QED
    BY <2>1, <2>2
<1>8. IsPower(f)
  <2> HIDE DEF mpq, mpq_mul
  <2> QED
    BY <1>2, <1>7
<1>9. IsPower(p)
  BY <1>8, Zenon
<1>10. \A e : Power(v, e) = p[e]
  BY Zenon DEF Power
<1> HIDE DEF p
<1>11. p[0] = mpq(1, 1)
  BY <1>9
<1>12. ASSUME NEW e \in Nat PROVE p[e + 1] = mpq_mul(v, p[e])
  <2>1. e + 1 \in Nat /\ e + 1 # 0 /\ (e + 1) - 1 = e
    OBVIOUS
  <2> QED
    BY <1>9, <2>1
<1> QED
  BY <1>10, <1>11, <1>12

(* Powers are in lowest terms. *)
LEMMA PowerIsReduced == \A v \in Rational : \A e \in Nat : IsReduced(Power(v, e))
<1> TAKE v \in Rational
<1> DEFINE S == {e \in Nat : IsReduced(Power(v, e))}
<1>1. 0 \in S
  BY PowerStep DEF IsReduced
<1>2. ASSUME NEW e \in Nat, e \in S PROVE e + 1 \in S
  <2>1. Power(v, e) \in Rational
    BY <1>2, ReducedIsRational
  <2> QED
    BY <2>1, PowerStep, ProductIsReduced
<1> HIDE DEF S
<1>3. Nat \subseteq S
  BY <1>1, <1>2, Binary!Induction
<1> QED
  BY <1>3 DEF S

(* Squaring the base doubles the exponent. *)
LEMMA PowerOfSquare ==
    \A v \in Rational : \A e \in Nat : Power(mpq_mul(v, v), e) = Power(v, 2 * e)
<1> TAKE v \in Rational
<1> DEFINE w == mpq_mul(v, v)
           S == {e \in Nat : Power(w, e) = Power(v, 2 * e)}
<1>1. w \in Rational
  BY ProductIsRational
<1>2. 0 \in S
  <2>1. 2 * 0 = 0
    OBVIOUS
  <2> HIDE DEF w
  <2> QED
    BY <1>1, <2>1, PowerStep
<1>3. ASSUME NEW e \in Nat, e \in S PROVE e + 1 \in S
  <2> DEFINE r == Power(v, 2 * e)
  <2>1. 2 * e \in Nat /\ (2 * e) + 1 \in Nat /\ 2 * (e + 1) = ((2 * e) + 1) + 1
    OBVIOUS
  <2>2. r \in Rational
    BY <2>1, PowerIsReduced, ReducedIsRational
  <2>3. Power(v, 2 * (e + 1)) = mpq_mul(v, mpq_mul(v, r))
    <3>1. Power(v, (2 * e) + 1) = mpq_mul(v, r)
      BY <2>1, PowerStep
    <3>2. Power(v, ((2 * e) + 1) + 1) = mpq_mul(v, Power(v, (2 * e) + 1))
      BY <2>1, PowerStep
    <3> QED
      BY <2>1, <3>1, <3>2
  <2> HIDE DEF w
  <2>4. Power(w, e + 1) = mpq_mul(w, Power(w, e))
    BY <1>1, PowerStep
  <2>5. Power(w, e) = r
    BY <1>3
  <2> HIDE DEF r, S
  <2>6. mpq_mul(mpq_mul(v, v), r) = mpq_mul(v, mpq_mul(v, r))
    BY <2>2, ProductAssociates
  <2>7. Power(w, e + 1) = Power(v, 2 * (e + 1))
    BY <2>3, <2>4, <2>5, <2>6 DEF w
  <2> QED
    BY <2>7 DEF S
<1> HIDE DEF S
<1>4. Nat \subseteq S
  BY <1>2, <1>3, Binary!Induction
<1> QED
  BY <1>4 DEF S, w

(* An exponent of less than a machine word keeps its value.                *)
LEMMA ExponentKept ==
    ASSUME NEW n \in Int, abs(n) < exp2[WordBits - 1]
    PROVE  get_si(WordBits, n) = n
<1> DEFINE p == exp2[WordBits - 1]
<1>1. p \in Nat \ {0}
  <2>1. WordBits - 1 \in Nat
    BY WordType
  <2> QED
    BY <2>1, Exp2Step
<1>2. abs(n) < p
  OBVIOUS
<1>3. get_si(WordBits, n) = IF n >= 0 THEN n % p ELSE -1 - ((-n - 1) % p)
  BY DEF get_si
<1> HIDE DEF p
<1>4. CASE n >= 0
  <2>1. n \in 0..(p - 1) /\ p * 0 + n = n /\ n \in Nat
    BY <1>1, <1>2, <1>4 DEF abs
  <2>2. n % p = n
    BY <1>1, <2>1
  <2> QED
    BY <1>3, <1>4, <2>2
<1>5. CASE n < 0
  <2>1. -n - 1 \in 0..(p - 1) /\ -n - 1 \in Nat
    BY <1>1, <1>2, <1>5 DEF abs
  <2>2. (-n - 1) % p = -n - 1
    BY <1>1, <2>1
  <2> QED
    BY <1>3, <1>5, <2>2
<1> QED
  BY <1>4, <1>5

(* The result of real_power is apart from its operands; while the loop     *)
(* runs it is a fraction in lowest terms.                                  *)
PowerType ==
    /\ call # NoCall /\ call.f = "real_power" => call.d \notin {"p", "n"}
    /\ InPower => loop.pexp \in Nat /\ loop.b \in Rational /\ IsReduced(mem[call.d])

PowerIInv == IInv /\ PowerType /\ PowerInvariant

(* Its operands stay the ones of the call.                                 *)
LEMMA PowerOperands ==
    ASSUME IInv, PowerType, call # NoCall, call.f = "real_power"
    PROVE  /\ call.d \in DOMAIN mem
           /\ mem.p = call.args.p /\ mem.n = call.args.n /\ call.args.p \in Rational
           /\ call.args.n \in Int /\ abs(call.args.n) < exp2[WordBits - 1]
<1>1. call.f \in DOMAIN Operands /\ call.args \in Operands[call.f]
  BY DEF IInv, CallInv
<1>2. Typed(call.f, call.args)
  BY <1>1, OperandAssumption
<1>3. /\ {"p", "n"} \subseteq DOMAIN call.args /\ call.args.p \in Rational
      /\ abs(call.args.n) < exp2[WordBits - 1]
  BY <1>2 DEF Typed
<1>4. call.args.n \in Int
  BY <1>2, <1>3 DEF Typed, Integers
<1>5. mem["p"] = call.args["p"] /\ mem["n"] = call.args["n"] /\ call.d \in DOMAIN mem
  BY <1>3 DEF IInv, CallInv, PowerType
<1> QED
  BY <1>3, <1>4, <1>5

(* The loop has not begun at the call; then each of its steps keeps its    *)
(* invariant: an odd exponent gives one factor to the result, an even one  *)
(* squares the base.                                                       *)
LEMMA PowerInit ==
    ASSUME PowerApart, Init
    PROVE  PowerIInv
<1> DEFINE Elsewhere(f, args) == call = [f |-> f, d |-> Dest(f), args |-> args]
           Here(f, args) ==
               \E d \in DOMAIN args : <<f, d>> \in InPlace /\ call = [f |-> f, d |-> d, args |-> args]
<1>0. PICK f \in DOMAIN Operands : \E args \in Operands[f] : Elsewhere(f, args) \/ Here(f, args)
  BY DEF Init
<1>1. PICK args \in Operands[f] : Elsewhere(f, args) \/ Here(f, args)
  BY <1>0
<1>2. ~InPower
  BY DEF Init, InPower
<1>3. call # NoCall /\ call.f = "real_power" => call.d \notin {"p", "n"}
  <2>1. CASE Elsewhere(f, args)
    <3>1. Dest("real_power") = "z"
      BY DEF Dest
    <3>2. call.f = f /\ call.d = Dest(f)
      BY <2>1
    <3> QED
      BY <3>1, <3>2
  <2>2. CASE Here(f, args)
    <3>1. PICK d \in DOMAIN args : <<f, d>> \in InPlace /\ call = [f |-> f, d |-> d, args |-> args]
      BY <2>2
    <3>2. call.f = f /\ call.d = d /\ <<f, d>>[1] = f /\ <<f, d>>[2] = d
      BY <3>1
    <3> QED
      BY <3>1, <3>2 DEF PowerApart
  <2> QED
    BY <1>1, <2>1, <2>2
<1>4. IInv
  BY InvInit
<1> QED
  BY <1>2, <1>3, <1>4 DEF PowerIInv, PowerType, PowerInvariant

LEMMA PowerNext == PowerIInv /\ [Next]_vars => PowerIInv'
<1> SUFFICES ASSUME PowerIInv, [Next]_vars PROVE PowerIInv'
  OBVIOUS
<1>0. IInv /\ PowerType /\ PowerInvariant /\ IInv'
  BY InvNext DEF PowerIInv
<1>1. CASE PowerStart
  <2> DEFINE v == call.args.p
             e == abs(call.args.n)
  <2>1. /\ call # NoCall /\ call.f = "real_power" /\ UNCHANGED call
        /\ mem' = [mem EXCEPT ![call.d] = mpq(1, 1)]
        /\ loop' = [b |-> mem'.p, pexp |-> abs_int(get_si(WordBits, mem.n))]
    BY <1>1 DEF PowerStart
  <2>2. /\ call.d \in DOMAIN mem /\ call.d \notin {"p", "n"} /\ mem.p = v /\ mem.n = call.args.n
        /\ v \in Rational /\ call.args.n \in Int /\ abs(call.args.n) < exp2[WordBits - 1]
    BY <1>0, <2>1, PowerOperands DEF PowerType
  <2>3. mem'.p = v
    BY <2>1, <2>2
  <2>4. get_si(WordBits, mem.n) = call.args.n
    BY <2>2, ExponentKept
  <2>5. loop'.pexp = e /\ e \in Nat /\ loop'.b = v /\ mem'[call.d] = mpq(1, 1)
    BY <2>1, <2>2, <2>3, <2>4 DEF abs_int, abs
  <2>6. IsReduced(mpq(1, 1))
    BY DEF IsReduced
  <2>7. mpq_mul(mpq(1, 1), Power(v, e)) = Power(v, e)
    <3>1. PICK a \in Int, b \in Nat \ {0} : Power(v, e) = mpq(a, b)
      BY <2>2, <2>5, PowerIsReduced DEF IsReduced
    <3> QED
      BY <3>1, ProductWithOne
  <2>8. PowerType'
    BY <2>1, <2>2, <2>5, <2>6 DEF PowerType
  <2>9. PowerInvariant'
    <3>1. abs_int(call.args.n) = e
      BY DEF abs_int, abs
    <3> HIDE DEF e, v
    <3>2. mpq_mul(mem'[call.d], Power(loop'.b, loop'.pexp)) = Power(v, e)
      BY <2>5, <2>7
    <3> QED
      BY <2>1, <3>1, <3>2 DEF PowerInvariant, v
  <2> QED
    BY <1>0, <2>8, <2>9 DEF PowerIInv
<1>2. CASE PowerOdd
  <2> DEFINE r == mem[call.d]
             b == loop.b
             e == loop.pexp - 1
  <2>1. /\ call # NoCall /\ call.f = "real_power" /\ InPower /\ UNCHANGED call
        /\ mem' = [mem EXCEPT ![call.d] = mpq_mul(r, b)]
        /\ loop' = [loop EXCEPT !.pexp = loop.pexp - 1] /\ loop.pexp % 2 = 1
    BY <1>2 DEF PowerOdd, InPower
  <2>2. /\ call.d \in DOMAIN mem /\ call.d \notin {"p", "n"}
        /\ loop.pexp \in Nat /\ b \in Rational /\ r \in Rational
    BY <1>0, <2>1, PowerOperands, ReducedIsRational DEF PowerType
  <2>3. e \in Nat /\ loop.pexp = e + 1
    BY <2>1, <2>2
  <2>4. mem'[call.d] = mpq_mul(r, b) /\ loop'.b = b /\ loop'.pexp = e
    BY <2>1, <2>2
  <2>5. mpq_mul(mpq_mul(r, b), Power(b, e)) = mpq_mul(r, Power(b, loop.pexp))
    <3>1. Power(b, e) \in Rational
      BY <2>2, <2>3, PowerIsReduced, ReducedIsRational
    <3>2. mpq_mul(mpq_mul(r, b), Power(b, e)) = mpq_mul(r, mpq_mul(b, Power(b, e)))
      BY <2>2, <3>1, ProductAssociates
    <3>3. Power(b, e + 1) = mpq_mul(b, Power(b, e))
      BY <2>2, <2>3, PowerStep
    <3> QED
      BY <2>3, <3>2, <3>3
  <2>6. PowerType'
    <3>1. IsReduced(mpq_mul(r, b))
      BY <2>2, ProductIsReduced
    <3> QED
      BY <2>1, <2>2, <2>3, <2>4, <3>1 DEF PowerType
  <2>7. PowerInvariant'
    BY <1>0, <2>1, <2>4, <2>5 DEF PowerInvariant
  <2> QED
    BY <1>0, <2>6, <2>7 DEF PowerIInv
<1>3. CASE PowerEven
  <2> DEFINE b == loop.b
             e == loop.pexp \div 2
  <2>1. /\ call # NoCall /\ call.f = "real_power" /\ InPower /\ UNCHANGED <<mem, call>>
        /\ loop' = [b |-> mpq_mul(b, b), pexp |-> e] /\ loop.pexp % 2 = 0
    BY <1>3 DEF PowerEven, InPower
  <2>2. loop.pexp \in Nat /\ b \in Rational
    BY <1>0, <2>1 DEF PowerType
  <2>3. e \in Nat /\ loop.pexp = 2 * e
    BY <2>1, <2>2
  <2>4. loop'.b = mpq_mul(b, b) /\ loop'.pexp = e
    BY <2>1
  <2>5. Power(mpq_mul(b, b), e) = Power(b, loop.pexp)
    <3>1. Power(mpq_mul(b, b), e) = Power(b, 2 * e)
      BY <2>2, <2>3, PowerOfSquare
    <3> QED
      BY <2>3, <3>1
  <2>6. PowerType'
    <3>1. mpq_mul(b, b) \in Rational
      BY <2>2, ProductIsRational
    <3> QED
      BY <1>0, <2>1, <2>3, <2>4, <3>1 DEF PowerType
  <2>7. PowerInvariant'
    BY <1>0, <2>1, <2>4, <2>5 DEF PowerInvariant
  <2> QED
    BY <1>0, <2>6, <2>7 DEF PowerIInv
<1>4. CASE CallValue \/ CallMem \/ PowerEnd
  <2>1. call' = NoCall
    BY <1>4 DEF CallValue, CallMem, PowerEnd, Finish
  <2> QED
    BY <1>0, <2>1 DEF PowerIInv, PowerType, PowerInvariant, InPower
<1>5. CASE SqrtStart \/ SqrtStep
  <2>1. call # NoCall /\ call.f = "sqrt_real"
    BY <1>5 DEF SqrtStart, SqrtStep
  <2>2. call' = NoCall \/ call' = call
    BY <1>5, Zenon DEF SqrtStart, SqrtStep, Finish, vars
  <2> QED
    BY <1>0, <2>1, <2>2 DEF PowerIInv, PowerType, PowerInvariant, InPower
<1>6. CASE Returned \/ UNCHANGED vars
  <2>1. UNCHANGED <<mem, call, loop>>
    BY <1>6 DEF Returned, vars
  <2> QED
    BY <1>0, <2>1 DEF PowerIInv, PowerType, PowerInvariant, InPower
<1> QED
  BY <1>1, <1>2, <1>3, <1>4, <1>5, <1>6 DEF Next

(* The comment in the loop of real_power holds at each iteration: the      *)
(* result times b to the pexp is the base to the absolute value of the     *)
(* exponent, if the result is not written over an operand.                 *)
THEOREM PowerIsKept ==
    ASSUME PowerApart
    PROVE  Spec => []PowerInvariant
<1>1. Init => PowerIInv
  BY PowerInit
<1>2. PowerIInv => PowerInvariant
  BY DEF PowerIInv
<1> QED
  BY <1>1, <1>2, PowerNext, PTL DEF Spec
=============================================================================
