-------------------------------- MODULE Gmp --------------------------------
(***************************************************************************)
(* The GMP functions that lib/sail.c calls: an mpz is an integer of any    *)
(* size whose bits are those of its two's complement representation, an    *)
(* mpq a rational number in lowest terms with a positive denominator.      *)
(***************************************************************************)
EXTENDS Integers

\* Two to the power k, as a function that the proofs can reason about.
exp2[k \in Nat] == IF k = 0 THEN 1 ELSE 2 * exp2[k - 1]

abs(n) == IF n < 0 THEN -n ELSE n

mul_2exp(n, k) == n * exp2[k]
fdiv_q_2exp(n, k) == n \div exp2[k]
fdiv_q(a, b) == IF b > 0 THEN a \div b ELSE (-a) \div (-b)
tdiv_q(a, b) ==
    LET q == abs(a) \div abs(b)
    IN  IF (a < 0) = (b < 0) THEN q ELSE -q
tdiv_r(a, b) == a - b * tdiv_q(a, b)
tdiv_q_2exp(n, k) == tdiv_q(n, exp2[k])
cdiv_q(a, b) == -((-a) \div b)

\* A bit index below zero is a wrapped mp_bitcnt_t, beyond every bit of n.
tstbit(n, i) == IF i < 0 THEN (IF n < 0 THEN 1 ELSE 0) ELSE (n \div exp2[i]) % 2
setbit(n, i) == IF tstbit(n, i) = 1 THEN n ELSE n + exp2[i]
clrbit(n, i) == IF tstbit(n, i) = 0 THEN n ELSE n - exp2[i]
combit(n, i) == IF tstbit(n, i) = 1 THEN n - exp2[i] ELSE n + exp2[i]

\* The number of the bits of a natural number, up to its highest one.
size(n) == CHOOSE k \in 0..n : n < exp2[k] /\ (k > 0 => exp2[k - 1] <= n)

\* The number of n bits whose bit i is bit[i].
number(bit, n) ==
    LET low[k \in Nat] == IF k = 0 THEN 0 ELSE low[k - 1] + bit[k - 1] * exp2[k - 1]
    IN  low[n]

\* Bit by bit, on natural numbers (sail.c has no other operands).
a & b == number([i \in Nat |-> tstbit(a, i) * tstbit(b, i)], size(IF a < b THEN a ELSE b))
a | b == number([i \in Nat |-> IF tstbit(a, i) + tstbit(b, i) = 0 THEN 0 ELSE 1],
                size(IF a < b THEN b ELSE a))
a ^^ b == number([i \in Nat |-> (tstbit(a, i) + tstbit(b, i)) % 2],
                 size(IF a < b THEN b ELSE a))

\* The absolute value of n modulo the word; the signed word with the sign of n.
get_ui(w, n) == abs(n) % exp2[w]
get_si(w, n) ==
    IF n >= 0 THEN n % exp2[w - 1] ELSE -1 - ((-n - 1) % exp2[w - 1])

\* mpz_pow_ui(0, 0) is 1.
mpz_pow(n, k) == IF k = 0 THEN 1 ELSE n^k

\* The integer square root.
mpz_sqrt(n) == CHOOSE s \in 0..n : s * s <= n /\ n < (s + 1) * (s + 1)
perfect_square_p(n) == n >= 0 /\ LET s == mpz_sqrt(n) IN s * s = n

Rational == [num : Int, den : Nat \ {0}]

\* a / b in lowest terms: the fraction with the least denominator.
lowest_terms == [a \in Int |-> [b \in Int |->
    LET n == abs(b)
        Reduces(d) == n % d = 0 /\ a % (n \div d) = 0
        den == CHOOSE d \in 1..n : Reduces(d) /\ \A e \in 1..(d - 1) : ~Reduces(e)
        num == a \div (n \div den)
    IN  [num |-> IF b < 0 THEN -num ELSE num, den |-> den]]]
mpq(a, b) == lowest_terms[a][b]
mpq_add(p, q) == mpq(p.num * q.den + q.num * p.den, p.den * q.den)
mpq_neg(p) == [p EXCEPT !.num = -@]
mpq_sub(p, q) == mpq_add(p, mpq_neg(q))
mpq_mul(p, q) == mpq(p.num * q.num, p.den * q.den)
mpq_inv(p) == mpq(p.den, p.num)
mpq_div(p, q) == mpq_mul(p, mpq_inv(q))
mpq_abs(p) == IF p.num < 0 THEN mpq_neg(p) ELSE p
mpq_cmp(p, q) == mpq_sub(p, q).num
=============================================================================
