---------------------------- MODULE SailNumbers ----------------------------
(***************************************************************************)
(* Integers, strings and reals of the C run time library (lib/sail.c), as  *)
(* operators on values; the loops of real_power and sqrt_real are steps of *)
(* module Library.                                                         *)
(***************************************************************************)
EXTENDS SailBits

CONSTANT SqrtPrecision    \* SQRT_PRECISION, the decimals of a square root

-----------------------------------------------------------------------------
(* Integers. *)

mach_int_of_sail_int(op) == get_si(WordBits, op)     \* CONVERT_OF
sail_int_of_mach_int(op) == op                       \* CREATE_OF and CONVERT_OF

eq_int(a, b) == a = b
lt(a, b) == a < b
gt(a, b) == a > b
lteq(a, b) == a <= b
gteq(a, b) == a >= b

shl_int(a, b) == mul_2exp(a, ui(b))
shl_mach_int(a, b) == get_si(WordBits, a * exp2[b])
shr_int(a, b) == fdiv_q_2exp(a, ui(b))

add_int(a, b) == a + b
sub_int(a, b) == a - b
mult_int(a, b) == a * b
tdiv_int(a, b) == tdiv_q(a, b)
tmod_int(a, b) == tdiv_r(a, b)
max_int(a, b) == IF lt(a, b) THEN b ELSE a
min_int(a, b) == IF gt(a, b) THEN b ELSE a
neg_int(a) == -a
abs_int(a) == IF a < 0 THEN -a ELSE a
pow_int(a, b) == mpz_pow(a, ui(b))
pow2(a) == mpz_pow(2, ui(a))

\* The comparison with 0ul is one of unsigned numbers, which never holds.
sub_nat(a, b) == a - b

-----------------------------------------------------------------------------
(* Strings. *)

eq_string(s, t) == s = t

concat_str(s, t) == s \o t

\* strstr(s, prefix) == s: the first place of the prefix is the start of s.
string_startswith(s, prefix) ==
    /\ Len(prefix) <= Len(s)
    /\ SubSeq(s, 1, Len(prefix)) = prefix

string_length(s) == Len(s)

string_drop(s, n) ==
    LET k == ui(n)
    IN  IF Len(s) >= k THEN SubSeq(s, k + 1, Len(s)) ELSE << >>

-----------------------------------------------------------------------------
(* Reals. *)

neg_real(p) == mpq_neg(p)
mult_real(p, q) == mpq_mul(p, q)
sub_real(p, q) == mpq_sub(p, q)
add_real(p, q) == mpq_add(p, q)
div_real(p, q) == mpq_div(p, q)
abs_real(p) == mpq_abs(p)
round_up(p) == cdiv_q(p.num, p.den)
round_down(p) == fdiv_q(p.num, p.den)
to_real(n) == mpq(n, 1)
eq_real(p, q) == mpq_cmp(p, q) = 0
lt_real(p, q) == mpq_cmp(p, q) < 0
gt_real(p, q) == mpq_cmp(p, q) > 0
lteq_real(p, q) == mpq_cmp(p, q) <= 0
gteq_real(p, q) == mpq_cmp(p, q) >= 0

\* sqrt_real: an integer that is a perfect square has an exact root; for
\* another operand, the first estimate of the Babylonian method, the next
\* one, and when the difference of the two is small enough.
is_perfect_square(op) == op.den = 1 /\ perfect_square_p(op.num)
exact_sqrt(op) == mpq(mpz_sqrt(op.num), 1)
initial_guess(op) == mpq(mpz_sqrt(cdiv_q(op.num, op.den)), 1)
next_estimate(op, p) == mpq_mul(mpq_add(mpq_div(op, p), p), mpq(1, 2))
convergence == mpq(1, 10^SqrtPrecision)
is_close(p, n) == mpq_cmp(mpq_abs(mpq_sub(p, n)), convergence) < 0

\* A decimal literal is its whole part and the digits after the point.
real_of_string(whole, frac) ==
    LET digits == FoldLeft(LAMBDA acc, c : 10 * acc + c, 0, frac)
    IN  mpq_add(mpq(digits, 10^Len(frac)), mpq(whole, 1))
=============================================================================
