------------------------------ MODULE SailLib ------------------------------
(***************************************************************************)
(* The library functions of the OCaml back end and of the interpreter      *)
(* (src/sail_lib.ml), which give the builtins of lib/*.sail their meaning. *)
(* A bitvector is a list of bits, most significant first; a real is a      *)
(* rational in lowest terms; a string is a sequence of characters.         *)
(***************************************************************************)
EXTENDS Integers, Sequences, SequencesExt

\* ----- Lists of bits -----

take(n, xs) == SubSeq(xs, 1, IF n < Len(xs) THEN n ELSE Len(xs))
drop(n, xs) == SubSeq(xs, n + 1, Len(xs))

subrange(xs, n, m) == Reverse(take(n - (m - 1), drop(m, Reverse(xs))))
slice(xs, n, m) == Reverse(take(m, drop(n, Reverse(xs))))
access(xs, n) == Reverse(xs)[n + 1]

update(xs, n, b) ==
    LET k == Len(xs) - n - 1 IN take(k, xs) \o <<b>> \o drop(k + 1, xs)

\* The bits of ys go to the indices n, n-1, ... of xs; m is not read.
update_subrange(xs, n, m, ys) ==
    FoldLeftDomain(LAMBDA acc, i : update(acc, n - (i - 1), ys[i]), xs, ys)

vector_truncate(xs, n) == Reverse(take(n, Reverse(xs)))
vector_truncateLSB(xs, n) == take(n, xs)

uint(xs) == MapThenSumSet(LAMBDA i : xs[i] * 2^(Len(xs) - i), DOMAIN xs)
sint(xs) ==
    IF xs = << >> THEN 0
    ELSE uint(Tail(xs)) - xs[1] * 2^(Len(xs) - 1)

not_vec(xs) == [i \in DOMAIN xs |-> 1 - xs[i]]
pointwise_and(xs, ys) == [i \in DOMAIN xs |-> xs[i] * ys[i]]
pointwise_or(xs, ys) == [i \in DOMAIN xs |-> IF xs[i] + ys[i] = 0 THEN 0 ELSE 1]
pointwise_xor(xs, ys) == [i \in DOMAIN xs |-> (xs[i] + ys[i]) % 2]

\* Ripple-carry addition, from the last bit to the first.
add_vec(xs, ys) ==
    FoldRightDomain(LAMBDA i, acc :
                      LET s == xs[i] + ys[i] + acc.carry
                      IN  [carry |-> s \div 2, bits |-> <<s % 2>> \o acc.bits],
                    xs, [carry |-> 0, bits |-> << >>]).bits

replicate_bits(xs, n) == FlattenSeq([i \in 1..n |-> xs])
zeros(n) == replicate_bits(<<0>>, n)

\* n bits of the two's complement representation of m, from bit o upwards.
get_slice_int(n, m, o) == [i \in 1..n |-> (m \div 2^(n + o - i)) % 2]
to_bits(len, n) == get_slice_int(len, n, 0)

add_vec_int(xs, n) == add_vec(xs, to_bits(Len(xs), n))
sub_vec(xs, ys) == add_vec(xs, add_vec_int(not_vec(ys), 1))
sub_vec_int(xs, n) == sub_vec(xs, to_bits(Len(xs), n))
mult_vec(xs, ys) == to_bits(2 * Len(xs), uint(xs) * uint(ys))
mults_vec(xs, ys) == to_bits(2 * Len(xs), sint(xs) * sint(ys))

zero_extend(xs, n) ==
    IF n <= Len(xs) THEN take(n, xs) ELSE zeros(n - Len(xs)) \o xs
sign_extend(xs, n) ==
    replicate_bits(IF xs = << >> THEN <<0>> ELSE take(1, xs), n - Len(xs)) \o xs

shiftr(xs, n) == take(Len(xs), zeros(n) \o xs)
shiftl(xs, n) == drop(n, xs \o zeros(n))
shift_bits_right_arith(xs, ys) ==
    take(Len(xs), replicate_bits(take(1, xs), uint(ys)) \o xs)

set_slice(xs, n, ys) == update_subrange(xs, n + Len(ys) - 1, n, ys)

\* The bytes of xs (of Byte bits) in the opposite order.
reverse_endianness(Byte, xs) ==
    FlattenSeq(Reverse([i \in 1..(Len(xs) \div Byte) |->
                          SubSeq(xs, (i - 1) * Byte + 1, i * Byte)]))

\* A printed bitvector: its base and its digits, the first one first.
string_of_bits(xs) ==
    IF Len(xs) % 4 = 0
    THEN [base |-> 16, digits |-> [i \in 1..(Len(xs) \div 4) |-> uint(SubSeq(xs, 4*i - 3, 4*i))]]
    ELSE [base |-> 2, digits |-> xs]

\* ----- Integers -----

abs_int(x) == IF x < 0 THEN -x ELSE x
quot_round_zero(x, y) ==
    LET q == abs_int(x) \div abs_int(y) IN IF (x >= 0) # (y >= 0) THEN -q ELSE q
rem_round_zero(x, y) ==
    LET r == abs_int(x) % abs_int(y) IN IF x >= 0 THEN r ELSE -r
shl_int(n, k) == n * 2^k
shr_int(n, k) == n \div 2^k
max_int(x, y) == IF x > y THEN x ELSE y
min_int(x, y) == IF x < y THEN x ELSE y

\* ----- Strings -----

string_startswith(s, t) == Len(s) >= Len(t) /\ SubSeq(s, 1, Len(t)) = t
string_drop(s, n) == IF Len(s) <= n THEN << >> ELSE SubSeq(s, n + 1, Len(s))
=============================================================================
