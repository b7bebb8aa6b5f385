------------------------------ MODULE SailBits ------------------------------
(***************************************************************************)
(* The bitvector functions of the C run time library (lib/sail.c).         *)
(*                                                                         *)
(* A function f(rop, op1, op2, ...) is an operator f(m, d) from memories   *)
(* to memories: m maps the variables to their values, d is the variable    *)
(* that rop points to, x and y are the bitvector operands, n, k and j the  *)
(* integer ones in the order of the C parameters.  An operand structure is *)
(* copied by the call, so its length is the one before the call; its bits  *)
(* are behind a pointer, so they are read when the C code reads them,      *)
(* which is after the writes to rop that precede.                          *)
(*                                                                         *)
(* The three representations (lbits, sbits, fbits) are a length and an     *)
(* unsigned integer; for an fbits the length is the one of its C type,     *)
(* CT_fbits(len, _) in the compiler.  A function that returns its result   *)
(* is an operator on values.                                               *)
(***************************************************************************)
EXTENDS Gmp, Sequences, SequencesExt

CONSTANTS WordBits,  \* the bits of uint64_t
          ByteBits   \* the bits of a byte

ASSUME WordAssumption ==
    /\ ByteBits \in Nat \ {0}
    /\ WordBits = 8 * ByteBits

Word == exp2[WordBits]

\* A loop over the indices a, ..., b: step[i][u] is the value after the
\* iteration i if it was u before; v is the value at the start.
For(step, v, a, b) ==
    LET after[k \in Nat] == IF k = 0 THEN v ELSE step[a + k - 1][after[k - 1]]
    IN  IF b < a THEN v ELSE after[b - a + 1]

\* rop->len = len; mpz_set(*rop->bits, n).
Put(m, d, len, n) == [m EXCEPT ![d] = [len |-> len, bits |-> n]]

\* The bits of the operand v while those of rop are n.
BitsNow(m, d, n, v) == IF v = d THEN n ELSE m[v].bits

ui(n) == get_ui(WordBits, n)

\* Shifts of a uint64_t; the processor takes the count modulo the word.
lsl(v, n) == LET k == n % WordBits IN (v % exp2[WordBits - k]) * exp2[k]
lsr(v, n) == v \div exp2[n % WordBits]

\* The count is unsigned: one below zero is a large one.
safe_rshift(v, n) == IF n \in 0..(WordBits - 1) THEN lsr(v, n) ELSE 0
mask(len) == safe_rshift(Word - 1, WordBits - len)

-----------------------------------------------------------------------------
(* Representations and conversions. *)

CREATE_lbits(m, d) == Put(m, d, 0, 0)
RECREATE_lbits(m, d) == Put(m, d, 0, 0)
COPY_lbits(m, d) == Put(m, d, m.x.len, m.x.bits)

CREATE_OF_lbits_fbits(m, d) == Put(m, d, m.x.len, m.x.bits)
CREATE_OF_sbits_lbits(m, d) == Put(m, d, m.x.len, ui(m.x.bits))
CREATE_OF_lbits_sbits(m, d) == Put(m, d, m.x.len, m.x.bits)
RECREATE_OF_lbits_fbits(m, d) == Put(m, d, m.x.len, m.x.bits)
CONVERT_OF_fbits_lbits(m, d) == Put(m, d, m.x.len, ui(m.x.bits))
CONVERT_OF_lbits_fbits(m, d) == Put(m, d, m.x.len, m.x.bits & mask(m.x.len))
CONVERT_OF_lbits_sbits(m, d) == Put(m, d, m.x.len, m.x.bits & mask(m.x.len))
CONVERT_OF_sbits_lbits(m, d) == Put(m, d, m.x.len, ui(m.x.bits))

(* Mutant: the bits above the length are kept. *)
MutNormalize(m, d) == m

normalize_lbits(m, d) == Put(m, d, m[d].len, m[d].bits % exp2[m[d].len])

\* The length is that of rop, the bits are those of op.
append_64(m, d) ==
    Put(m, d, m[d].len + WordBits, mul_2exp(m.x.bits, WordBits) + m.n)

-----------------------------------------------------------------------------
(* Arithmetic and logic. *)

add_bits(m, d) == normalize_lbits(Put(m, d, m.x.len, m.x.bits + m.y.bits), d)
sub_bits(m, d) == normalize_lbits(Put(m, d, m.x.len, m.x.bits - m.y.bits), d)
add_bits_int(m, d) == normalize_lbits(Put(m, d, m.x.len, m.x.bits + m.n), d)
sub_bits_int(m, d) == normalize_lbits(Put(m, d, m.x.len, m.x.bits - m.n), d)
and_bits(m, d) == Put(m, d, m.x.len, m.x.bits & m.y.bits)
or_bits(m, d) == Put(m, d, m.x.len, m.x.bits | m.y.bits)
xor_bits(m, d) == Put(m, d, m.x.len, m.x.bits ^^ m.y.bits)

not_bits(m, d) ==
    Put(m, d, m.x.len,
        For([i \in Nat |-> [u \in Nat |-> combit(u, i)]], m.x.bits, 0, m.x.len - 1))

sail_unsigned(op) == op.bits

sail_signed(op) ==
    IF op.len = 0 THEN 0
    ELSE LET sign_bit == op.len - 1
         IN  IF tstbit(op.bits, sign_bit) # 0
             THEN combit(op.bits, sign_bit) - mul_2exp(1, sign_bit)
             ELSE op.bits

mults_vec(m, d) ==
    normalize_lbits(Put(m, d, m.x.len * 2, sail_signed(m.x) * sail_signed(m.y)), d)
mult_vec(m, d) ==
    normalize_lbits(Put(m, d, m.x.len * 2, m.x.bits * m.y.bits), d)

zeros(m, d) == Put(m, d, ui(m.n), 0)
zero_extend(m, d) == Put(m, d, ui(m.n), m.x.bits)

SetBits(u, a, b) == For([i \in Nat |-> [v \in Nat |-> setbit(v, i)]], u, a, b)

(* Mutant: the lowest new bit is not set. *)
MutSignExtend(m, d) ==
    Put(m, d, ui(m.n),
        IF tstbit(m.x.bits, m.x.len - 1) = 1
        THEN SetBits(m.x.bits, m.x.len + 1, ui(m.n) - 1) ELSE m.x.bits)

sign_extend(m, d) ==
    Put(m, d, ui(m.n),
        IF tstbit(m.x.bits, m.x.len - 1) = 1
        THEN SetBits(m.x.bits, m.x.len, ui(m.n) - 1) ELSE m.x.bits)

eq_bits(op1, op2) ==
    \A i \in 0..(op1.len - 1) : tstbit(op1.bits, i) = tstbit(op2.bits, i)
neq_bits(op1, op2) ==
    \E i \in 0..(op1.len - 1) : tstbit(op1.bits, i) # tstbit(op2.bits, i)

-----------------------------------------------------------------------------
(* Parts of bitvectors. *)

vector_subrange_lbits(m, d) ==
    LET n == ui(m.n)
        k == ui(m.k)
    IN  normalize_lbits(Put(m, d, n - (k - 1), fdiv_q_2exp(m.x.bits, k)), d)

sail_truncate(m, d) == normalize_lbits(Put(m, d, ui(m.n), m.x.bits), d)
sail_truncateLSB(m, d) ==
    LET rlen == ui(m.n)
    IN  normalize_lbits(Put(m, d, rlen, fdiv_q_2exp(m.x.bits, m.x.len - rlen)), d)

bitvector_access(op, n) == tstbit(op.bits, ui(n))

append(m, d) ==
    LET n == mul_2exp(m.x.bits, m.y.len)
    IN  Put(m, d, m.x.len + m.y.len, n | BitsNow(m, d, n, "y"))

replicate_bits(m, d) ==
    Put(m, d, m.x.len * ui(m.n),
        For([i \in Nat |-> [u \in Nat |->
               LET n == mul_2exp(u, m.x.len) IN n | BitsNow(m, d, n, "x")]],
            0, 1, ui(m.n)))

\* rop is set to zero, then takes the bits start, ..., start + len - 1.
get_slice_int(m, d) ==
    Put(m, d, ui(m.n),
        For([i \in Nat |-> [u \in Nat |->
               IF tstbit(m.k, i + ui(m.j)) = 1 THEN setbit(u, i) ELSE u]],
            0, 0, ui(m.n) - 1))
slice(m, d) ==
    Put(m, d, ui(m.k),
        For([i \in Nat |-> [u \in Nat |->
               IF tstbit(BitsNow(m, d, u, "x"), i + ui(m.n)) = 1 THEN setbit(u, i) ELSE u]],
            0, 0, ui(m.k) - 1))

setbit_to(n, i, bit) == IF bit = 1 THEN setbit(n, i) ELSE clrbit(n, i)

\* The low bits of op over those of n from start.
set_slice_int(n, start, op) ==
    For([i \in Nat |-> [u \in Int |-> setbit_to(u, i + ui(start), tstbit(op.bits, i))]],
        n, 0, op.len - 1)

\* In these two the slice may be rop itself: then its bits are those of op.
write_slice(m, d, start, len) ==
    Put(m, d, m.x.len,
        For([i \in Nat |-> [u \in Nat |->
               setbit_to(u, i + start, tstbit(BitsNow(m, d, u, "y"), i))]],
            m.x.bits, 0, len - 1))
vector_update_subrange_lbits(m, d) ==
    write_slice(m, d, ui(m.k), ui(m.n) - (ui(m.k) - 1))
set_slice(m, d) == write_slice(m, d, ui(m.n), m.y.len)

-----------------------------------------------------------------------------
(* Shifts and byte order. *)

shift_bits_left(m, d) ==
    normalize_lbits(Put(m, d, m.x.len, mul_2exp(m.x.bits, ui(m.y.bits))), d)
shift_bits_right(m, d) ==
    Put(m, d, m.x.len, tdiv_q_2exp(m.x.bits, ui(m.y.bits)))

\* The sign is tested after rop is written, and set bit by bit.
shift_bits_right_arith(m, d) ==
    LET shift_amt == ui(m.y.bits)
        sign_bit == m.x.len - 1
        n == fdiv_q_2exp(m.x.bits, shift_amt)
    IN  Put(m, d, m.x.len,
            IF tstbit(BitsNow(m, d, n, "x"), sign_bit) # 0
            THEN SetBits(n, sign_bit - shift_amt + 1, sign_bit) ELSE n)

shiftl(m, d) == normalize_lbits(Put(m, d, m.x.len, mul_2exp(m.x.bits, ui(m.n))), d)
shiftr(m, d) == Put(m, d, m.x.len, tdiv_q_2exp(m.x.bits, ui(m.n)))

\* The two halves of every group of 2 * b bits change places.
swap_halves(v, b) ==
    For([g \in Nat |-> [u \in Nat |->
           LET pair == (v \div exp2[(2 * b) * g]) % exp2[2 * b]
           IN  u + ((pair % exp2[b]) * exp2[b] + pair \div exp2[b]) * exp2[(2 * b) * g]]],
        0, 0, WordBits \div (2 * b) - 1)

reverse_endianness(m, d) ==
    LET B == ByteBits
        len == m.x.len
        x == ui(m.x.bits)
    IN  Put(m, d, len,
            CASE len = 8 * B -> swap_halves(swap_halves(swap_halves(x, 4 * B), 2 * B), B)
              [] len = 4 * B -> swap_halves(swap_halves(x, 2 * B), B)
              [] len = 2 * B -> swap_halves(x, B)
              [] len = B     -> m.x.bits
              [] OTHER -> For([i \in Nat |-> [u \in Nat |->
                                 mul_2exp(u, B) | (tdiv_q_2exp(BitsNow(m, d, u, "x"), i * B) % exp2[B])]],
                              0, 0, (len + B - 1) \div B - 1))

-----------------------------------------------------------------------------
(* Bitvectors of at most one word, returned by value. *)

append_sf(op1, op2) == [len |-> op1.len + op2.len, bits |-> lsl(op1.bits, op2.len) | op2.bits]
append_fs(op1, op2) == [len |-> op1.len + op2.len, bits |-> lsl(op1.bits, op2.len) | op2.bits]
append_ss(op1, op2) == [len |-> op1.len + op2.len, bits |-> lsl(op1.bits, op2.len) | op2.bits]

fast_replicate_bits(shift, v, times) ==
    For([i \in Nat |-> [u \in Nat |-> u | lsl(u, shift)]], v, 1, times - 1)

sslice(op, start, len) == [len |-> len, bits |-> lsr(op.bits, start) & mask(len)]

eq_sbits(op1, op2) == op1.bits = op2.bits
neq_sbits(op1, op2) == op1.bits # op2.bits
xor_sbits(op1, op2) == [len |-> op1.len, bits |-> op1.bits ^^ op2.bits]
fast_unsigned(op) == op.bits

-----------------------------------------------------------------------------
(* The expressions that the compiler writes in the place of a call when    *)
(* the operands are fbits (analyze_primop').                               *)

inline_not_bits(op) == [len |-> op.len, bits |-> (Word - 1 - op.bits) & (exp2[op.len] - 1)]
inline_vector_subrange(op, f, t) ==
    LET len == f - (t - 1) IN [len |-> len, bits |-> mask(len) & lsr(op.bits, t)]
inline_slice(op, start, len) == [len |-> len, bits |-> mask(len) & lsr(op.bits, start)]
inline_vector_access(op, n) == 1 & lsr(op.bits, n)
inline_append(op1, op2) ==
    IF op1.len = 0 THEN op2
    ELSE [len |-> op1.len + op2.len, bits |-> lsl(op1.bits, op2.len) | op2.bits]

-----------------------------------------------------------------------------
(* Printing: the base and the digits, the first one first. *)

\* string_of_lbits: GMP writes the hexadecimal number on len / 4 places.
string_of_lbits(op) ==
    IF op.len % 4 = 0
    THEN [base |-> 16, digits |-> [i \in 1..(op.len \div 4) |->
                                     (op.bits \div 16^(op.len \div 4 - i)) % 16]]
    ELSE [base |-> 2, digits |-> [i \in 1..op.len |-> tstbit(op.bits, op.len - i)]]

\* fprint_bits: the digits go to a buffer from the last one to the first.
fprint_bits(op) ==
    IF op.len % 4 = 0
    THEN LET run == For([i \in Nat |-> [u \in [hex : Seq(Nat), buf : Nat] |->
                           [hex |-> Append(u.hex, ui(u.buf) % 16), buf |-> fdiv_q_2exp(u.buf, 4)]]],
                        [hex |-> << >>, buf |-> op.bits], 1, op.len \div 4)
         IN  [base |-> 16, digits |-> Reverse(run.hex)]
    ELSE [base |-> 2, digits |-> [i \in 1..op.len |-> tstbit(op.bits, op.len - i)]]
=============================================================================
