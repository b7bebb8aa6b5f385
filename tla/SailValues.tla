----------------------------- MODULE SailValues -----------------------------
(***************************************************************************)
(* What a call of a library function promises: when it returns, the        *)
(* destination holds the value that the OCaml run time library (SailLib)   *)
(* computes from the operands as they were at the call, and no other       *)
(* variable has changed.  f is the name of the C function; lib/*.sail and  *)
(* the compiler pair it with the OCaml one.                                *)
(***************************************************************************)
EXTENDS SailLib

CONSTANTS NoCall,
          ByteBits,        \* the bits of a byte
          SqrtPrecision    \* the decimals to which square roots are computed

VARIABLES val,     \* the value of each variable
          call     \* the call in progress: [f, d, args], or NoCall

Rational(a, b) == [num |-> a, den |-> b]
Less(p, q) == p.num * q.den < q.num * p.den

Power(b, e) == LET p[k \in Nat] == IF k = 0 THEN 1 ELSE b * p[k - 1] IN p[e]

\* v = n / k, for a rational v in lowest terms.
IsQuotient(v, n, k) == v.num * k = n * v.den /\ v.den > 0

\* set_slice_int replaces bits of the two's complement representation of k,
\* here long enough for every bit of the slice and the sign.
Result(f, a) ==
    CASE f \in {"COPY_lbits", "CREATE_OF_lbits_fbits", "CREATE_OF_sbits_lbits",
                "CREATE_OF_lbits_sbits", "RECREATE_OF_lbits_fbits",
                "CONVERT_OF_fbits_lbits", "CONVERT_OF_lbits_fbits",
                "CONVERT_OF_lbits_sbits", "CONVERT_OF_sbits_lbits"} -> a.x
      [] f \in {"CREATE_lbits", "RECREATE_lbits"} -> << >>
      [] f = "append_64" -> a.x \o to_bits(8 * ByteBits, a.n)
      [] f = "add_bits" -> add_vec(a.x, a.y)
      [] f = "sub_bits" -> sub_vec(a.x, a.y)
      [] f = "add_bits_int" -> add_vec_int(a.x, a.n)
      [] f = "sub_bits_int" -> sub_vec_int(a.x, a.n)
      [] f \in {"and_bits", "inline_and"} -> pointwise_and(a.x, a.y)
      [] f \in {"or_bits", "inline_or"} -> pointwise_or(a.x, a.y)
      [] f \in {"xor_bits", "xor_sbits"} -> pointwise_xor(a.x, a.y)
      [] f \in {"not_bits", "inline_not_bits"} -> not_vec(a.x)
      [] f = "mult_vec" -> mult_vec(a.x, a.y)
      [] f = "mults_vec" -> mults_vec(a.x, a.y)
      [] f = "zeros" -> zeros(a.n)
      [] f = "zero_extend" -> zero_extend(a.x, a.n)
      [] f = "sign_extend" -> sign_extend(a.x, a.n)
      [] f \in {"vector_subrange_lbits", "inline_vector_subrange"} -> subrange(a.x, a.n, a.k)
      [] f = "sail_truncate" -> vector_truncate(a.x, a.n)
      [] f = "sail_truncateLSB" -> vector_truncateLSB(a.x, a.n)
      [] f \in {"append", "append_sf", "append_fs", "append_ss", "inline_append"} -> a.x \o a.y
      [] f \in {"replicate_bits", "fast_replicate_bits"} -> replicate_bits(a.x, a.n)
      [] f = "get_slice_int" -> get_slice_int(a.n, a.k, a.j)
      [] f = "vector_update_subrange_lbits" -> update_subrange(a.x, a.n, a.k, a.y)
      [] f \in {"slice", "sslice", "inline_slice"} -> slice(a.x, a.n, a.k)
      [] f = "set_slice" -> set_slice(a.x, a.n, a.y)
      [] f = "shift_bits_left" -> shiftl(a.x, uint(a.y))
      [] f = "shift_bits_right" -> shiftr(a.x, uint(a.y))
      [] f = "shift_bits_right_arith" -> shift_bits_right_arith(a.x, a.y)
      [] f = "shiftl" -> shiftl(a.x, a.n)
      [] f = "shiftr" -> shiftr(a.x, a.n)
      [] f = "reverse_endianness" -> reverse_endianness(ByteBits, a.x)
      [] f = "length_lbits" -> Len(a.x)
      [] f \in {"sail_unsigned", "fast_unsigned"} -> uint(a.x)
      [] f = "sail_signed" -> sint(a.x)
      [] f \in {"bitvector_access", "inline_vector_access"} -> access(a.x, a.n)
      [] f = "set_slice_int" -> sint(set_slice(to_bits(12, a.k), a.j, a.x))
      [] f \in {"mach_int_of_sail_int", "sail_int_of_mach_int"} -> a.n
      [] f \in {"shl_int", "shl_mach_int"} -> shl_int(a.n, a.k)
      [] f = "shr_int" -> shr_int(a.n, a.k)
      [] f = "add_int" -> a.n + a.k
      [] f = "sub_int" -> a.n - a.k
      [] f = "sub_nat" -> IF a.n - a.k <= 0 THEN 0 ELSE a.n - a.k
      [] f = "mult_int" -> a.n * a.k
      [] f = "tdiv_int" -> quot_round_zero(a.n, a.k)
      [] f = "tmod_int" -> rem_round_zero(a.n, a.k)
      [] f = "max_int" -> max_int(a.n, a.k)
      [] f = "min_int" -> min_int(a.n, a.k)
      [] f = "neg_int" -> -a.n
      [] f = "abs_int" -> abs_int(a.n)
      [] f = "pow_int" -> Power(a.n, a.k)
      [] f = "pow2" -> Power(2, a.n)
      [] f = "string_length" -> Len(a.s)
      [] f \in {"eq_bits", "eq_sbits"} -> a.x = a.y
      [] f \in {"neq_bits", "neq_sbits"} -> a.x # a.y
      [] f = "eq_int" -> a.n = a.k
      [] f = "lt" -> a.n < a.k
      [] f = "gt" -> a.n > a.k
      [] f = "lteq" -> a.n <= a.k
      [] f = "gteq" -> a.n >= a.k
      [] f = "eq_string" -> a.s = a.t
      [] f = "string_startswith" -> string_startswith(a.s, a.t)
      [] f = "eq_real" -> a.p = a.q
      [] f = "lt_real" -> Less(a.p, a.q)
      [] f = "gt_real" -> Less(a.q, a.p)
      [] f = "lteq_real" -> ~Less(a.q, a.p)
      [] f = "gteq_real" -> ~Less(a.p, a.q)
      [] f = "concat_str" -> a.s \o a.t
      [] f = "string_drop" -> string_drop(a.s, a.n)
      [] f \in {"fprint_bits", "string_of_lbits"} -> string_of_bits(a.x)

\* A root is exact when there is an exact one among the integers; otherwise
\* it is above the root by less than 1 / 10^SqrtPrecision.
IsRoot(op, v) ==
    IF op.den = 1 /\ \E s \in 0..op.num : s * s = op.num
    THEN v.den = 1 /\ v.num >= 0 /\ v.num * v.num = op.num
    ELSE LET Square(r) == Rational(r.num * r.num, r.den * r.den)
             below == Rational(v.num * 10^SqrtPrecision - v.den, v.den * 10^SqrtPrecision)
         IN  /\ v.num > 0 /\ v.den > 0
             /\ ~Less(Square(v), op)
             /\ below.num > 0 => Less(Square(below), op)

RealFunctions ==
    {"neg_real", "add_real", "sub_real", "mult_real", "div_real", "abs_real", "to_real",
     "real_of_string", "real_power", "sqrt_real", "round_up", "round_down"}

IsRealResult(f, a, v) ==
    CASE f = "neg_real" -> v = Rational(-a.p.num, a.p.den)
      [] f = "add_real" -> IsQuotient(v, a.p.num * a.q.den + a.q.num * a.p.den, a.p.den * a.q.den)
      [] f = "sub_real" -> IsQuotient(v, a.p.num * a.q.den - a.q.num * a.p.den, a.p.den * a.q.den)
      [] f = "mult_real" -> IsQuotient(v, a.p.num * a.q.num, a.p.den * a.q.den)
      [] f = "div_real" -> IsQuotient(v, a.p.num * a.q.den, a.p.den * a.q.num)
      [] f = "abs_real" -> v = Rational(abs_int(a.p.num), a.p.den)
      [] f = "to_real" -> v = Rational(a.n, 1)
      [] f = "real_of_string" ->
             IsQuotient(v, a.n * 10^Len(a.s) + MapThenSumSet(LAMBDA i : a.s[i] * 10^(Len(a.s) - i), DOMAIN a.s),
                        10^Len(a.s))
      [] f = "real_power" ->
             IF a.n >= 0 THEN IsQuotient(v, Power(a.p.num, a.n), Power(a.p.den, a.n))
             ELSE IsQuotient(v, Power(a.p.den, -a.n), Power(a.p.num, -a.n))
      [] f = "sqrt_real" -> IsRoot(a.p, v)
      [] f = "round_up" -> v * a.p.den >= a.p.num /\ (v - 1) * a.p.den < a.p.num
      [] f = "round_down" -> v * a.p.den <= a.p.num /\ (v + 1) * a.p.den > a.p.num

IsResult(f, a, v) ==
    IF f \in RealFunctions THEN IsRealResult(f, a, v) ELSE v = Result(f, a)

-----------------------------------------------------------------------------
Init == TRUE

OthersKept == \A s \in DOMAIN call.args \ {call.d} : val'[s] = val[s]

\* In the course of a call only the destination may change.
Work == call # NoCall /\ call' = call /\ OthersKept

Return ==
    /\ call # NoCall
    /\ call' = NoCall
    /\ IsResult(call.f, call.args, val'[call.d])
    /\ OthersKept

Spec == Init /\ [][Work \/ Return]_<<val, call>>
=============================================================================
