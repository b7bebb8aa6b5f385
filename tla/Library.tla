------------------------------ MODULE Library ------------------------------
(***************************************************************************)
(* Calls of the C run time library by a generated program.  The memory     *)
(* maps variables of the program to their values: x, y, r are bitvectors,  *)
(* n, k, j, i integers, s, t, u strings, p, q, z reals.  A call names the  *)
(* C function and the variable for its result, which the function finds    *)
(* with whatever value it had; it may be one of the operands, because the  *)
(* compiler passes the assigned variable itself (`f(&x, x)' for the Sail   *)
(* statement x = f(x)).  Strings are left out of that: there the functions *)
(* move the buffer that they go on reading.                                *)
(***************************************************************************)
EXTENDS SailNumbers

CONSTANTS NoCall, NoLoop,
          Operands,   \* from the names of the functions to their operands
          InPlace     \* pairs of a function and an operand its result may go to

VARIABLES mem,    \* the values of the variables
          call,   \* the call in progress, with its operands (kept for the properties)
          loop    \* the local variables of a loop in progress

vars == <<mem, call, loop>>

BitSlots == {"x", "y", "r"}

\* The functions that read their operands before they write the result.
Value(f, m) ==
    CASE f = "append_sf" -> append_sf(m.x, m.y)
      [] f = "append_fs" -> append_fs(m.x, m.y)
      [] f = "append_ss" -> append_ss(m.x, m.y)
      [] f = "fast_replicate_bits" ->
             [len |-> m.x.len * m.n, bits |-> fast_replicate_bits(m.x.len, m.x.bits, m.n)]
      [] f = "sslice" -> sslice(m.x, m.n, m.k)
      [] f = "xor_sbits" -> xor_sbits(m.x, m.y)
      [] f = "inline_and" -> [m.x EXCEPT !.bits = @ & m.y.bits]
      [] f = "inline_or" -> [m.x EXCEPT !.bits = @ | m.y.bits]
      [] f = "inline_not_bits" -> inline_not_bits(m.x)
      [] f = "inline_vector_subrange" -> inline_vector_subrange(m.x, m.n, m.k)
      [] f = "inline_slice" -> inline_slice(m.x, m.n, m.k)
      [] f = "inline_append" -> inline_append(m.x, m.y)
      [] f = "inline_vector_access" -> inline_vector_access(m.x, m.n)
      [] f = "length_lbits" -> m.x.len
      [] f = "sail_unsigned" -> sail_unsigned(m.x)
      [] f = "sail_signed" -> sail_signed(m.x)
      [] f = "fast_unsigned" -> fast_unsigned(m.x)
      [] f = "bitvector_access" -> bitvector_access(m.x, m.n)
      [] f = "set_slice_int" -> set_slice_int(m.k, m.j, m.x)
      [] f = "eq_bits" -> eq_bits(m.x, m.y)
      [] f = "neq_bits" -> neq_bits(m.x, m.y)
      [] f = "eq_sbits" -> eq_sbits(m.x, m.y)
      [] f = "neq_sbits" -> neq_sbits(m.x, m.y)
      [] f = "string_of_lbits" -> string_of_lbits(m.x)
      [] f = "fprint_bits" -> fprint_bits(m.x)
      [] f = "mach_int_of_sail_int" -> mach_int_of_sail_int(m.n)
      [] f = "sail_int_of_mach_int" -> sail_int_of_mach_int(m.n)
      [] f = "eq_int" -> eq_int(m.n, m.k)
      [] f = "lt" -> lt(m.n, m.k)
      [] f = "gt" -> gt(m.n, m.k)
      [] f = "lteq" -> lteq(m.n, m.k)
      [] f = "gteq" -> gteq(m.n, m.k)
      [] f = "shl_int" -> shl_int(m.n, m.k)
      [] f = "shl_mach_int" -> shl_mach_int(m.n, m.k)
      [] f = "shr_int" -> shr_int(m.n, m.k)
      [] f = "add_int" -> add_int(m.n, m.k)
      [] f = "sub_int" -> sub_int(m.n, m.k)
      [] f = "sub_nat" -> sub_nat(m.n, m.k)
      [] f = "mult_int" -> mult_int(m.n, m.k)
      [] f = "tdiv_int" -> tdiv_int(m.n, m.k)
      [] f = "tmod_int" -> tmod_int(m.n, m.k)
      [] f = "max_int" -> max_int(m.n, m.k)
      [] f = "min_int" -> min_int(m.n, m.k)
      [] f = "neg_int" -> neg_int(m.n)
      [] f = "abs_int" -> abs_int(m.n)
      [] f = "pow_int" -> pow_int(m.n, m.k)
      [] f = "pow2" -> pow2(m.n)
      [] f = "eq_string" -> eq_string(m.s, m.t)
      [] f = "concat_str" -> concat_str(m.s, m.t)
      [] f = "string_startswith" -> string_startswith(m.s, m.t)
      [] f = "string_length" -> string_length(m.s)
      [] f = "string_drop" -> string_drop(m.s, m.n)
      [] f = "neg_real" -> neg_real(m.p)
      [] f = "mult_real" -> mult_real(m.p, m.q)
      [] f = "sub_real" -> sub_real(m.p, m.q)
      [] f = "add_real" -> add_real(m.p, m.q)
      [] f = "div_real" -> div_real(m.p, m.q)
      [] f = "abs_real" -> abs_real(m.p)
      [] f = "round_up" -> round_up(m.p)
      [] f = "round_down" -> round_down(m.p)
      [] f = "to_real" -> to_real(m.n)
      [] f = "eq_real" -> eq_real(m.p, m.q)
      [] f = "lt_real" -> lt_real(m.p, m.q)
      [] f = "gt_real" -> gt_real(m.p, m.q)
      [] f = "lteq_real" -> lteq_real(m.p, m.q)
      [] f = "gteq_real" -> gteq_real(m.p, m.q)
      [] f = "real_of_string" -> real_of_string(m.n, m.s)

\* Those of them whose result is a bitvector.
BitValues ==
    {"append_sf", "append_fs", "append_ss", "fast_replicate_bits", "sslice", "xor_sbits",
     "inline_and", "inline_or", "inline_not_bits", "inline_vector_subrange", "inline_slice",
     "inline_append"}

\* The functions that write the destination in several steps.
MemFunctions ==
    {"CREATE_lbits", "RECREATE_lbits", "COPY_lbits", "CREATE_OF_lbits_fbits",
     "CREATE_OF_sbits_lbits", "CREATE_OF_lbits_sbits", "RECREATE_OF_lbits_fbits",
     "CONVERT_OF_fbits_lbits", "CONVERT_OF_lbits_fbits", "CONVERT_OF_lbits_sbits",
     "CONVERT_OF_sbits_lbits", "append_64", "add_bits", "sub_bits", "add_bits_int",
     "sub_bits_int", "and_bits", "or_bits", "xor_bits", "not_bits", "mults_vec", "mult_vec",
     "zeros", "zero_extend", "sign_extend", "vector_subrange_lbits", "sail_truncate",
     "sail_truncateLSB", "append", "replicate_bits", "get_slice_int", "slice",
     "vector_update_subrange_lbits", "set_slice", "shift_bits_left", "shift_bits_right",
     "shift_bits_right_arith", "shiftl", "shiftr", "reverse_endianness"}

Written(f, m, d) ==
    CASE f = "CREATE_lbits" -> CREATE_lbits(m, d)
      [] f = "RECREATE_lbits" -> RECREATE_lbits(m, d)
      [] f = "COPY_lbits" -> COPY_lbits(m, d)
      [] f = "CREATE_OF_lbits_fbits" -> CREATE_OF_lbits_fbits(m, d)
      [] f = "CREATE_OF_sbits_lbits" -> CREATE_OF_sbits_lbits(m, d)
      [] f = "CREATE_OF_lbits_sbits" -> CREATE_OF_lbits_sbits(m, d)
      [] f = "RECREATE_OF_lbits_fbits" -> RECREATE_OF_lbits_fbits(m, d)
      [] f = "CONVERT_OF_fbits_lbits" -> CONVERT_OF_fbits_lbits(m, d)
      [] f = "CONVERT_OF_lbits_fbits" -> CONVERT_OF_lbits_fbits(m, d)
      [] f = "CONVERT_OF_lbits_sbits" -> CONVERT_OF_lbits_sbits(m, d)
      [] f = "CONVERT_OF_sbits_lbits" -> CONVERT_OF_sbits_lbits(m, d)
      [] f = "append_64" -> append_64(m, d)
      [] f = "add_bits" -> add_bits(m, d)
      [] f = "sub_bits" -> sub_bits(m, d)
      [] f = "add_bits_int" -> add_bits_int(m, d)
      [] f = "sub_bits_int" -> sub_bits_int(m, d)
      [] f = "and_bits" -> and_bits(m, d)
      [] f = "or_bits" -> or_bits(m, d)
      [] f = "xor_bits" -> xor_bits(m, d)
      [] f = "not_bits" -> not_bits(m, d)
      [] f = "mults_vec" -> mults_vec(m, d)
      [] f = "mult_vec" -> mult_vec(m, d)
      [] f = "zeros" -> zeros(m, d)
      [] f = "zero_extend" -> zero_extend(m, d)
      [] f = "sign_extend" -> sign_extend(m, d)
      [] f = "vector_subrange_lbits" -> vector_subrange_lbits(m, d)
      [] f = "sail_truncate" -> sail_truncate(m, d)
      [] f = "sail_truncateLSB" -> sail_truncateLSB(m, d)
      [] f = "append" -> append(m, d)
      [] f = "replicate_bits" -> replicate_bits(m, d)
      [] f = "get_slice_int" -> get_slice_int(m, d)
      [] f = "slice" -> slice(m, d)
      [] f = "vector_update_subrange_lbits" -> vector_update_subrange_lbits(m, d)
      [] f = "set_slice" -> set_slice(m, d)
      [] f = "shift_bits_left" -> shift_bits_left(m, d)
      [] f = "shift_bits_right" -> shift_bits_right(m, d)
      [] f = "shift_bits_right_arith" -> shift_bits_right_arith(m, d)
      [] f = "shiftl" -> shiftl(m, d)
      [] f = "shiftr" -> shiftr(m, d)
      [] f = "reverse_endianness" -> reverse_endianness(m, d)

\* The variable a result of f goes to when it is not an operand.
Dest(f) ==
    CASE f \in {"eq_bits", "neq_bits", "eq_sbits", "neq_sbits", "eq_int", "lt", "gt", "lteq",
                "gteq", "eq_string", "string_startswith", "eq_real", "lt_real", "gt_real",
                "lteq_real", "gteq_real"} -> "b"
      [] f \in {"length_lbits", "sail_unsigned", "sail_signed", "fast_unsigned",
                "bitvector_access", "inline_vector_access", "set_slice_int",
                "mach_int_of_sail_int", "sail_int_of_mach_int", "shl_int", "shl_mach_int",
                "shr_int", "add_int", "sub_int", "sub_nat", "mult_int", "tdiv_int", "tmod_int",
                "max_int", "min_int", "neg_int", "abs_int", "pow_int", "pow2",
                "string_length", "round_up", "round_down"} -> "i"
      [] f \in {"string_of_lbits", "fprint_bits", "concat_str", "string_drop"} -> "u"
      [] f \in {"neg_real", "mult_real", "sub_real", "add_real", "div_real", "abs_real",
                "to_real", "real_of_string", "real_power", "sqrt_real"} -> "z"
      [] OTHER -> "r"

\* The values a destination may hold from before.
LeftOver(d) ==
    CASE d = "r" -> {[len |-> 0, bits |-> 0], [len |-> 2, bits |-> 3]}
      [] d = "i" -> {0, -1}
      [] d = "u" -> {<<1>>}
      [] d = "z" -> {[num |-> 0, den |-> 1], [num |-> 3, den |-> 2]}
      [] d = "b" -> {TRUE}

-----------------------------------------------------------------------------
(* What the asserts of lib/sail.c, the types of lib/*.sail and those of the *)
(* compiler say of the operands.                                           *)

\* The operands that a function with a bitvector result reads.
Reads(f) ==
    CASE f \in {"CREATE_lbits", "RECREATE_lbits"} -> {}
      [] f = "zeros" -> {"n"}
      [] f = "get_slice_int" -> {"n", "k", "j"}
      [] f \in {"append_64", "add_bits_int", "sub_bits_int", "zero_extend", "sign_extend",
                "sail_truncate", "sail_truncateLSB", "replicate_bits", "fast_replicate_bits",
                "shiftl", "shiftr"} -> {"x", "n"}
      [] f \in {"vector_subrange_lbits", "slice", "sslice", "inline_vector_subrange",
                "inline_slice"} -> {"x", "n", "k"}
      [] f = "set_slice" -> {"x", "y", "n"}
      [] f = "vector_update_subrange_lbits" -> {"x", "y", "n", "k"}
      [] f \in {"add_bits", "sub_bits", "and_bits", "or_bits", "xor_bits", "mult_vec",
                "mults_vec", "append", "shift_bits_left", "shift_bits_right",
                "shift_bits_right_arith", "append_sf", "append_fs", "append_ss", "xor_sbits",
                "inline_and", "inline_or", "inline_append"} -> {"x", "y"}
      [] OTHER -> {"x"}

\* The bits are those of a natural number below 2^len.
IsNormal(v) == v \in [len : Nat, bits : Nat] /\ v.bits < exp2[v.len]

Integers == {"n", "k", "j", "i"}

Typed(f, a) ==
    /\ f \in MemFunctions \cup BitValues => Reads(f) \subseteq DOMAIN a
    /\ \A v \in DOMAIN a \cap BitSlots : IsNormal(a[v])
    /\ \A v \in DOMAIN a \cap Integers : a[v] \in Int
    /\ f \in {"sub_bits", "and_bits", "or_bits", "xor_bits", "xor_sbits", "inline_or"} =>
           a.x.len = a.y.len
    /\ f = "append_64" => a.n \in 0..(Word - 1)
    /\ f \in {"zero_extend", "sign_extend"} => a.x.len <= ui(a.n)
    /\ f \in {"sail_truncate", "sail_truncateLSB"} => ui(a.n) <= a.x.len
    /\ f = "slice" => ui(a.n) + ui(a.k) <= a.x.len
    /\ f \in {"vector_subrange_lbits", "vector_update_subrange_lbits"} => ui(a.k) <= ui(a.n) + 1
    /\ f = "inline_vector_subrange" => a.k <= a.n + 1
    /\ f \in {"sslice", "inline_slice"} => a.k \in Nat
    /\ f = "inline_not_bits" => a.x.len <= WordBits
    /\ f = "fast_replicate_bits" => a.n >= 1
    /\ f = "vector_update_subrange_lbits" => ui(a.n) < a.x.len
    /\ f = "set_slice" => ui(a.n) + a.y.len <= a.x.len
    /\ f = "reverse_endianness" => a.x.len % ByteBits = 0
    \* shift_bits_right_arith is only right for a shift of at most the length.
    /\ f = "shift_bits_right_arith" => ui(a.y.bits) <= a.x.len
    \* llabs has no result for the least 64-bit integer.
    /\ f = "real_power" => /\ {"p", "n"} \subseteq DOMAIN a /\ a.p \in Rational
                           /\ abs(a.n) < exp2[WordBits - 1]

\* A result goes to a variable of its type.
ASSUME OperandAssumption ==
    /\ \A f \in DOMAIN Operands : \A a \in Operands[f] : Typed(f, a)
    /\ \A f \in DOMAIN Operands : Dest(f) \in BitSlots <=> f \in MemFunctions \cup BitValues
    /\ \A p \in InPlace : /\ p[2] \in BitSlots <=> p[1] \in MemFunctions \cup BitValues
                          /\ p[1] = "append_64" => p[2] = "x"

-----------------------------------------------------------------------------
\* The meaning of a memory: a bitvector is the list of its bits.
ListOfBits(v) == [i \in 1..v.len |-> tstbit(v.bits, v.len - i)]
Meaning(m) == [v \in DOMAIN m |-> IF v \in BitSlots THEN ListOfBits(m[v]) ELSE m[v]]

Values == INSTANCE SailValues WITH
    val <- Meaning(mem),
    call <- IF call = NoCall THEN NoCall ELSE [call EXCEPT !.args = Meaning(@)]

\* A variable that is assigned has the length of the result; the compiler
\* itself writes a long literal word by word to one variable (append_64).
WellTyped(f, d, args) ==
    IF d \notin BitSlots \/ f = "append_64" THEN TRUE
    ELSE Len(Values!Result(f, Meaning(args))) = args[d].len

Init ==
    /\ \E f \in DOMAIN Operands : \E args \in Operands[f] :
        \/ \E v \in LeftOver(Dest(f)) :
              /\ f # "append_64"
              /\ mem = [s \in DOMAIN args \cup {Dest(f)} |-> IF s \in DOMAIN args THEN args[s] ELSE v]
              /\ call = [f |-> f, d |-> Dest(f), args |-> args]
        \/ \E d \in DOMAIN args :
              /\ <<f, d>> \in InPlace
              /\ WellTyped(f, d, args)
              /\ mem = args
              /\ call = [f |-> f, d |-> d, args |-> args]
    /\ loop = NoLoop

Finish(m) == mem' = m /\ call' = NoCall /\ loop' = NoLoop

\* A function without a loop that is modelled step by step.
CallValue ==
    /\ call # NoCall
    /\ call.f \notin MemFunctions \cup {"real_power", "sqrt_real"}
    /\ Finish([mem EXCEPT ![call.d] = Value(call.f, mem)])

CallMem ==
    /\ call # NoCall
    /\ call.f \in MemFunctions
    /\ Finish(Written(call.f, mem, call.d))

\* real_power sets rop to one, then copies the base and takes the exponent.
PowerStart ==
    /\ call # NoCall /\ call.f = "real_power" /\ loop = NoLoop
    /\ mem' = [mem EXCEPT ![call.d] = mpq(1, 1)]
    /\ loop' = [b |-> mem'.p, pexp |-> abs_int(get_si(WordBits, mem.n))]
    /\ UNCHANGED call

InPower == call # NoCall /\ call.f = "real_power" /\ loop # NoLoop

PowerOdd ==
    /\ InPower /\ loop.pexp % 2 = 1
    /\ mem' = [mem EXCEPT ![call.d] = mpq_mul(@, loop.b)]
    /\ loop' = [loop EXCEPT !.pexp = @ - 1]
    /\ UNCHANGED call

(* Mutant: the base is not squared when the exponent is halved. *)
MutPowerEven ==
    /\ InPower /\ loop.pexp # 0 /\ loop.pexp % 2 = 0
    /\ loop' = [loop EXCEPT !.pexp = @ \div 2]
    /\ UNCHANGED <<mem, call>>

PowerEven ==
    /\ InPower /\ loop.pexp # 0 /\ loop.pexp % 2 = 0
    /\ loop' = [b |-> mpq_mul(loop.b, loop.b), pexp |-> loop.pexp \div 2]
    /\ UNCHANGED <<mem, call>>

PowerEnd ==
    /\ InPower /\ loop.pexp = 0
    /\ Finish([mem EXCEPT ![call.d] = IF get_si(WordBits, mem.n) < 0 THEN mpq_inv(@) ELSE @])

SqrtStart ==
    /\ call # NoCall /\ call.f = "sqrt_real" /\ loop = NoLoop
    /\ IF is_perfect_square(mem.p)
       THEN Finish([mem EXCEPT ![call.d] = exact_sqrt(mem.p)])
       ELSE loop' = [p |-> initial_guess(mem.p)] /\ UNCHANGED <<mem, call>>

(* Mutant: the estimates are not swapped at the end of an iteration. *)
MutSqrtStep ==
    /\ call # NoCall /\ call.f = "sqrt_real" /\ loop # NoLoop
    /\ LET n == next_estimate(mem.p, loop.p)
       IN  IF is_close(loop.p, n)
           THEN Finish([mem EXCEPT ![call.d] = n])
           ELSE UNCHANGED vars

\* The estimate is the answer when it is close to the one before.
SqrtStep ==
    /\ call # NoCall /\ call.f = "sqrt_real" /\ loop # NoLoop
    /\ LET n == next_estimate(mem.p, loop.p)
       IN  IF is_close(loop.p, n)
           THEN Finish([mem EXCEPT ![call.d] = n])
           ELSE loop' = [p |-> n] /\ UNCHANGED <<mem, call>>

\* The program goes on after the call.
Returned == call = NoCall /\ UNCHANGED vars

Next ==
    \/ CallValue \/ CallMem
    \/ PowerStart \/ PowerOdd \/ PowerEven \/ PowerEnd
    \/ SqrtStart \/ SqrtStep
    \/ Returned

\* A call is a sequence of instructions of one process, which keeps running.
Spec == Init /\ [][Next]_vars /\ WF_vars(Next)

-----------------------------------------------------------------------------
(* Properties. *)

\* Every bitvector is in normal form: its bits are those of a natural number
\* below 2^len (`Normal form of bv_t is always positive', sail_unsigned).
\* The functions that compare, append, shift and print rely on it.
NormalForm ==
    \A v \in DOMAIN mem \cap BitSlots : IsNormal(mem[v])

\* The loop of real_power: rop times b to the power pexp is the base to the
\* power of the absolute value of the exponent, at each iteration.
Power(v, e) ==
    LET p[k \in Nat] == IF k = 0 THEN mpq(1, 1) ELSE mpq_mul(v, p[k - 1]) IN p[e]
PowerInvariant ==
    InPower => mpq_mul(mem[call.d], Power(loop.b, loop.pexp))
               = Power(call.args.p, abs_int(call.args.n))

\* The result of real_power goes to another variable than its operands: it
\* is written before the operands are read.
PowerApart == \A p \in InPlace : p[1] = "real_power" => p[2] \notin {"p", "n"}

\* Every call returns: the loops of real_power and sqrt_real end.
EveryCallReturns == <>(call = NoCall)

\* A call returns what the OCaml run time library computes from the operands
\* at the call, and changes no variable but its destination.
RefinesSailLib == Values!Spec
=============================================================================
