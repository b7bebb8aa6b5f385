----------------------------- MODULE MCLibrary -----------------------------
(***************************************************************************)
(* Operands for the functions of the C run time library: every bitvector   *)
(* of at most MaxLen bits, small integers and the ends of the machine      *)
(* ones, within what the types of lib/*.sail allow.                        *)
(***************************************************************************)
EXTENDS Library

CONSTANT MaxLen

B(len) == [len : {len}, bits : 0..(2^len - 1)]
Bits == UNION {B(len) : len \in 0..MaxLen}
Ints == -5..6
Nats == 0..MaxLen
Reals == {mpq(a, b) : a \in -3..4, b \in {1, 2, 3}}
Strings == UNION {[1..l -> {1, 2}] : l \in 0..3}

X == [x : Bits]
XN == [x : Bits, n : Ints]
XY == [x : Bits, y : Bits]
SameLen == {a \in XY : a.x.len = a.y.len}
NK == [n : Ints, k : Ints]
PQ == [p : Reals, q : Reals]
ST == [s : Strings, t : Strings]

\* Words whose bytes differ, for the order of bytes.
ByteWords == UNION {B(len) : len \in {2, 4, 6, 8}} \cup
             [len : {16}, bits : {27, 6939, 14043, 58596, 45057}] \cup
             [len : {10}, bits : {27, 433, 868, 1023}]

Extend == {a \in [x : Bits, n : 0..(MaxLen + 2)] : a.n >= a.x.len}
Shorten == {a \in [x : Bits, n : Nats] : a.n <= a.x.len}
Subrange == {a \in [x : Bits, n : Nats, k : Nats] : a.k <= a.n /\ a.n < a.x.len}
Slice == {a \in [x : Bits, n : Nats, k : Nats] : a.n + a.k <= a.x.len}

\* Two vectors whose concatenation fills the word, or one of them empty.
WordXY == XY \cup [x : {[len |-> 0, bits |-> 0]}, y : [len : {WordBits}, bits : {0, 40961}]]
             \cup [x : [len : {3}, bits : {5, 7}], y : [len : {WordBits - 3}, bits : {0, 8191}]]

AnyXY == {"append", "shift_bits_left", "shift_bits_right"}
OneX == {"COPY_lbits", "CREATE_OF_lbits_fbits", "CREATE_OF_sbits_lbits",
         "CREATE_OF_lbits_sbits", "RECREATE_OF_lbits_fbits", "CONVERT_OF_fbits_lbits",
         "CONVERT_OF_lbits_fbits", "CONVERT_OF_lbits_sbits", "CONVERT_OF_sbits_lbits",
         "CREATE_lbits", "RECREATE_lbits", "not_bits", "inline_not_bits", "length_lbits",
         "sail_unsigned", "sail_signed", "fast_unsigned"}
EqualLengths == {"add_bits", "sub_bits", "and_bits", "or_bits", "xor_bits", "mult_vec",
                 "mults_vec", "eq_bits", "neq_bits", "eq_sbits", "neq_sbits", "xor_sbits",
                 "inline_and", "inline_or"}
TwoInts == {"add_int", "sub_int", "mult_int", "max_int", "min_int", "eq_int", "lt", "gt",
            "lteq", "gteq"}
TwoReals == {"mult_real", "sub_real", "add_real", "eq_real", "lt_real", "gt_real",
             "lteq_real", "gteq_real"}
OneReal == {"neg_real", "abs_real", "round_up", "round_down"}
Others == {"append_64", "append_sf", "append_fs", "append_ss", "inline_append",
           "add_bits_int", "sub_bits_int", "zeros", "zero_extend", "sign_extend",
           "sail_truncate", "sail_truncateLSB", "vector_subrange_lbits",
           "inline_vector_subrange", "bitvector_access", "inline_vector_access",
           "slice", "sslice", "inline_slice", "replicate_bits", "fast_replicate_bits",
           "get_slice_int", "set_slice_int", "set_slice", "vector_update_subrange_lbits",
           "shift_bits_right_arith", "shiftl", "shiftr", "reverse_endianness",
           "string_of_lbits", "fprint_bits", "mach_int_of_sail_int", "sail_int_of_mach_int",
           "shl_int", "shl_mach_int", "shr_int", "tdiv_int", "tmod_int", "neg_int", "abs_int",
           "pow_int", "pow2", "eq_string", "concat_str", "string_startswith",
           "string_length", "string_drop", "div_real", "to_real", "real_of_string",
           "real_power", "sqrt_real"}

MCOperands ==
  [f \in AnyXY \cup OneX \cup EqualLengths \cup TwoInts \cup TwoReals \cup OneReal \cup Others |->
    CASE f \in AnyXY -> XY
      [] f \in OneX -> X
      [] f \in EqualLengths -> SameLen
      [] f \in TwoInts -> NK
      [] f \in TwoReals -> PQ
      [] f \in OneReal -> [p : Reals]
      [] f = "append_64" -> [x : Bits, n : {0, 1, 40961}]
      [] f \in {"append_sf", "append_fs", "append_ss", "inline_append"} -> WordXY
      [] f \in {"add_bits_int", "sub_bits_int"} -> XN
      [] f = "zeros" -> [n : Nats]
      [] f \in {"zero_extend", "sign_extend"} -> Extend
      [] f \in {"sail_truncate", "sail_truncateLSB"} -> Shorten
      [] f \in {"vector_subrange_lbits", "inline_vector_subrange"} -> Subrange
      [] f \in {"bitvector_access", "inline_vector_access"} ->
             {a \in [x : Bits, n : Nats] : a.n < a.x.len}
      [] f \in {"slice", "sslice", "inline_slice"} -> Slice
      [] f = "replicate_bits" -> [x : Bits, n : 0..3]
      [] f = "fast_replicate_bits" -> [x : Bits, n : 1..4]
      [] f = "get_slice_int" -> [n : Nats, k : Ints, j : 0..3]
      [] f = "set_slice_int" -> [x : Bits, k : Ints, j : 0..3]
      [] f = "set_slice" -> {a \in [x : Bits, y : Bits, n : Nats] : a.n + a.y.len <= a.x.len}
      [] f = "vector_update_subrange_lbits" ->
             {[x |-> a.x, n |-> a.n, k |-> a.k, y |-> y] : a \in Subrange, y \in Bits}
      [] f = "shift_bits_right_arith" -> {a \in XY : a.x.len > 0 /\ a.y.bits <= a.x.len}
      [] f \in {"shiftl", "shiftr"} -> [x : Bits, n : 0..(MaxLen + 1)]
      [] f = "reverse_endianness" -> [x : ByteWords]
      [] f = "fprint_bits" -> [x : Bits \cup B(8)]
      [] f = "string_of_lbits" -> [x : UNION {B(len) : len \in (1..MaxLen) \cup {8}}]
      [] f = "mach_int_of_sail_int" ->
             [n : {-(2^(WordBits - 1)), -(2^(WordBits - 1)) + 1, 2^(WordBits - 1) - 1} \cup Ints]
      [] f = "sail_int_of_mach_int" -> [n : Ints]
      [] f \in {"shl_int", "shr_int"} -> [n : Ints, k : 0..4]
      [] f = "shl_mach_int" -> [n : {8, 32}, k : 0..3]
      [] f \in {"tdiv_int", "tmod_int"} -> {a \in NK : a.k # 0}
      [] f \in {"neg_int", "abs_int"} -> [n : Ints]
      [] f = "pow_int" -> [n : Ints, k : 0..4]
      [] f = "pow2" -> [n : 0..6]
      [] f \in {"eq_string", "concat_str", "string_startswith"} -> ST
      [] f = "string_length" -> [s : Strings]
      [] f = "string_drop" -> [s : Strings, n : 0..4]
      [] f = "div_real" -> {a \in PQ : a.q.num # 0}
      [] f = "to_real" -> [n : Ints]
      [] f = "real_of_string" -> [n : {0, 1, 12}, s : {<<0>>, <<5>>, <<2, 5>>, <<0, 4>>, <<1, 2, 5>>}]
      [] f = "real_power" -> {a \in [p : Reals, n : -5..6] : a.n < 0 => a.p.num # 0}
      [] f = "sqrt_real" ->
             [p : {mpq(a, 1) : a \in {0, 1, 2, 3, 4, 8, 9}}
                  \cup {mpq(a, 9) : a \in {3, 4, 5, 21, 30}}
                  \cup {mpq(1, 2), mpq(3, 2), mpq(3, 4), mpq(1, 5)}]]

\* The vectors whose lengths are those of the slice they update.
TypedOperands == [f \in DOMAIN MCOperands |->
    IF f = "vector_update_subrange_lbits"
    THEN {a \in MCOperands[f] : a.y.len = a.n - a.k + 1} ELSE MCOperands[f]]

\* An operand of these may be the destination (the others read it too late).
InPlaceBits ==
    {"append_64", "not_bits", "add_bits_int", "sub_bits_int", "zero_extend", "sign_extend",
     "sail_truncate", "sail_truncateLSB", "vector_subrange_lbits", "append", "set_slice",
     "vector_update_subrange_lbits", "shiftl", "shiftr"} \X {"x"}
InPlaceBoth ==
    {"add_bits", "sub_bits", "and_bits", "or_bits", "xor_bits", "mult_vec", "mults_vec",
     "shift_bits_left", "shift_bits_right"} \X {"x", "y"}
InPlaceNumbers == ({"add_int", "sub_int", "mult_int", "max_int", "min_int", "shl_int", "shr_int", "tdiv_int", "tmod_int", "neg_int",
                                 "abs_int", "pow_int", "pow2"}) \X {"n", "k"}
                  \cup {"mult_real", "sub_real", "add_real", "div_real", "neg_real", "abs_real",
                        "sqrt_real"} \X {"p", "q"}
SafeInPlace == InPlaceBits \cup InPlaceBoth \cup InPlaceNumbers

PowerInPlace == {<<"real_power", "p">>}
=============================================================================
