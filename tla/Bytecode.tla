------------------------------ MODULE Bytecode ------------------------------
(***************************************************************************)
(* The instructions between ANF and C (language/bytecode.ott and           *)
(* src/src/bytecode_util.ml), and what they read and write.                *)
(***************************************************************************)
EXTENDS Answers

(* The other ctyps of the back end are stack or heap allocated in the same *)
(* way as these.                                                           *)
is_stack_ctyp(ty) == ty \notin {"int", "exn"}

(* clexp: where an instruction writes. *)
CL_id(x, ty)         == [k |-> "id", x |-> x, ty |-> ty]
CL_ret(ty)           == [k |-> "ret", ty |-> ty]   \* CL_addr of the heap return
CL_current_exception == [k |-> "exn", ty |-> "exn"]
CL_have_exception    == [k |-> "have", ty |-> "bool"]

(* cval: what an instruction reads. *)
F_id(x, ty)       == [k |-> "id", x |-> x, ty |-> ty]
F_lit(v, ty)      == [k |-> "lit", v |-> v, ty |-> ty]
F_payload         == [k |-> "payload", ty |-> "int"]    \* current_exception->ctor
F_kind_ne(c)      == [k |-> "kind", c |-> c, ty |-> "bool"]
F_have_exception  == [k |-> "have", ty |-> "bool"]
F_not(cv)         == [k |-> "not", of |-> cv, ty |-> "bool"]
F_gt(cv1, cv2)    == [k |-> "gt", of |-> cv1, by |-> cv2, ty |-> "bool"]
F_plus(cv1, cv2)  == [k |-> "plus", of |-> cv1, by |-> cv2, ty |-> "int64"]
F_exn(c, cv)      == [k |-> "ctor", c |-> c, of |-> cv, ty |-> "exn"]
unit_fragment     == F_lit(0, "unit")

(* The compiler applies the last four to variables and to the flag only,   *)
(* so a cval has at most two parts.                                        *)
Parts(cv) ==
    CASE cv.k \in {"not", "ctor"} -> {cv.of}
      [] cv.k \in {"gt", "plus"}  -> {cv.of, cv.by}
      [] OTHER -> {cv}

(* The variables a cval reads. *)
Reads(cv) == {part \in Parts(cv) : part.k = "id"}

(* Instructions. *)
idecl(ty, x)        == [op |-> "decl", ty |-> ty, x |-> x]
iinit(ty, x, cv)    == [op |-> "init", ty |-> ty, x |-> x, cv |-> cv]
ireset(ty, x)       == [op |-> "reset", ty |-> ty, x |-> x]
ireinit(ty, x, cv)  == [op |-> "reinit", ty |-> ty, x |-> x, cv |-> cv]
icopy(cl, cv)       == [op |-> "copy", cl |-> cl, cv |-> cv]
iclear(ty, x)       == [op |-> "clear", ty |-> ty, x |-> x]
ifuncall(cl, f, cv) == [op |-> "funcall", cl |-> cl, f |-> f, cv |-> cv]
ijump(cv, l)        == [op |-> "jump", cv |-> cv, l |-> l]
igoto(l)            == [op |-> "goto", l |-> l]
ilabel(l)           == [op |-> "label", l |-> l]
iif(cv, is1, is2)   == [op |-> "if", cv |-> cv, is1 |-> is1, is2 |-> is2]
iblock(is)          == [op |-> "block", is |-> is]
itry_block(p, is)   == [op |-> "try", p |-> p, is |-> is]
ireturn(p, cv)      == [op |-> "return", p |-> p, cv |-> cv]
ithrow(cv)          == [op |-> "throw", cv |-> cv]
iundefined(ty)      == [op |-> "undefined", ty |-> ty]
imatch_failure      == [op |-> "match_failure"]
icomment            == [op |-> "comment"]
=============================================================================
