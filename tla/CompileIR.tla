----------------------------- MODULE CompileIR -----------------------------
(***************************************************************************)
(* The C back end's compilation of one function body: compile_aexp, which  *)
(* turns an ANF expression into IR, and the passes compile_def applies to  *)
(* the result: fix_early_return or fix_early_stack_return, and             *)
(* fix_exception (src/src/c_backend.ml, section 4).                        *)
(*                                                                         *)
(* gensym () and label () return a fresh name; here a fresh name carries   *)
(* the path p of the expression it is made for.                            *)
(***************************************************************************)
EXTENDS SailAnf, Bytecode, SequencesExt

gensym(p, n)  == <<"gs", p, n>>
label(str, p) == <<str, p>>

-----------------------------------------------------------------------------
(* An aval, as compile_aval leaves it: the code before its use, the cval   *)
(* and the code after it.  A literal integer is copied to the heap.        *)
compile_aval(p, ctx, a) ==
    IF a.k = "lit"
    THEN LET gs == gensym(p, 9)
         IN  [s |-> <<iinit("int", gs, F_lit(a.n, "int64"))>>, cv |-> F_id(gs, "int"),
              k |-> <<iclear("int", gs)>>]
    ELSE [s |-> <<>>, cv |-> F_id(a.x, ctx[a.x]), k |-> <<>>]

(* Mutant: the converted result is not cleared.                            *)
MutKeepConverted(p, ctx, f, x, cl) ==
    LET gs == gensym(p, 2)
        arg == F_id(x, "int")
    IN  [s |-> <<>>,
         c |-> IF cl.ty = f.ret
               THEN ifuncall(cl, f, arg)
               ELSE iblock(<<idecl(f.ret, gs), ifuncall(CL_id(gs, f.ret), f, arg),
                             icopy(cl, F_id(gs, f.ret))>>),
         k |-> <<>>]

(* All functions take one argument of type "int": an argument of another   *)
(* ctyp is converted into a fresh variable, and so is a result that the    *)
(* context wants in another ctyp.                                          *)
compile_funcall(p, ctx, f, x, cl) ==
    LET conv == ctx[x] # "int"
        arg  == IF conv THEN F_id(gensym(p, 1), "int") ELSE F_id(x, "int")
        gs   == gensym(p, 2)
    IN  [s |-> IF conv THEN <<iinit("int", gensym(p, 1), F_id(x, ctx[x]))>> ELSE <<>>,
         c |-> IF cl.ty = f.ret
               THEN ifuncall(cl, f, arg)
               ELSE iblock(<<idecl(f.ret, gs), ifuncall(CL_id(gs, f.ret), f, arg),
                             icopy(cl, F_id(gs, f.ret)), iclear(f.ret, gs)>>),
         k |-> IF conv THEN <<iclear("int", gensym(p, 1))>> ELSE <<>>]

(* Destructuring: the tests and copies of a pattern, their cleanup and the *)
(* types of the variables it binds.                                        *)
compile_match(ctx, pat, cv, case_label) ==
    CASE pat[1] = "_" -> [s |-> <<>>, k |-> <<>>, ctx |-> ctx]
      [] pat[1] = "id" ->
           [s |-> <<idecl(cv.ty, pat[2]), icopy(CL_id(pat[2], cv.ty), cv)>>,
            k |-> <<iclear(cv.ty, pat[2])>>, ctx |-> With(ctx, pat[2], cv.ty)]
      [] pat[1] = "app" ->
           [s |-> <<ijump(F_kind_ne(pat[2]), case_label),
                    idecl("int", pat[3]), icopy(CL_id(pat[3], "int"), F_payload)>>,
            k |-> <<iclear("int", pat[3])>>, ctx |-> With(ctx, pat[3], "int")]

RECURSIVE compile_aexp(_, _, _, _)

(* Code that runs e and leaves its value in cl, cleaned up. *)
Inline(p, ctx, e, cl) ==
    LET b == compile_aexp(p, ctx, e, cl) IN b.s \o <<b.c>> \o b.k

(* One case of a match (fail is the code run when the guard is false) or   *)
(* of a catch.                                                             *)
compile_case(p, ctx, case, cv, cl, next, finish, fail(_, _)) ==
    LET m  == compile_match(ctx, case.pat, cv, next)
        gs == gensym(p, 3)
    IN  <<iblock(m.s
           \o (IF case.guard.k = "true" THEN <<>>
               ELSE LET g == compile_aexp(Append(p, 1), m.ctx, case.guard, CL_id(gs, "bool"))
                    IN  g.s \o <<idecl("bool", gs), g.c>> \o g.k
                        \o <<fail(F_not(F_id(gs, "bool")), m.k)>>)
           \o Inline(Append(p, 2), m.ctx, case.body, cl) \o m.k
           \o <<igoto(finish)>>),
          ilabel(next)>>

CompileCase(p, ctx, e, cl) ==
    LET gs     == gensym(p, 1)
        finish == label("finish_match_", p)
        Cases  == [i \in 1..Len(e.cases) |->
                     LET next == label("case_", Append(p, i))
                     IN  compile_case(Append(p, i), ctx, e.cases[i], F_id(e.x, ctx[e.x]),
                                      CL_id(gs, e.ty), next, finish,
                                      LAMBDA cv, k : iif(cv, k \o <<igoto(next)>>, <<>>))]
    IN  [s |-> <<idecl(e.ty, gs)>> \o FlattenSeq(Cases)
               \o <<imatch_failure, ilabel(finish)>>,
         c |-> icopy(cl, F_id(gs, e.ty)),
         k |-> <<iclear(e.ty, gs)>>]

(* After the last case of a catch: no case matched, or one has handled the *)
(* exception.                                                              *)
MutNoReset(handled) == <<imatch_failure, ilabel(handled)>>

Handled(handled) ==
    <<imatch_failure, ilabel(handled), icopy(CL_have_exception, F_lit(0, "bool"))>>

CompileTry(p, ctx, e, cl) ==
    LET gs      == gensym(p, 1)
        handled == label("handled_exception_", p)
        Cases   == [i \in 1..Len(e.cases) |->
                      LET next == label("try_", Append(p, i))
                      IN  compile_case(Append(p, i), ctx, e.cases[i], F_payload,
                                       CL_id(gs, e.ty), next, handled,
                                       LAMBDA cv, k : ijump(cv, next))]
    IN  [s |-> <<idecl(e.ty, gs),
                 itry_block(p, Inline(Append(p, 0), ctx, e.e, CL_id(gs, e.ty))),
                 ijump(F_not(F_have_exception), handled)>>
               \o FlattenSeq(Cases)
               \o Handled(handled),
         c |-> icopy(cl, F_id(gs, e.ty)),
         k |-> <<>>]

(* The boolean gs gets the literal when x decides, and the value of e      *)
(* otherwise.                                                              *)
CompileShortCircuit(p, ctx, e, cl) ==
    LET gs    == gensym(p, 1)
        right == Inline(Append(p, 1), ctx, e.e, CL_id(gs, "bool"))
        left(v) == <<icopy(CL_id(gs, "bool"), F_lit(v, "bool"))>>
    IN  [s |-> <<idecl("bool", gs),
                 IF e.k = "and" THEN iif(F_id(e.x, "bool"), right, left(0))
                                ELSE iif(F_id(e.x, "bool"), left(1), right)>>,
         c |-> icopy(cl, F_id(gs, "bool")),
         k |-> <<>>]

CompileLoop(p, ctx, e, cl) ==
    LET gs    == gensym(p, 1)
        unit  == gensym(p, 2)
        start == label(IF e.k = "while" THEN "while_" ELSE "repeat_", p)
        end   == label(IF e.k = "while" THEN "wend_" ELSE "until_", p)
        cond  == Inline(Append(p, 1), ctx, e.c, CL_id(gs, "bool"))
        body  == Inline(Append(p, 2), ctx, e.e, CL_id(unit, "unit"))
    IN  [s |-> <<idecl("bool", gs), idecl("unit", unit), ilabel(start),
                 iblock(IF e.k = "while"
                        THEN cond \o <<ijump(F_not(F_id(gs, "bool")), end)>>
                             \o body \o <<igoto(start)>>
                        ELSE body \o cond
                             \o <<ijump(F_id(gs, "bool"), end), igoto(start)>>),
                 ilabel(end)>>,
         c |-> icopy(cl, unit_fragment),
         k |-> <<>>]

(* foreach, increasing; the loop variables are of type int64. *)
CompileFor(p, ctx, e, cl) ==
    LET ctx1  == With(ctx, e.x, "int64")
        gs(n) == gensym(p, n)
        init(n, a) == <<idecl("int64", gs(n)),
                        iblock(Inline(Append(p, n), ctx1, a, CL_id(gs(n), "int64")))>>
        i     == F_id(e.x, "int64")
        start == label("for_start_", p)
        end   == label("for_end_", p)
    IN  [s |-> init(1, e.from) \o init(2, e.to) \o init(3, e.step) \o
               <<iblock(<<idecl("int64", e.x),
                          icopy(CL_id(e.x, "int64"), F_id(gs(1), "int64")),
                          idecl("unit", gs(4)),
                          iblock(<<ilabel(start), ijump(F_gt(i, F_id(gs(2), "int64")), end)>>
                                 \o Inline(Append(p, 4), ctx1, e.e, CL_id(gs(4), "unit"))
                                 \o <<icopy(CL_id(e.x, "int64"),
                                            F_plus(i, F_id(gs(3), "int64"))),
                                      igoto(start)>>),
                          ilabel(end)>>)>>,
         c |-> icopy(cl, unit_fragment),
         k |-> <<>>]

(* ret is the ctyp the function returns.                                   *)
CompileReturn(p, ctx, e, cl) ==
    LET ret == ctx[<<"ret">>]
        gs  == gensym(p, 1)
    IN  [s |-> IF ctx[e.x] = ret THEN <<ireturn(p, F_id(e.x, ret))>>
               ELSE <<idecl(ret, gs), icopy(CL_id(gs, ret), F_id(e.x, ctx[e.x])),
                      ireturn(p, F_id(gs, ret))>>,
         c |-> icomment,
         k |-> <<>>]

(* The ANF of a throw binds the exception, made by a call of its           *)
(* constructor, to a variable and throws that.                             *)
CompileThrow(p, ctx, e) ==
    LET gs == gensym(p, 1)
    IN  [s |-> <<idecl("exn", gs),
                 iblock(<<icopy(CL_id(gs, "exn"), F_exn(e.c, F_id(e.x, ctx[e.x])))>>),
                 ithrow(F_id(gs, "exn"))>>,
         c |-> icomment,
         k |-> <<iclear("exn", gs)>>]

(* The code before the value of e is there, the one instruction that puts  *)
(* it in cl, and the cleanup after that.  ctx gives the ctyps of the local *)
(* variables.                                                              *)
compile_aexp(p, ctx, e, cl) ==
    CASE e.k \in {"val", "lit"} ->
           LET a == compile_aval(p, ctx, e) IN [s |-> a.s, c |-> icopy(cl, a.cv), k |-> a.k]
      [] e.k = "app" -> compile_funcall(p, ctx, e.f, e.x, cl)
      [] e.k = "let" ->
           LET b == compile_aexp(Append(p, 2), With(ctx, e.x, e.ty), e.body, cl)
           IN  [b EXCEPT !.s = <<idecl(e.ty, e.x),
                                 iblock(Inline(Append(p, 1), ctx, e.e, CL_id(e.x, e.ty)))>> \o @,
                         !.k = @ \o <<iclear(e.ty, e.x)>>]
      [] e.k = "assign" ->
           LET b == compile_aexp(Append(p, 1), ctx, e.e, CL_id(e.x, ctx[e.x]))
           IN  [s |-> Append(b.s, b.c), c |-> icopy(cl, unit_fragment), k |-> b.k]
      [] e.k = "block" ->
           LET u == compile_aexp(Append(p, 1), ctx, e.e, CL_id(gensym(p, 1), "unit"))
               b == compile_aexp(Append(p, 2), ctx, e.last, cl)
           IN  [b EXCEPT !.s = <<iblock(u.s \o <<idecl("unit", gensym(p, 1)), u.c>> \o u.k)>> \o @]
      [] e.k = "if" ->
           [s |-> <<>>,
            c |-> iif(F_id(e.x, ctx[e.x]), Inline(Append(p, 1), ctx, e.e1, cl),
                                           Inline(Append(p, 2), ctx, e.e2, cl)),
            k |-> <<>>]
      [] e.k \in {"and", "or"} -> CompileShortCircuit(p, ctx, e, cl)
      [] e.k \in {"while", "until"} -> CompileLoop(p, ctx, e, cl)
      [] e.k = "for"    -> CompileFor(p, ctx, e, cl)
      [] e.k = "return" -> CompileReturn(p, ctx, e, cl)
      [] e.k = "throw"  -> CompileThrow(p, ctx, e)
      [] e.k = "case"   -> CompileCase(p, ctx, e, cl)
      [] e.k = "try"    -> CompileTry(p, ctx, e, cl)

-----------------------------------------------------------------------------
(* Mutants: initialised variables are forgotten; cleared ones are cleared  *)
(* again.                                                                  *)
MutOnlyInit(instrs) ==
    LET own == SelectSeq(instrs, LAMBDA i : i.op = "init" /\ ~is_stack_ctyp(i.ty))
    IN  [n \in 1..Len(own) |-> iclear(own[n].ty, own[n].x)]
MutClearTwice(instrs) ==
    LET own == SelectSeq(instrs, LAMBDA i : i.op \in {"init", "decl"} /\ ~is_stack_ctyp(i.ty))
    IN  [n \in 1..Len(own) |-> iclear(own[n].ty, own[n].x)]

(* Clears for the heap variables that instrs (the code run so far in the   *)
(* enclosing blocks) declares and does not clear.                          *)
generate_cleanup(instrs) ==
    LET cleaned == {instrs[i].x : i \in {j \in DOMAIN instrs : instrs[j].op = "clear"}}
        owned(i) == /\ i.op \in {"init", "decl"}
                    /\ ~is_stack_ctyp(i.ty)
                    /\ i.x \notin cleaned
        own == SelectSeq(instrs, owned)
    IN  [n \in 1..Len(own) |-> iclear(own[n].ty, own[n].x)]

(* The two early return passes.  They walk instrs with the code before it  *)
(* in historic, and enter blocks and conditionals, not try blocks.         *)
RECURSIVE rewrite_return(_, _, _)

(* Mutant: the cleanup jumps to its own start.                             *)
MutReturnLoops(ret, i, historic, after) ==
    <<icopy(CL_ret(ret), i.cv), igoto(label("cleanup_", i.p))>>
    \o rewrite_return(ret, historic, after)
    \o <<ilabel(label("cleanup_", i.p))>> \o generate_cleanup(historic)
    \o <<igoto(label("cleanup_", i.p))>>

(* A heap value is copied to the return location and control leaves        *)
(* through a cleanup of its own.                                           *)
HeapReturn(ret, i, historic, after) ==
    <<icopy(CL_ret(ret), i.cv), igoto(label("cleanup_", i.p))>>
    \o rewrite_return(ret, historic, after)
    \o <<igoto(label("end_cleanup_", i.p)), ilabel(label("cleanup_", i.p))>>
    \o generate_cleanup(historic)
    \o <<igoto(label("end_function_", <<>>)), ilabel(label("end_cleanup_", i.p))>>

(* Mutant: a return of a value that is not on the heap clears nothing.     *)
MutReturnAtOnce(ret, i, historic, after) == <<i>> \o rewrite_return(ret, historic, after)

(* A value that is not on the heap is returned after a cleanup.            *)
StackReturn(ret, i, historic, after) ==
    generate_cleanup(historic) \o <<i>> \o rewrite_return(ret, historic, after)

rewrite_return(ret, historic, instrs) ==
    IF instrs = <<>> THEN <<>>
    ELSE LET i     == Head(instrs)
             after == Tail(instrs)
         IN  CASE i.op = "block" ->
                    <<iblock(rewrite_return(ret, historic, i.is))>>
                    \o rewrite_return(ret, historic, after)
               [] i.op = "if" ->
                    <<iif(i.cv, rewrite_return(ret, historic, i.is1),
                                rewrite_return(ret, historic, i.is2))>>
                    \o rewrite_return(ret, historic, after)
               [] i.op = "return" -> IF is_stack_ctyp(ret)
                                     THEN StackReturn(ret, i, historic, after)
                                     ELSE HeapReturn(ret, i, historic, after)
               [] OTHER -> <<i>> \o rewrite_return(ret, Append(historic, i), after)

fix_early_return(ret, instrs) ==
    rewrite_return(ret, <<>>, instrs)
    \o (IF is_stack_ctyp(ret) THEN <<>> ELSE <<ilabel(label("end_function_", <<>>))>>)

(* A throw, and a call that may have thrown, becomes a jump to the end of  *)
(* the innermost try block or of the function, after the cleanup.          *)
RECURSIVE rewrite_exception(_, _, _)
rewrite_exception(end, historic, instrs) ==
    IF instrs = <<>> THEN <<>>
    ELSE LET i       == Head(instrs)
             after   == Tail(instrs)
             cleanup == generate_cleanup(historic) \o <<igoto(end)>>
         IN  CASE i.op = "block" ->
                    <<iblock(rewrite_exception(end, historic, i.is))>>
                    \o rewrite_exception(end, historic, after)
               [] i.op = "if" ->
                    <<iif(i.cv, rewrite_exception(end, historic, i.is1),
                                rewrite_exception(end, historic, i.is2))>>
                    \o rewrite_exception(end, historic, after)
               [] i.op = "throw" ->
                    <<icopy(CL_current_exception, i.cv),
                      icopy(CL_have_exception, F_lit(1, "bool"))>>
                    \o cleanup \o rewrite_exception(end, historic, after)
               [] i.op = "funcall" ->
                    <<i>> \o (IF i.f.escapes THEN <<iif(F_have_exception, cleanup, <<>>)>>
                                             ELSE <<>>)
                    \o rewrite_exception(end, historic, after)
               [] OTHER -> <<i>> \o rewrite_exception(end, Append(historic, i), after)

fix_exception_block(p, instrs) ==
    LET end == label("end_block_exception_", p)
    IN  rewrite_exception(end, <<>>, instrs) \o <<ilabel(end)>>

RECURSIVE fix_try_blocks(_)
fix_try_blocks(instrs) ==
    [n \in DOMAIN instrs |->
       LET i == instrs[n]
       IN  CASE i.op = "try" -> [i EXCEPT !.is = fix_exception_block(i.p, fix_try_blocks(@))]
             [] i.op = "block" -> [i EXCEPT !.is = fix_try_blocks(@)]
             [] i.op = "if" -> [i EXCEPT !.is1 = fix_try_blocks(@), !.is2 = fix_try_blocks(@)]
             [] OTHER -> i]

fix_exception(ret, instrs) ==
    fix_exception_block(<<0>>, fix_try_blocks(instrs))
    \o (IF is_stack_ctyp(ret) THEN <<iundefined(ret)>> ELSE <<>>)

(* compile_def, for a function with body e that returns ret.               *)
compile_def(ctx, ret, e) ==
    LET gs   == gensym(<<>>, 0)
        ctx1 == With(ctx, <<"ret">>, ret)
        instrs == IF is_stack_ctyp(ret)
                  THEN LET b == compile_aexp(<<1>>, ctx1, e, CL_id(gs, ret))
                       IN  <<idecl(ret, gs)>> \o b.s \o <<b.c>> \o b.k
                           \o <<ireturn(<<>>, F_id(gs, ret))>>
                  ELSE Inline(<<1>>, ctx1, e, CL_ret(ret))
    IN  fix_exception(ret, fix_early_return(ret, instrs))

-----------------------------------------------------------------------------
(* codegen_instr prints blocks and conditionals as C; this is the C as a   *)
(* list of statements: an "if" whose condition is false skips n of them,   *)
(* and "skip" jumps over the else branch.                                  *)
RECURSIVE Statements(_)
Statements(instrs) ==
    IF instrs = <<>> THEN <<>>
    ELSE LET i    == Head(instrs)
             rest == Statements(Tail(instrs))
         IN  CASE i.op \in {"block", "try"} -> Statements(i.is) \o rest
               [] i.op = "if" ->
                    LET s1 == Statements(i.is1)
                        s2 == Statements(i.is2)
                    IN  <<[op |-> "unless", cv |-> i.cv, n |-> Len(s1) + 2]>> \o s1
                        \o <<[op |-> "skip", n |-> Len(s2) + 1]>> \o s2 \o rest
               [] i.op \in {"clear"} /\ is_stack_ctyp(i.ty) -> rest
               [] i.op = "comment" -> rest
               [] OTHER -> <<i>> \o rest
=============================================================================
