------------------------------ MODULE SailAnf ------------------------------
(***************************************************************************)
(* The ANF expressions the C back end compiles (src/src/anf.ml) and their  *)
(* meaning, which is the meaning src/src/interpreter.ml gives to the Sail  *)
(* expressions they come from.                                             *)
(*                                                                         *)
(* A value is 0 or 1, whatever its type: the properties distinguish the    *)
(* ways control leaves an expression and the order of the calls it makes,  *)
(* not arithmetic.  A call to another function is an observable event, and *)
(* what it answers is taken from a list of answers: a value, or an         *)
(* exception if the function has the "escape" effect.                      *)
(***************************************************************************)
EXTENDS Answers

AE_val(x)              == [k |-> "val", x |-> x]
AE_lit(n)              == [k |-> "lit", n |-> n]
AE_app(f, x)           == [k |-> "app", f |-> f, x |-> x]
AE_let(x, ty, e, body) == [k |-> "let", x |-> x, ty |-> ty, e |-> e, body |-> body]
AE_assign(x, e)        == [k |-> "assign", x |-> x, e |-> e]
AE_block(e, last)      == [k |-> "block", e |-> e, last |-> last]
AE_if(x, e1, e2)       == [k |-> "if", x |-> x, e1 |-> e1, e2 |-> e2]
AE_and(x, e)           == [k |-> "and", x |-> x, e |-> e]
AE_or(x, e)            == [k |-> "or", x |-> x, e |-> e]
AE_while(c, e)         == [k |-> "while", c |-> c, e |-> e]
AE_until(c, e)         == [k |-> "until", c |-> c, e |-> e]
AE_for(x, from, to, step, e) ==
    [k |-> "for", x |-> x, from |-> from, to |-> to, step |-> step, e |-> e]
AE_return(x)           == [k |-> "return", x |-> x]
AE_throw(c, x)         == [k |-> "throw", c |-> c, x |-> x]

(* A case of a match or of a catch: a pattern, a guard and a body.  The    *)
(* pattern binds y, and in a catch first tests the constructor; a case     *)
(* with pattern "_" binds nothing.  A guard without code is the literal    *)
(* true.                                                                   *)
Wild        == <<"_">>
Bind(y)     == <<"id", y>>
Ctor(c, y)  == <<"app", c, y>>
NoGuard     == [k |-> "true"]
Case(pat, guard, body) == [pat |-> pat, guard |-> guard, body |-> body]

AE_case(x, ty, cases)  == [k |-> "case", x |-> x, ty |-> ty, cases |-> cases]
AE_try(ty, e, cases)   == [k |-> "try", ty |-> ty, e |-> e, cases |-> cases]

-----------------------------------------------------------------------------
(* Two more results of an evaluation. *)
Return(v) == <<"return", v>>
Cut       == <<"cut">>              \* the list of answers ends here

(* An evaluation state: the values of the variables and the calls so far.  *)
(* An evaluation yields such a state and the result r.                     *)
Res(st, r) == [env |-> st.env, tr |-> st.tr, r |-> r]
St(res)    == [env |-> res.env, tr |-> res.tr]
Set(st, x, v) == [st EXCEPT !.env = With(@, x, v)]

Matches(pat, v) ==
    \/ pat[1] # "app"
    \/ pat[2] = v[2]

Bound(st, pat, v) ==
    CASE pat[1] = "_"   -> st
      [] pat[1] = "id"  -> Set(st, pat[2], v)
      [] pat[1] = "app" -> Set(st, pat[3], v[3])

RECURSIVE Eval(_, _, _), EvalCases(_, _, _, _)

(* Evaluate e, and continue with K when it yields a value. *)
Then(e, st, answers, K(_, _)) ==
    LET res == Eval(e, st, answers)
    IN  IF res.r[1] = "val" THEN K(St(res), res.r[2]) ELSE res

EvalCall(f, v, st, answers) ==
    IF Len(st.tr) = Len(answers)
    THEN Res(st, Cut)
    ELSE LET a == answers[Len(st.tr) + 1]
         IN  Res([st EXCEPT !.tr = Append(@, Event(f, v, a))], a)

EvalFor(e, i, to, step, st, answers) ==
    LET RECURSIVE Iterate(_, _)
        Iterate(s, n) == IF n > to THEN Res(s, Val(0))
                         ELSE Then(e.e, Set(s, e.x, n), answers,
                                   LAMBDA s1, u : Iterate(s1, n + step))
    IN  Iterate(st, i)

(* The first case whose pattern matches v and whose guard is true. *)
EvalCases(cases, v, st, answers) ==
    IF cases = <<>> THEN Res(st, Stuck)
    ELSE LET c    == Head(cases)
             rest(s) == EvalCases(Tail(cases), v, s, answers)
         IN  CASE ~Matches(c.pat, v) -> rest(st)
               [] Matches(c.pat, v) /\ c.guard.k = "true" ->
                    Eval(c.body, Bound(st, c.pat, v), answers)
               [] OTHER ->
                    Then(c.guard, Bound(st, c.pat, v), answers,
                         LAMBDA s, g : IF g = 1 THEN Eval(c.body, s, answers)
                                                ELSE rest(s))

Eval(e, st, answers) ==
    CASE e.k = "val"    -> Res(st, Val(st.env[e.x]))
      [] e.k = "lit"    -> Res(st, Val(e.n))
      [] e.k = "app"    -> EvalCall(e.f, st.env[e.x], st, answers)
      [] e.k = "let"    -> Then(e.e, st, answers,
                                LAMBDA s, v : Eval(e.body, Set(s, e.x, v), answers))
      [] e.k = "assign" -> Then(e.e, st, answers,
                                LAMBDA s, v : Res(Set(s, e.x, v), Val(0)))
      [] e.k = "block"  -> Then(e.e, st, answers,
                                LAMBDA s, v : Eval(e.last, s, answers))
      [] e.k = "if"     -> Eval(IF st.env[e.x] = 1 THEN e.e1 ELSE e.e2, st, answers)
      [] e.k = "and"    -> IF st.env[e.x] = 1 THEN Eval(e.e, st, answers)
                                              ELSE Res(st, Val(0))
      [] e.k = "or"     -> IF st.env[e.x] = 1 THEN Res(st, Val(1))
                                              ELSE Eval(e.e, st, answers)
      [] e.k = "while"  -> Then(e.c, st, answers, LAMBDA s, v :
                                IF v = 1 THEN Then(e.e, s, answers,
                                                   LAMBDA s1, u : Eval(e, s1, answers))
                                         ELSE Res(s, Val(0)))
      [] e.k = "until"  -> Then(e.e, st, answers, LAMBDA s, u :
                                Then(e.c, s, answers, LAMBDA s1, v :
                                     IF v = 1 THEN Res(s1, Val(0))
                                              ELSE Eval(e, s1, answers)))
      [] e.k = "for"    -> Then(e.step, st, answers, LAMBDA s1, step :
                                Then(e.to, s1, answers, LAMBDA s2, to :
                                     Then(e.from, s2, answers, LAMBDA s3, from :
                                          EvalFor(e, from, to, step, s3, answers))))
      [] e.k = "return" -> Res(st, Return(st.env[e.x]))
      [] e.k = "throw"  -> Res(st, Exn(e.c, st.env[e.x]))
      [] e.k = "case"   -> EvalCases(e.cases, st.env[e.x], st, answers)
      [] e.k = "try"    ->
           LET res == Eval(e.e, st, answers)
           IN  IF res.r[1] = "exn" THEN EvalCases(e.cases, res.r, St(res), answers)
                                   ELSE res

(* What a call of a function with this body does: a value returned early   *)
(* and the value of the body are the same to the caller.                   *)
Run(body, env, answers) ==
    LET res == Eval(body, [env |-> env, tr |-> <<>>], answers)
    IN  [tr |-> res.tr,
         r  |-> IF res.r[1] = "return" THEN Val(res.r[2]) ELSE res.r]
=============================================================================
