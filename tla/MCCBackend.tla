----------------------------- MODULE MCCBackend -----------------------------
(***************************************************************************)
(* The programs TLC compiles and runs: every nesting, up to a depth, of    *)
(* the constructs of ANF around a call, a throw, a return or a variable.   *)
(***************************************************************************)
EXTENDS CBackend

CONSTANTS
    Depth,      \* how many constructs are nested
    Constructs, \* the ones used
    Returns,    \* the types of the functions
    Optimised   \* whether the programs are those of -O too

(* A function that may throw, and one that may not, for each type. *)
May(ty)   == Func(ty, TRUE)
Never(ty) == Func(ty, FALSE)

(* Names are unique within a program: x(d) is bound at depth d. *)
x(d) == <<"x", d>>
c(d) == <<"c", d>>

(* match m { y => { e; m = y } } *)
Rebind(m, y, e) ==
    AE_case(m, "unit", <<Case(Bind(y), NoGuard, AE_block(e, AE_assign(m, AE_val(y))))>>)

(* Where an expression stands: the type it has, a variable of type int it  *)
(* may use, and in w the type the function returns, the constructs it may  *)
(* not use and the variables it may assign to.                             *)
Leaves(ty, v, w) ==
    {AE_app(Never(ty), v)}
    \cup (IF "may_in_handler" \in w.without THEN {} ELSE {AE_app(May(ty), v)})
    \cup (IF ty = "int" THEN {AE_val(v), AE_lit(1)} ELSE {})
    \cup (IF {"return_in_try", "return_in_handler"} \cap w.without # {} THEN {}
          ELSE {AE_return(IF w.ret = "unit" THEN UnitArgument ELSE v)})
    \cup {AE_throw("E1", v)}
    \cup {AE_app(Never(ty), m) : m \in w.mut \ {v}}
    \cup (IF ty = "unit" THEN {AE_assign(m, AE_val(v)) : m \in w.mut \ {v}}
                              \cup {Rebind(m, c(0), AE_app(Never("unit"), c(0))) : m \in w.mut}
          ELSE {})

RECURSIVE Exprs(_, _, _, _)

(* The expressions of type ty that put e, from Exprs(d - 1, ..), in one    *)
(* place of one construct.                                                 *)
Around(k, d, ty, v, w) ==
    LET y    == x(d)
        b    == c(d)
        call == IF "may_in_handler" \in w.without THEN Never(ty) ELSE May(ty)
        test(u, e) == AE_let(b, "bool", AE_app(Never("bool"), u), e)
        E(t, u) == Exprs(d - 1, t, u, w)
        InTry(t, u) == Exprs(d - 1, t, u, [w EXCEPT !.without = @ \cup
                              ({"return_in_try"} \ Constructs)])
        InHandler(t, u) == Exprs(d - 1, t, u, [w EXCEPT !.without = @ \cup
                              ({"may_in_handler", "return_in_handler"} \ Constructs)])
        try_allowed == /\ is_stack_ctyp(ty) \/ "heap_try" \in Constructs
                       /\ "may_in_handler" \notin w.without
    IN  CASE k = "let"    -> {AE_let(y, t, e, AE_app(Never(ty), y)) :
                                 t \in {"int", "int64"}, e \in E("int", v)}
          [] k = "body"   -> {AE_let(y, "int", AE_app(call, v), e) : e \in E(ty, y)}
          [] k = "if"     -> {test(v, AE_if(b, e, AE_app(Never(ty), v))) : e \in E(ty, v)}
          [] k = "block"  -> {AE_block(e, AE_app(Never(ty), v)) : e \in E("unit", v)}
                             \cup {AE_block(AE_app(Never("unit"), v), e) : e \in E(ty, v)}
          [] k = "assign" -> {AE_let(y, "int", AE_lit(0),
                                     AE_block(AE_assign(y, e), AE_app(Never(ty), y))) :
                                 e \in E("int", v)}
          [] k = "update" -> {AE_let(y, "int", AE_app(Never("int"), v),
                                     AE_block(AE_assign(y, e), AE_app(Never(ty), y))) :
                                 e \in Exprs(d - 1, "int", v, [w EXCEPT !.mut = {y}])}
          [] k = "keep"   -> IF ty # "int" THEN {}
                             ELSE {AE_let(y, "int", AE_app(Never("int"), v),
                                          AE_block(e, AE_val(y))) :
                                      e \in IF "use_under_keep" \in Constructs THEN E("unit", v)
                                            ELSE Exprs(d - 1, "unit", v, [w EXCEPT !.mut = {}])}
          [] k = "restore" -> IF ty # "unit" THEN {}
                              ELSE {AE_case(m, "unit", <<Case(Bind(y), NoGuard,
                                       AE_let(b, "int", AE_app(Never("int"), v),
                                              AE_block(AE_app(Never("unit"), b),
                                                       AE_assign(m, AE_val(y)))))>>) :
                                      m \in w.mut}
          [] k = "store"  -> {AE_let(y, "int", AE_lit(1), AE_block(e, AE_app(Never(ty), y))) :
                                 e \in Exprs(d - 1, "unit", v, [w EXCEPT !.mut = {y}])}
          [] k = "case"   -> {AE_case(v, ty, <<Case(Bind(y), AE_app(Never("bool"), y), e),
                                               Case(Bind(y), NoGuard, AE_app(Never(ty), y))>>) :
                                 e \in IF "guarded_store" \in Constructs THEN E(ty, y)
                                       ELSE Exprs(d - 1, ty, y, [w EXCEPT !.mut = {}])}
          [] k = "guard"  -> {AE_case(v, ty, <<Case(Bind(y), e, AE_app(Never(ty), y))>>) :
                                 e \in E("bool", y)}
          [] k = "and"    -> IF ty = "bool" THEN {test(v, AE_and(b, e)) : e \in E(ty, v)} ELSE {}
          [] k = "or"     -> IF ty = "bool" THEN {test(v, AE_or(b, e)) : e \in E(ty, v)} ELSE {}
          [] k = "while"  -> IF ty # "unit" THEN {}
                             ELSE {AE_while(AE_app(Never("bool"), v), e) : e \in E(ty, v)}
                                  \cup {AE_while(e, AE_app(Never(ty), v)) : e \in E("bool", v)}
          [] k = "until"  -> IF ty # "unit" THEN {}
                             ELSE {AE_until(AE_app(Never("bool"), v), e) : e \in E(ty, v)}
          [] k = "for"    -> IF ty # "unit" THEN {}
                             ELSE {AE_for(y, AE_lit(0), AE_app(call, v), AE_lit(1), e) :
                                      e \in {AE_block(AE_app(Never("unit"), y), f) : f \in E(ty, v)}}
          [] k = "try"    -> IF ~try_allowed THEN {}
                             ELSE {AE_try(ty, e, <<Case(Ctor("E1", y), NoGuard, AE_app(Never(ty), y)),
                                                   Case(Wild, AE_app(Never("bool"), v),
                                                        AE_app(Never(ty), v))>>) :
                                      e \in InTry(ty, v)}
          [] k = "catch"  -> IF ~try_allowed THEN {}
                             ELSE {AE_try(ty, AE_app(May(ty), v),
                                          <<Case(Ctor("E1", y), NoGuard, e)>>) :
                                      e \in InHandler(ty, y)}
          [] OTHER -> {}

Exprs(d, ty, v, w) ==
    IF d = 0 THEN Leaves(ty, v, w)
    ELSE UNION {Around(k, d, ty, v, w) : k \in Constructs}

(* Without -O, with it, and with it in a recursive function, whose         *)
(* variables are not hoisted.                                              *)
Passes == IF Optimised THEN {{}, {"alias"}, {"alias", "hoist"}} ELSE {{}}

AllPrograms ==
    LET bodies(ty) == Exprs(Depth, ty, Argument, [ret |-> ty, without |-> {}, mut |-> {}])
    IN  UNION {[ret : {ty}, body : bodies(ty), passes : Passes] : ty \in Returns}
=============================================================================
