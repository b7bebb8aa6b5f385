------------------------------ MODULE CBackend ------------------------------
(***************************************************************************)
(* The C back end on whole functions: the C that it generates for a Sail   *)
(* function does what the Sail function does.                              *)
(***************************************************************************)
EXTENDS OptimizeIR, GeneratedC, FiniteSets

(* A program is a function [ret |-> ctyp, body |-> ANF expression,         *)
(* passes |-> optimisations, of "alias" and "hoist"].                      *)
ASSUME PassesAssumption == \A p \in Programs : p.passes \subseteq {"alias", "hoist"}

ArgTypes == [x \in DOMAIN Args |-> IF x = Argument THEN "int" ELSE "unit"]

Compiled(p) == Statements(optimize(p.passes, compile_def(ArgTypes, p.ret, p.body)))

-----------------------------------------------------------------------------
(* What the caller sees: an exception if the flag is set, and otherwise    *)
(* the value returned, through the heap location or the return statement.  *)
Outcome ==
    IF Exited THEN Stuck
    ELSE IF have_exception THEN current_exception
    ELSE IF is_stack_ctyp(prog.ret) THEN retval
    ELSE IF <<"ret">> \in DOMAIN store THEN Val(store[<<"ret">>]) ELSE NoValue

(* The generated C makes the calls the Sail function makes, in the same    *)
(* order and with the same arguments, and ends the same way with the same  *)
(* value or exception, or is about to make one more call when the Sail     *)
(* function is.                                                            *)
SailOutcome ==
    Over =>
        LET answers == [i \in DOMAIN trace |-> trace[i].out]
            sail    == Run(prog.body, Args, answers)
        IN  sail = [tr |-> trace, r |-> IF Running THEN Cut ELSE Outcome]
=============================================================================
