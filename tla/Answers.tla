------------------------------ MODULE Answers -------------------------------
(***************************************************************************)
(* What functions answer, in Sail and in the generated C; and the stores   *)
(* of both.                                                                *)
(***************************************************************************)
EXTENDS Integers, Sequences

(* The four ctyps the programs use; "int" is the only heap allocated one.  *)
CTypes == {"int", "int64", "bool", "unit"}

Func(ret, escapes) == [ret |-> ret, escapes |-> escapes]

(* An answer of a called function. *)
Val(v)    == <<"val", v>>
Exn(c, v) == <<"exn", c, v>>
Stuck     == <<"match_failure">>    \* no case matches: the program exits

Event(f, v, out) == [f |-> f, arg |-> v, out |-> out]

(* A store is a function from variables; with x bound to v, and without x. *)
With(f, x, v) == [y \in DOMAIN f \cup {x} |-> IF y = x THEN v ELSE f[y]]
Without(f, x) == [y \in DOMAIN f \ {x} |-> f[y]]
=============================================================================
