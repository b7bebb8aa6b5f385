--------------------------- MODULE MCCBackendFlow ---------------------------
(***************************************************************************)
(* The programs of MCCBackend, whose points are computed here and checked. *)
(***************************************************************************)
EXTENDS MCCBackend, CodeFlow

RECURSIVE Closure(_, _, _)
Closure(stmts, S, new) ==
    LET more == UNION {IF p.pc \in DOMAIN stmts THEN After(stmts, p) ELSE {} : p \in new} \ S
    IN  IF more = {} THEN S ELSE Closure(stmts, S \cup more, more)
Reachable(stmts) == Closure(stmts, {Start(stmts)}, {Start(stmts)})

(* The code of every program is safe as far as one can tell without        *)
(* running it: on every path through its jumps, whatever the functions it  *)
(* calls answer, no statement uses a dead variable or creates a live one,  *)
(* and all heap variables are killed at the end.                           *)
CompiledCodeIsChecked == pc = 1 => Checked(code, Reachable(code))
=============================================================================
