---------------------------- MODULE MCConstraint ----------------------------
(***************************************************************************)
(* The solver interface with a few problems; files that are torn in every  *)
(* place, and files that several processes write.                          *)
(***************************************************************************)
EXTENDS Constraint

(* Bounds. *)
MCValue    == {0, 1}
MCProblem  == {{}, {0}, {1}}
TwoProblem == {{}, {1}}
=============================================================================
