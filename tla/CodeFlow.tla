------------------------------ MODULE CodeFlow ------------------------------
(***************************************************************************)
(* A check of the C statements of a function without running them: where   *)
(* control may go, which heap variables are live there, which variables    *)
(* have a number or an exception, and whether the exception flag is set.   *)
(* Values, and what other functions answer, are left open.                 *)
(***************************************************************************)
EXTENDS GeneratedC

(* A place in a run; the flag is 0 or 1. *)
Bit(b) == IF b THEN 1 ELSE 0
Point(n, l, k, h) == [pc |-> n, live |-> l, kinds |-> k, have |-> h]

Start(c) ==
    Point(1, Hoisted(c), [x \in Hoisted(c) \cup DOMAIN Args |-> "number"], 0)

(* The kind of the value of a cval, of what CREATE makes, and the truth    *)
(* values that a condition may have.                                       *)
Kind(p, cv) ==
    CASE cv.k = "ctor" -> "exn"
      [] cv.k = "id"   -> p.kinds[cv.x]
      [] OTHER         -> "number"
CreatedKind(ty) == IF ty = "exn" THEN "exn" ELSE "number"

Truths(p, cv) ==
    CASE cv.k = "have" -> {p.have}
      [] cv.k = "not" /\ cv.of.k = "have" -> {1 - p.have}
      [] cv.k = "lit"  -> {Bit(cv.v = 1)}
      [] OTHER         -> {0, 1}

(* Where the assignment of a value to cl leads. *)
Assigned(kinds, cl, kind) ==
    CASE cl.k = "id"  -> With(kinds, cl.x, kind)
      [] cl.k = "ret" -> With(kinds, <<"ret">>, kind)
      [] OTHER        -> kinds
Written(p, cl, kind, truths) ==
    {Point(p.pc + 1, p.live, Assigned(p.kinds, cl, kind), h) :
        h \in IF cl.k = "have" THEN truths ELSE {p.have}}

Declared(p, s, kind) ==
    Point(p.pc + 1, IF is_stack_ctyp(s.ty) THEN p.live ELSE p.live \cup {s.x},
          With(p.kinds, s.x, kind), p.have)

Answered(p, s) ==
    Written(p, s.cl, "number", {0, 1})
    \cup IF ~s.f.escapes THEN {}
         ELSE {Point(p.pc + 1, p.live,
                     IF is_stack_ctyp(s.f.ret) THEN With(p.kinds, s.cl.x, "number") ELSE p.kinds,
                     1)}

(* The statements that may be next. *)
Successors(c, p, s) ==
    CASE s.op = "jump"   -> {IF t = 1 THEN Target(c, s.l) ELSE p.pc + 1 : t \in Truths(p, s.cv)}
      [] s.op = "goto"   -> {Target(c, s.l)}
      [] s.op = "label"  -> {p.pc + 1}
      [] s.op = "unless" -> {IF t = 1 THEN p.pc + 1 ELSE p.pc + s.n : t \in Truths(p, s.cv)}
      [] s.op = "skip"   -> {p.pc + s.n}
      [] s.op \in {"return", "undefined"} -> {Len(c) + 1}
      [] s.op = "match_failure" -> {0}
      [] OTHER -> {}

After(c, p) ==
    LET s == c[p.pc]
    IN  CASE s.op = "decl" ->
               {IF is_stack_ctyp(s.ty)
                THEN Point(p.pc + 1, p.live, Without(p.kinds, s.x), p.have)
                ELSE Declared(p, s, CreatedKind(s.ty))}
          [] s.op = "init"    -> {Declared(p, s, Kind(p, s.cv))}
          [] s.op = "reset"   -> {Point(p.pc + 1, p.live, With(p.kinds, s.x, CreatedKind(s.ty)), p.have)}
          [] s.op = "reinit"  -> {Point(p.pc + 1, p.live, With(p.kinds, s.x, Kind(p, s.cv)), p.have)}
          [] s.op = "copy"    -> Written(p, s.cl, Kind(p, s.cv), Truths(p, s.cv))
          [] s.op = "clear"   -> {Point(p.pc + 1, p.live \ {s.x}, Without(p.kinds, s.x), p.have)}
          [] s.op = "funcall" -> Answered(p, s)
          [] OTHER -> {Point(n, p.live, p.kinds, p.have) : n \in Successors(c, p, s)}

-----------------------------------------------------------------------------
(* What a statement may do at a point: it reads what has a value and uses  *)
(* heap variables while they are live; it creates dead ones; and it        *)
(* assigns an exception to current_exception.                              *)
Owns(p, s) ==
    \A cv \in Used(s) :
        /\ cv.x \in DOMAIN p.kinds
        /\ ~is_stack_ctyp(cv.ty) => cv.x \in p.live \cup {Argument}

Statement(p, s) ==
    /\ Owns(p, s)
    /\ s.op \in {"decl", "init"} => s.x \notin p.live
    /\ s.op = "copy" /\ s.cl.k = "exn" => Kind(p, s.cv) = "exn"
    /\ s.op = "funcall" => s.cl.k # "exn"

(* The points in S are all that a run of c may reach, and are as they      *)
(* should be.                                                              *)
Checked(c, S) ==
    /\ Len(c) \in Nat /\ DOMAIN c = 1..Len(c)
    /\ Start(c) \in S
    /\ \A p \in S :
         /\ p.pc \in 0..(Len(c) + 1)
         /\ p.live \subseteq DOMAIN p.kinds
         /\ p.pc \in DOMAIN c => Statement(p, c[p.pc]) /\ After(c, p) \subseteq S
         /\ p.pc = Len(c) + 1 => p.live = Hoisted(c)

CodeIsChecked == \A p \in Programs : \E S : Checked(Code(p), S)
=============================================================================
