----------------------------- MODULE GeneratedC -----------------------------
(***************************************************************************)
(* A run of the C function that the back end generates for a Sail function *)
(* (codegen_instr of src/src/c_backend.ml gives each IR instruction its C).*)
(*                                                                         *)
(* C has no destructors and no exceptions: a heap allocated variable lives *)
(* from CREATE to KILL, wherever control goes in between, and a Sail       *)
(* exception is the global flag have_exception, which the generated code   *)
(* tests after every call that may throw.  The properties say that the     *)
(* code keeps both disciplines.                                            *)
(***************************************************************************)
EXTENDS Bytecode

CONSTANTS
    Programs,   \* a set of records with the ctyp that a function returns, as ret
    Code(_),    \* the C statements that are generated for each
    MaxCalls    \* bound on the calls one run makes

ASSUME ProgramsAssumption ==
    /\ MaxCalls \in Nat \ {0}
    /\ \A p \in Programs : p.ret \in CTypes

VARIABLES
    prog,               \* the Sail function that runs
    code,               \* the C statements generated for it
    pc,                 \* the next C statement
    live,               \* the heap variables between their CREATE and KILL
    store,              \* the values of the initialised variables
    have_exception,     \* the global flag
    current_exception,  \* the global exception value, an Exn
    retval,             \* the value returned, or Stuck when the process exited
    trace               \* the calls made

vars == <<prog, code, pc, live, store, have_exception, current_exception, retval, trace>>

(* The arguments of the function, "a" and "u", belong to its caller, as    *)
(* does the location "ret" of a heap allocated result.                     *)
Argument     == <<"a">>
UnitArgument == <<"u">>
Args == [x \in {Argument, UnitArgument} |-> 0]

(* The variables that the startup function has created. *)
Hoisted(stmts) == {stmts[n].x : n \in {m \in DOMAIN stmts : stmts[m].op \in {"reset", "reinit"}}}

stmt == code[pc]

Running == pc \in DOMAIN code

(* The function has come back to its caller: through a return statement or *)
(* past its last statement.                                                *)
Returned == pc = Len(code) + 1
Exited   == pc = 0

NoValue == <<"none">>

(* Where a goto finds its label. *)
Target(stmts, l) == CHOOSE n \in DOMAIN stmts : stmts[n] = ilabel(l)

(* Variables, literals and flags; and what is made of them. *)
Part(cv) ==
    CASE cv.k = "id"      -> store[cv.x]
      [] cv.k = "lit"     -> cv.v
      [] cv.k = "payload" -> current_exception[3]
      [] cv.k = "kind"    -> IF current_exception[2] # cv.c THEN 1 ELSE 0
      [] cv.k = "have"    -> IF have_exception THEN 1 ELSE 0
Value(cv) ==
    CASE cv.k = "not"  -> 1 - Part(cv.of)
      [] cv.k = "gt"   -> IF Part(cv.of) > Part(cv.by) THEN 1 ELSE 0
      [] cv.k = "plus" -> Part(cv.of) + Part(cv.by)
      [] cv.k = "ctor" -> Exn(cv.c, Part(cv.of))
      [] OTHER         -> Part(cv)

(* The assignment of v to cl. *)
Write(cl, v) ==
    /\ store' = IF cl.k = "id" THEN With(store, cl.x, v)
                ELSE IF cl.k = "ret" THEN With(store, <<"ret">>, v) ELSE store
    /\ current_exception' = IF cl.k = "exn" THEN v ELSE current_exception
    /\ have_exception' = IF cl.k = "have" THEN v = 1 ELSE have_exception

(* What CREATE leaves in a variable. *)
Created(ty) == IF ty = "exn" THEN Exn("E1", 0) ELSE 0

-----------------------------------------------------------------------------
Init ==
    /\ prog \in Programs
    /\ code = Code(prog)
    /\ pc = 1
    /\ live = Hoisted(code)
    /\ \E left \in {0, 1} : 
           store = [x \in Hoisted(code) \cup DOMAIN Args |->
                       IF x \in Hoisted(code) THEN left ELSE Args[x]]
    /\ have_exception = FALSE
    /\ current_exception = Exn("E1", 0)
    /\ retval = NoValue
    /\ trace = <<>>

At(op) == Running /\ stmt.op = op

Goto(n) == pc' = n
NextStmt == Goto(pc + 1)

(* Mutant: stack and heap types are swapped.                               *)
MutDecl ==
    /\ At("decl")
    /\ NextStmt
    /\ IF is_stack_ctyp(stmt.ty)
       THEN live' = live \cup {stmt.x} /\ store' = Without(store, stmt.x)
       ELSE live' = live /\ store' = With(store, stmt.x, Created(stmt.ty))
    /\ UNCHANGED <<prog, code, have_exception, current_exception, retval, trace>>

(* T x;  and for a heap type  CREATE(T)(&x); *)
Decl ==
    /\ At("decl")
    /\ NextStmt
    /\ IF is_stack_ctyp(stmt.ty)
       THEN live' = live /\ store' = Without(store, stmt.x)
       ELSE live' = live \cup {stmt.x} /\ store' = With(store, stmt.x, Created(stmt.ty))
    /\ UNCHANGED <<prog, code, have_exception, current_exception, retval, trace>>

(* The same, and then a copy of the initial value. *)
InitStmt ==
    /\ At("init")
    /\ NextStmt
    /\ live' = IF is_stack_ctyp(stmt.ty) THEN live ELSE live \cup {stmt.x}
    /\ store' = With(store, stmt.x, Value(stmt.cv))
    /\ UNCHANGED <<prog, code, have_exception, current_exception, retval, trace>>

(* RECREATE(T)(&x);  and a copy of the initial value: what an earlier call *)
(* left in a hoisted variable is overwritten.                              *)
Recreate ==
    /\ Running
    /\ stmt.op \in {"reset", "reinit"}
    /\ NextStmt
    /\ store' = With(store, stmt.x,
                      IF stmt.op = "reinit" THEN Value(stmt.cv) ELSE Created(stmt.ty))
    /\ UNCHANGED <<prog, code, live, have_exception, current_exception, retval, trace>>

(* x = y;  COPY(T)(&x, y);  CONVERT_OF(T, U)(&x, y); *)
Copy ==
    /\ At("copy")
    /\ NextStmt
    /\ Write(stmt.cl, Value(stmt.cv))
    /\ UNCHANGED <<prog, code, live, retval, trace>>

(* KILL(T)(&x); *)
Clear ==
    /\ At("clear")
    /\ NextStmt
    /\ live' = live \ {stmt.x}
    /\ store' = Without(store, stmt.x)
    /\ UNCHANGED <<prog, code, have_exception, current_exception, retval, trace>>

(* x = f(y);  f(&x, y);   The callee returns a value, or throws: it leaves *)
(* have_exception set, and returns a dummy value if its type is a stack    *)
(* type.                                                                   *)
Call ==
    /\ At("funcall")
    /\ Len(trace) < MaxCalls
    /\ NextStmt
    /\ \E out \in {Val(0), Val(1)} \cup
                  (IF stmt.f.escapes THEN {Exn("E1", 1), Exn("E2", 0)} ELSE {}) :
         /\ trace' = Append(trace, Event(stmt.f, Value(stmt.cv), out))
         /\ IF out[1] = "val"
            THEN Write(stmt.cl, out[2])
            ELSE /\ have_exception' = TRUE
                 /\ current_exception' = out
                 /\ store' = IF is_stack_ctyp(stmt.f.ret)
                             THEN With(store, stmt.cl.x, 0) ELSE store
    /\ UNCHANGED <<prog, code, live, retval>>

(* if (x) goto l;  goto l;  l: ;  if (x) { .. } else { .. } *)
Jump ==
    /\ Running
    /\ \/ /\ stmt.op = "jump"
          /\ IF Value(stmt.cv) = 1 THEN Goto(Target(code, stmt.l)) ELSE NextStmt
       \/ stmt.op = "goto" /\ Goto(Target(code, stmt.l))
       \/ stmt.op = "label" /\ NextStmt
       \/ stmt.op = "unless" /\ Goto(IF Value(stmt.cv) = 1 THEN pc + 1 ELSE pc + stmt.n)
       \/ stmt.op = "skip" /\ Goto(pc + stmt.n)
    /\ UNCHANGED <<prog, code, live, store, have_exception, current_exception, retval, trace>>

(* return x;  and the dummy value returned when an exception is thrown. *)
ReturnStmt ==
    /\ Running
    /\ stmt.op \in {"return", "undefined"}
    /\ retval' = IF stmt.op = "return" THEN Val(Value(stmt.cv)) ELSE Val(0)
    /\ Goto(Len(code) + 1)
    /\ UNCHANGED <<prog, code, live, store, have_exception, current_exception, trace>>

(* sail_match_failure prints the function's name and exits the process. *)
MatchFailure ==
    /\ At("match_failure")
    /\ retval' = Stuck
    /\ Goto(0)
    /\ UNCHANGED <<prog, code, live, store, have_exception, current_exception, trace>>

(* The run is over, or has used up the bound on its calls. *)
Over ==
    \/ Returned
    \/ Exited
    \/ At("funcall") /\ Len(trace) = MaxCalls

Finished == Over /\ UNCHANGED vars

Next ==
    \/ Decl \/ InitStmt \/ Recreate \/ Copy \/ Clear \/ Call \/ Jump \/ ReturnStmt \/ MatchFailure
    \/ Finished

Spec == Init /\ [][Next]_vars /\ WF_vars(Next)

-----------------------------------------------------------------------------
(* Type correctness; a name is a string or a tuple. *)
TypeOK ==
    /\ prog.ret \in CTypes
    /\ pc \in 0..(Len(code) + 1)
    /\ live \subseteq DOMAIN store
    /\ have_exception \in BOOLEAN
    /\ current_exception[1] = "exn"
    /\ Len(trace) <= MaxCalls
    /\ retval[1] \in {"none", "val", "match_failure"}

(* The variables a statement reads or, when they are on the heap, writes.  *)
Used(s) ==
    LET written(cl) == IF cl.k = "id" /\ ~is_stack_ctyp(cl.ty) THEN {cl} ELSE {}
    IN  CASE s.op \in {"copy", "funcall"} -> written(s.cl) \cup Reads(s.cv)
          [] s.op \in {"init", "jump", "unless", "return"} -> Reads(s.cv)
          [] s.op = "reinit" -> Reads(s.cv) \cup {F_id(s.x, s.ty)}
          [] s.op \in {"clear", "reset"} -> {F_id(s.x, s.ty)}
          [] OTHER -> {}

(* No statement uses a heap variable before its CREATE or after its KILL,  *)
(* nor a stack variable that was never assigned: whatever path control     *)
(* took to get here, early return, exception, failed guard or loop.        *)
UsesLiveVariables ==
    Running => \A cv \in Used(stmt) :
        /\ cv.x \in DOMAIN store
        /\ ~is_stack_ctyp(cv.ty) => cv.x \in live \cup {Argument}

(* No CREATE of a variable that is still live, which would lose the memory *)
(* it owns: a loop or a later block reuses the name of a declaration.      *)
CreatesDeadVariables ==
    Running /\ stmt.op \in {"decl", "init"} => stmt.x \notin live

(* Every path that comes back to the caller has killed every heap variable *)
(* the function created, and none of those created for all calls.          *)
NoLeak == Returned => live = Hoisted(code)

(* The generated gotos make no loop that never calls anything: the C       *)
(* function ends, or keeps making the calls of a Sail loop.                *)
Terminates == <>Over
=============================================================================
