--------------------------- MODULE CodeFlowProofs ---------------------------
(***************************************************************************)
(* Proof that code which CodeFlow accepts keeps, in every run, whatever    *)
(* the functions it calls answer and however many calls it makes, the      *)
(* disciplines of GeneratedC.                                              *)
(***************************************************************************)
EXTENDS CodeFlow, TLAPS

-----------------------------------------------------------------------------
(* Stores and the kinds of their values. *)
IsExn(v) == v[1] = "exn"

Fits(kinds, st) ==
    /\ DOMAIN kinds = DOMAIN st
    /\ \A x \in DOMAIN kinds : kinds[x] = "exn" => IsExn(st[x])

LEMMA WithFits ==
    ASSUME NEW kinds, NEW st, Fits(kinds, st),
           NEW x, NEW kind, NEW v, kind = "exn" => IsExn(v)
    PROVE  Fits(With(kinds, x, kind), With(st, x, v))
  BY DEF Fits, With

LEMMA WithoutFits ==
    ASSUME NEW kinds, NEW st, Fits(kinds, st), NEW x
    PROVE  Fits(Without(kinds, x), Without(st, x))
  BY DEF Fits, Without

(* The place a run is at. *)
Here(kinds) == Point(pc, live, kinds, Bit(have_exception))

LEMMA HereFields ==
    ASSUME NEW kinds
    PROVE  /\ Here(kinds).pc = pc
           /\ Here(kinds).live = live
           /\ Here(kinds).kinds = kinds
           /\ Here(kinds).have = Bit(have_exception)
  BY DEF Here, Point

LEMMA CreatedFits == ASSUME NEW ty PROVE CreatedKind(ty) = "exn" => IsExn(Created(ty))
  BY DEF CreatedKind, Created, IsExn, Exn

(* The value of a cval is of its kind, and a condition has one of its      *)
(* truth values.                                                           *)
LEMMA ValueFits ==
    ASSUME NEW kinds, Fits(kinds, store), NEW cv, \A part \in Reads(cv) : part.x \in DOMAIN kinds
    PROVE  Kind(Here(kinds), cv) = "exn" => IsExn(Value(cv))
<1>1. CASE cv.k = "id"
  <2>1. cv \in Reads(cv)
    BY <1>1 DEF Reads, Parts
  <2> QED
    BY <1>1, <2>1, HereFields DEF Fits, Kind, Value, Part
<1>2. CASE cv.k # "id"
  BY <1>2 DEF Kind, Value, Exn, IsExn
<1> QED
  BY <1>1, <1>2

LEMMA TruthFits ==
    ASSUME NEW kinds, NEW cv
    PROVE  Bit(Value(cv) = 1) \in Truths(Here(kinds), cv)
<1>1. CASE cv.k = "have"
  BY <1>1, HereFields DEF Truths, Value, Part, Bit
<1>2. CASE cv.k = "not" /\ cv.of.k = "have"
  BY <1>2, HereFields DEF Truths, Value, Part, Bit
<1>3. CASE cv.k = "lit"
  BY <1>3 DEF Truths, Value, Part, Bit
<1>4. CASE cv.k # "have" /\ cv.k # "lit" /\ ~(cv.k = "not" /\ cv.of.k = "have")
  BY <1>4 DEF Truths, Bit
<1> QED
  BY <1>1, <1>2, <1>3, <1>4

-----------------------------------------------------------------------------
(* Every statement leads from a point to one of those after it.            *)
There(kinds) == Point(pc', live', kinds, Bit(have_exception'))

Leads(kinds) == \E next : Fits(next, store') /\ There(next) \in After(code, Here(kinds))

(* What a statement that may run here is told about its variables. *)
LEMMA HereOwns ==
    ASSUME NEW kinds, Statement(Here(kinds), stmt)
    PROVE  /\ \A cv \in Used(stmt) :
                 /\ cv.x \in DOMAIN kinds
                 /\ ~is_stack_ctyp(cv.ty) => cv.x \in live \cup {Argument}
           /\ stmt.op \in {"decl", "init"} => stmt.x \notin live
  BY HereFields DEF Statement, Owns

LEMMA DeclLeads ==
    ASSUME NEW kinds, Fits(kinds, store), Decl PROVE Leads(kinds)
<1>1. CASE is_stack_ctyp(stmt.ty)
  <2>1. After(code, Here(kinds)) = {Point(pc + 1, live, Without(kinds, stmt.x), Bit(have_exception))}
    BY <1>1, HereFields DEF Decl, At, After, stmt
  <2>2. There(Without(kinds, stmt.x)) = Point(pc + 1, live, Without(kinds, stmt.x), Bit(have_exception))
    BY <1>1 DEF There, Decl, NextStmt, Goto
  <2>3. Fits(Without(kinds, stmt.x), store')
    BY <1>1, WithoutFits DEF Decl
  <2> QED
    BY <2>1, <2>2, <2>3 DEF Leads
<1>2. CASE ~is_stack_ctyp(stmt.ty)
  <2> DEFINE next == With(kinds, stmt.x, CreatedKind(stmt.ty))
  <2>1. After(code, Here(kinds)) = {Point(pc + 1, live \cup {stmt.x}, next, Bit(have_exception))}
    BY <1>2, HereFields DEF Decl, At, After, Declared, stmt
  <2>2. There(next) = Point(pc + 1, live \cup {stmt.x}, next, Bit(have_exception))
    BY <1>2 DEF There, Decl, NextStmt, Goto
  <2>3. Fits(next, store')
    BY <1>2, WithFits, CreatedFits DEF Decl
  <2> QED
    BY <2>1, <2>2, <2>3 DEF Leads
<1> QED
  BY <1>1, <1>2

(* The variables in the operands of a statement have values. *)
LEMMA HereReads ==
    ASSUME NEW kinds, Statement(Here(kinds), stmt),
           stmt.op \in {"init", "reinit", "copy", "funcall", "jump", "unless", "return"}
    PROVE  \A part \in Reads(stmt.cv) : part.x \in DOMAIN kinds
  BY HereOwns DEF Used

LEMMA InitLeads ==
    ASSUME NEW kinds, Fits(kinds, store), Statement(Here(kinds), stmt), InitStmt
    PROVE  Leads(kinds)
<1> DEFINE kind == Kind(Here(kinds), stmt.cv)
           next == With(kinds, stmt.x, kind)
           heap == IF is_stack_ctyp(stmt.ty) THEN live ELSE live \cup {stmt.x}
<1>1. After(code, Here(kinds)) = {Point(pc + 1, heap, next, Bit(have_exception))}
  BY HereFields DEF InitStmt, At, After, Declared, stmt
<1>2. There(next) = Point(pc + 1, heap, next, Bit(have_exception))
  BY DEF There, InitStmt, NextStmt, Goto
<1>3. kind = "exn" => IsExn(Value(stmt.cv))
  BY HereReads, ValueFits DEF InitStmt, At
<1>4. Fits(next, store')
  BY <1>3, WithFits DEF InitStmt
<1> QED
  BY <1>1, <1>2, <1>4 DEF Leads

LEMMA RecreateLeads ==
    ASSUME NEW kinds, Fits(kinds, store), Statement(Here(kinds), stmt), Recreate
    PROVE  Leads(kinds)
<1> DEFINE kind == IF stmt.op = "reinit" THEN Kind(Here(kinds), stmt.cv) ELSE CreatedKind(stmt.ty)
           next == With(kinds, stmt.x, kind)
<1>1. After(code, Here(kinds)) = {Point(pc + 1, live, next, Bit(have_exception))}
  BY HereFields DEF Recreate, After, stmt
<1>2. There(next) = Point(pc + 1, live, next, Bit(have_exception))
  BY DEF There, Recreate, NextStmt, Goto
<1>3. kind = "exn" => IsExn(IF stmt.op = "reinit" THEN Value(stmt.cv) ELSE Created(stmt.ty))
  BY HereReads, ValueFits, CreatedFits
<1>4. Fits(next, store')
  BY <1>3, WithFits DEF Recreate
<1> QED
  BY <1>1, <1>2, <1>4 DEF Leads

LEMMA ClearLeads ==
    ASSUME NEW kinds, Fits(kinds, store), Clear PROVE Leads(kinds)
<1> DEFINE next == Without(kinds, stmt.x)
<1>1. After(code, Here(kinds)) = {Point(pc + 1, live \ {stmt.x}, next, Bit(have_exception))}
  BY HereFields DEF Clear, At, After, stmt
<1>2. There(next) = Point(pc + 1, live \ {stmt.x}, next, Bit(have_exception))
  BY DEF There, Clear, NextStmt, Goto
<1>3. Fits(next, store')
  BY WithoutFits DEF Clear
<1> QED
  BY <1>1, <1>2, <1>3 DEF Leads

(* The assignment of a value that fits a kind. *)
LEMMA WriteLeads ==
    ASSUME NEW kinds, Fits(kinds, store), NEW cl, NEW kind, NEW v, NEW truths,
           Write(cl, v), NextStmt, live' = live,
           kind = "exn" => IsExn(v), Bit(v = 1) \in truths
    PROVE  \E next : Fits(next, store') /\ There(next) \in Written(Here(kinds), cl, kind, truths)
<1> DEFINE next == Assigned(kinds, cl, kind)
<1>1. Fits(next, store')
  <2>1. CASE cl.k = "id"
    BY <2>1, WithFits DEF Write, Assigned
  <2>2. CASE cl.k = "ret"
    BY <2>2, WithFits DEF Write, Assigned
  <2>3. CASE cl.k \notin {"id", "ret"}
    BY <2>3 DEF Write, Assigned
  <2> QED
    BY <2>1, <2>2, <2>3
<1>2. There(next) = Point(pc + 1, live, next, Bit(have_exception'))
  BY DEF There, NextStmt, Goto
<1>3. Bit(have_exception') \in IF cl.k = "have" THEN truths ELSE {Bit(have_exception)}
  <2>1. CASE cl.k = "have"
    <3>1. have_exception' <=> v = 1
      BY <2>1 DEF Write
    <3> QED
      BY <2>1, <3>1 DEF Bit
  <2>2. CASE cl.k # "have"
    BY <2>2 DEF Write
  <2> QED
    BY <2>1, <2>2
<1> HIDE DEF next
<1>4. There(next) \in Written(Here(kinds), cl, kind, truths)
  BY <1>2, <1>3, HereFields DEF Written, next
<1> QED
  BY <1>1, <1>4

LEMMA CopyLeads ==
    ASSUME NEW kinds, Fits(kinds, store), Statement(Here(kinds), stmt), Copy
    PROVE  Leads(kinds)
<1> DEFINE kind   == Kind(Here(kinds), stmt.cv)
           truths == Truths(Here(kinds), stmt.cv)
<1>1. After(code, Here(kinds)) = Written(Here(kinds), stmt.cl, kind, truths)
  BY HereFields DEF Copy, At, After, stmt
<1>2. kind = "exn" => IsExn(Value(stmt.cv))
  BY HereReads, ValueFits DEF Copy, At
<1>3. Bit(Value(stmt.cv) = 1) \in truths
  BY TruthFits
<1>4. Write(stmt.cl, Value(stmt.cv)) /\ NextStmt /\ live' = live
  BY DEF Copy
<1> HIDE DEF kind, truths
<1> QED
  BY <1>1, <1>2, <1>3, <1>4, WriteLeads DEF Leads

LEMMA CallLeads ==
    ASSUME NEW kinds, Fits(kinds, store), Call PROVE Leads(kinds)
<1>1. After(code, Here(kinds)) = Answered(Here(kinds), stmt)
  BY HereFields DEF Call, At, After, stmt
<1>2. NextStmt /\ live' = live
  BY DEF Call
<1>3. PICK out \in {Val(0), Val(1)} \cup
                  (IF stmt.f.escapes THEN {Exn("E1", 1), Exn("E2", 0)} ELSE {}) :
            IF out[1] = "val"
            THEN Write(stmt.cl, out[2])
            ELSE /\ have_exception' = TRUE
                 /\ current_exception' = out
                 /\ store' = IF is_stack_ctyp(stmt.f.ret)
                             THEN With(store, stmt.cl.x, 0) ELSE store
  BY DEF Call
<1>4. CASE out[1] = "val"
  <2>1. Write(stmt.cl, out[2])
    BY <1>3, <1>4
  <2>2. Bit(out[2] = 1) \in {0, 1}
    BY DEF Bit
  <2>3. PICK next : /\ Fits(next, store')
                    /\ There(next) \in Written(Here(kinds), stmt.cl, "number", {0, 1})
    BY <1>2, <2>1, <2>2, WriteLeads
  <2> QED
    BY <1>1, <2>3 DEF Leads, Answered
<1>5. CASE out[1] # "val"
  <2> DEFINE next == IF is_stack_ctyp(stmt.f.ret) THEN With(kinds, stmt.cl.x, "number") ELSE kinds
  <2>1. stmt.f.escapes
    BY <1>5 DEF Val
  <2>2. Fits(next, store')
    BY <1>3, <1>5, WithFits
  <2>3. There(next) = Point(pc + 1, live, next, 1)
    BY <1>2, <1>3, <1>5 DEF There, NextStmt, Goto, Bit
  <2>4. Point(pc + 1, live, next, 1) \in After(code, Here(kinds))
    BY <1>1, <2>1, HereFields DEF Answered
  <2> QED
    BY <2>2, <2>3, <2>4 DEF Leads
<1> QED
  BY <1>4, <1>5

(* A statement that only moves control. *)
LEMMA MoveLeads ==
    ASSUME NEW kinds, Fits(kinds, store),
           stmt.op \in {"jump", "goto", "label", "unless", "skip", "return", "undefined",
                        "match_failure"},
           pc' \in Successors(code, Here(kinds), stmt),
           UNCHANGED <<live, store, have_exception>>
    PROVE  Leads(kinds)
<1>1. After(code, Here(kinds)) =
          {Point(n, live, kinds, Bit(have_exception)) :
              n \in Successors(code, Here(kinds), stmt)}
  BY HereFields DEF After, stmt
<1>2. There(kinds) = Point(pc', live, kinds, Bit(have_exception))
  BY DEF There
<1> QED
  BY <1>1, <1>2 DEF Leads

LEMMA JumpLeads ==
    ASSUME NEW kinds, Fits(kinds, store), Jump PROVE Leads(kinds)
<1>1. UNCHANGED <<live, store, have_exception>>
  BY DEF Jump
<1>2. CASE stmt.op = "jump" /\ pc' = IF Value(stmt.cv) = 1 THEN Target(code, stmt.l) ELSE pc + 1
  <2>1. Bit(Value(stmt.cv) = 1) \in Truths(Here(kinds), stmt.cv)
    BY TruthFits
  <2>2. pc' \in Successors(code, Here(kinds), stmt)
    BY <1>2, <2>1, HereFields DEF Successors, Bit
  <2> QED
    BY <1>1, <1>2, <2>2, MoveLeads
<1>3. CASE stmt.op = "unless" /\ pc' = IF Value(stmt.cv) = 1 THEN pc + 1 ELSE pc + stmt.n
  <2>1. Bit(Value(stmt.cv) = 1) \in Truths(Here(kinds), stmt.cv)
    BY TruthFits
  <2>2. pc' \in Successors(code, Here(kinds), stmt)
    BY <1>3, <2>1, HereFields DEF Successors, Bit
  <2> QED
    BY <1>1, <1>3, <2>2, MoveLeads
<1>4. CASE \/ stmt.op = "goto" /\ pc' = Target(code, stmt.l)
           \/ stmt.op = "label" /\ pc' = pc + 1
           \/ stmt.op = "skip" /\ pc' = pc + stmt.n
  <2>1. pc' \in Successors(code, Here(kinds), stmt)
    BY <1>4, HereFields DEF Successors
  <2> QED
    BY <1>1, <1>4, <2>1, MoveLeads
<1> QED
  BY <1>2, <1>3, <1>4 DEF Jump, Goto, NextStmt

LEMMA EndLeads ==
    ASSUME NEW kinds, Fits(kinds, store), ReturnStmt \/ MatchFailure PROVE Leads(kinds)
<1>1. CASE ReturnStmt
  <2>1. pc' \in Successors(code, Here(kinds), stmt)
    BY <1>1 DEF ReturnStmt, Goto, Successors
  <2> QED
    BY <1>1, <2>1, MoveLeads DEF ReturnStmt
<1>2. CASE MatchFailure
  <2>1. pc' \in Successors(code, Here(kinds), stmt)
    BY <1>2 DEF MatchFailure, At, Goto, Successors
  <2> QED
    BY <1>2, <2>1, MoveLeads DEF MatchFailure, At
<1> QED
  BY <1>1, <1>2

-----------------------------------------------------------------------------
(* The inductive invariant: a run stays on the points of its code.         *)
Points(c) == CHOOSE S : Checked(c, S)

OnPoint == \E kinds : Fits(kinds, store) /\ Here(kinds) \in Points(code)

FlowInv ==
    /\ prog \in Programs
    /\ code = Code(prog)
    /\ OnPoint
    /\ have_exception \in BOOLEAN
    /\ current_exception[1] = "exn"
    /\ \E Events : trace \in Seq(Events)
    /\ Len(trace) <= MaxCalls
    /\ retval[1] \in {"none", "val", "match_failure"}

LEMMA PointsChecked ==
    ASSUME CodeIsChecked, prog \in Programs, code = Code(prog)
    PROVE  Checked(code, Points(code))
  BY DEF CodeIsChecked, Points

(* Where a run is at, all is as it should be. *)
LEMMA PointIsGood ==
    ASSUME CodeIsChecked, FlowInv
    PROVE  \E kinds :
             /\ Fits(kinds, store)
             /\ Here(kinds) \in Points(code)
             /\ pc \in 0..(Len(code) + 1)
             /\ live \subseteq DOMAIN kinds
             /\ Running => Statement(Here(kinds), stmt) /\ After(code, Here(kinds)) \subseteq Points(code)
             /\ Returned => live = Hoisted(code)
<1>1. Checked(code, Points(code))
  BY PointsChecked DEF FlowInv
<1>2. PICK kinds : Fits(kinds, store) /\ Here(kinds) \in Points(code)
  BY DEF FlowInv, OnPoint
<1> QED
  BY <1>1, <1>2, HereFields DEF Checked, Running, Returned, stmt

(* One lemma for all statements. *)
LEMMA NextLeads ==
    ASSUME NEW kinds, Fits(kinds, store), Statement(Here(kinds), stmt),
           Decl \/ InitStmt \/ Recreate \/ Copy \/ Clear \/ Call \/ Jump \/ ReturnStmt \/ MatchFailure
    PROVE  Leads(kinds)
  BY DeclLeads, InitLeads, RecreateLeads, CopyLeads, ClearLeads, CallLeads, JumpLeads, EndLeads

LEMMA InitFlow == ASSUME CodeIsChecked, Init PROVE FlowInv
<1> DEFINE kinds == [x \in Hoisted(code) \cup DOMAIN Args |-> "number"]
<1>1. Checked(code, Points(code))
  BY PointsChecked DEF Init
<1>2. Fits(kinds, store)
  BY DEF Init, Fits
<1>3. Here(kinds) = Start(code)
  BY DEF Init, Here, Start, Bit
<1>4. OnPoint
  BY <1>1, <1>2, <1>3 DEF OnPoint, Checked
<1>5. trace \in Seq({}) /\ Len(trace) <= MaxCalls
  BY ProgramsAssumption DEF Init
<1> QED
  BY <1>4, <1>5 DEF Init, FlowInv, Exn, NoValue

LEMMA StepPoint == ASSUME CodeIsChecked, FlowInv, [Next]_vars PROVE OnPoint'
<1>1. CASE UNCHANGED vars
  BY <1>1 DEF FlowInv, OnPoint, Fits, Here, vars
<1>2. CASE Finished
  BY <1>2 DEF Finished, FlowInv, OnPoint, Fits, Here, vars
<1>3. CASE \/ Decl \/ InitStmt \/ Recreate \/ Copy \/ Clear \/ Call \/ Jump
           \/ ReturnStmt \/ MatchFailure
  <2>1. Running /\ code' = code
    BY <1>3 DEF Decl, InitStmt, Recreate, Copy, Clear, Call, Jump, ReturnStmt, MatchFailure, At
  <2>2. PICK kinds :
            /\ Fits(kinds, store)
            /\ Statement(Here(kinds), stmt)
            /\ After(code, Here(kinds)) \subseteq Points(code)
    BY <2>1, PointIsGood
  <2>3. PICK next : Fits(next, store') /\ There(next) \in After(code, Here(kinds))
    BY <1>3, <2>2, NextLeads DEF Leads
  <2>4. There(next) \in Points(code)
    BY <2>2, <2>3
  <2> QED
    BY <2>1, <2>3, <2>4 DEF OnPoint, Fits, Here, There
<1> QED
  BY <1>1, <1>2, <1>3 DEF Next

(* The other parts of the invariant: what runs, the exception, its flag,   *)
(* the calls made and the value returned.                                  *)
LEMMA StepProgram == ASSUME FlowInv, [Next]_vars PROVE prog' \in Programs /\ code' = Code(prog')
  BY DEF FlowInv, Next, vars, Decl, InitStmt, Recreate, Copy, Clear, Call, Jump, ReturnStmt,
         MatchFailure, Finished

(* The flag stays a flag: it is assigned to by a comparison. *)
LEMMA WriteFlag ==
    ASSUME have_exception \in BOOLEAN, NEW cl, NEW v, Write(cl, v)
    PROVE  have_exception' \in BOOLEAN
<1>1. CASE cl.k = "have"
  <2>1. have_exception' = (v = 1)
    BY <1>1, Zenon DEF Write
  <2> QED
    BY <2>1
<1>2. CASE cl.k # "have"
  <2>1. have_exception' = have_exception
    BY <1>2 DEF Write
  <2> QED
    BY <2>1
<1> QED
  BY <1>1, <1>2

LEMMA StepException ==
    ASSUME CodeIsChecked, FlowInv, [Next]_vars
    PROVE  have_exception' \in BOOLEAN /\ current_exception'[1] = "exn"
<1>1. CASE Copy
  <2>1. PICK kinds : Fits(kinds, store) /\ Statement(Here(kinds), stmt)
    BY <1>1, PointIsGood DEF Copy, At
  <2>2. stmt.cl.k = "exn" => IsExn(Value(stmt.cv))
    BY <1>1, <2>1, HereReads, ValueFits DEF Copy, At, Statement
  <2>3. current_exception'[1] = "exn"
    BY <1>1, <2>2 DEF Copy, Write, FlowInv, IsExn
  <2> QED
    BY <1>1, <2>3, WriteFlag DEF Copy, FlowInv
<1>2. CASE Call
  <2>1. stmt.cl.k # "exn"
    BY <1>2, PointIsGood DEF Call, At, Statement
  <2>2. PICK out \in {Val(0), Val(1), Exn("E1", 1), Exn("E2", 0)} :
            IF out[1] = "val"
            THEN Write(stmt.cl, out[2])
            ELSE have_exception' = TRUE /\ current_exception' = out
    BY <1>2 DEF Call
  <2>3. current_exception'[1] = "exn"
    BY <2>1, <2>2 DEF Write, FlowInv, Val, Exn
  <2> QED
    BY <2>2, <2>3, WriteFlag DEF FlowInv
<1>3. CASE UNCHANGED <<have_exception, current_exception>>
  BY <1>3 DEF FlowInv
<1> QED
  BY <1>1, <1>2, <1>3
  DEF Next, vars, Decl, InitStmt, Recreate, Clear, Jump, ReturnStmt, MatchFailure, Finished

LEMMA StepTrace ==
    ASSUME FlowInv, [Next]_vars
    PROVE  (\E Events : trace' \in Seq(Events)) /\ Len(trace') <= MaxCalls
<1>1. CASE Call
  <2>1. PICK Events : trace \in Seq(Events)
    BY DEF FlowInv
  <2>2. PICK event : trace' = Append(trace, event)
    BY <1>1 DEF Call
  <2>3. trace \in Seq(Events \cup {event})
    BY <2>1
  <2>4. trace' \in Seq(Events \cup {event}) /\ Len(trace') = Len(trace) + 1
    BY <2>2, <2>3
  <2>5. Len(trace) < MaxCalls /\ Len(trace) \in Nat
    BY <1>1, <2>1 DEF Call
  <2> QED
    BY <2>4, <2>5, ProgramsAssumption
<1>2. CASE UNCHANGED trace
  BY <1>2 DEF FlowInv
<1> QED
  BY <1>1, <1>2
  DEF Next, vars, Decl, InitStmt, Recreate, Copy, Clear, Jump, ReturnStmt, MatchFailure, Finished

LEMMA StepResult ==
    ASSUME FlowInv, [Next]_vars PROVE retval'[1] \in {"none", "val", "match_failure"}
<1>1. CASE ReturnStmt
  BY <1>1 DEF ReturnStmt, Val
<1>2. CASE MatchFailure
  BY <1>2 DEF MatchFailure, Stuck
<1>3. CASE UNCHANGED retval
  BY <1>3 DEF FlowInv
<1> QED
  BY <1>1, <1>2, <1>3
  DEF Next, vars, Decl, InitStmt, Recreate, Copy, Clear, Call, Jump, Finished

LEMMA StepFlow == ASSUME CodeIsChecked, FlowInv, [Next]_vars PROVE FlowInv'
  BY StepProgram, StepPoint, StepException, StepTrace, StepResult DEF FlowInv

(* A run of checked code stays on the points of its code: whatever control *)
(* path it takes, the check has seen it.                                   *)
THEOREM FlowIsKept == ASSUME CodeIsChecked PROVE Spec => []FlowInv
<1>1. Init => FlowInv
  BY InitFlow
<1>2. FlowInv /\ [Next]_vars => FlowInv'
  BY StepFlow
<1> QED
  BY <1>1, <1>2, PTL DEF Spec

-----------------------------------------------------------------------------
(* A checked function in execution has its types: every statement that a   *)
(* goto, an early return or a thrown exception leads to is one of its own, *)
(* and live variables have a value.                                        *)
THEOREM CheckedCodeIsTyped == ASSUME CodeIsChecked PROVE Spec => []TypeOK
<1>1. FlowInv => TypeOK
  BY PointIsGood, ProgramsAssumption DEF FlowInv, Fits, TypeOK
<1> QED
  BY <1>1, FlowIsKept, PTL

(* A checked function uses no heap variable before its CREATE or after its *)
(* KILL and no stack variable before it is assigned, on any path.          *)
THEOREM CheckedCodeUsesLiveVariables == ASSUME CodeIsChecked PROVE Spec => []UsesLiveVariables
<1>1. FlowInv => UsesLiveVariables
  BY PointIsGood, HereOwns DEF Fits, UsesLiveVariables
<1> QED
  BY <1>1, FlowIsKept, PTL

(* A checked function creates no variable that is still live.              *)
THEOREM CheckedCodeCreatesDeadVariables ==
    ASSUME CodeIsChecked PROVE Spec => []CreatesDeadVariables
<1>1. FlowInv => CreatesDeadVariables
  BY PointIsGood, HereOwns DEF CreatesDeadVariables
<1> QED
  BY <1>1, FlowIsKept, PTL

(* A checked function has killed all it created when it comes back to its  *)
(* caller, by a return statement, an exception or its last statement.      *)
THEOREM CheckedCodeLeaksNothing == ASSUME CodeIsChecked PROVE Spec => []NoLeak
<1>1. FlowInv => NoLeak
  BY PointIsGood DEF NoLeak
<1> QED
  BY <1>1, FlowIsKept, PTL
=============================================================================
