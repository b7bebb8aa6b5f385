----------------------------- MODULE OptimizeIR -----------------------------
(***************************************************************************)
(* The optimisations of the IR that -O turns on (optimize of               *)
(* src/src/c_backend.ml, section 5): with "alias", every declaration gets  *)
(* a name of its own and variables that only stand for another are         *)
(* removed; with "hoist", heap variables are created when the model starts *)
(* and reused by every call.                                               *)
(***************************************************************************)
EXTENDS CompileIR

NoName == <<"none">>

Nested == {"is", "is1", "is2"}      \* where an instruction has instructions

(* The variables an instruction mentions: those of a block or of a branch  *)
(* are not its own.                                                        *)
instr_ids(i) ==
    (IF "x" \in DOMAIN i THEN {i.x} ELSE {})
    \cup (IF "cv" \in DOMAIN i THEN {cv.x : cv \in Reads(i.cv)} ELSE {})
    \cup (IF "cl" \in DOMAIN i /\ i.cl.k = "id" THEN {i.cl.x} ELSE {})

-----------------------------------------------------------------------------
(* Renaming: of the variables of a cval or a clexp, of every occurrence in *)
(* an instruction, and of the occurrences in a list up to a declaration of *)
(* the same name.                                                          *)
Renamed(from, to, x) == IF x = from THEN to ELSE x

RECURSIVE cval_rename(_, _, _)
cval_rename(from, to, cv) ==
    [f \in DOMAIN cv |->
       CASE f = "x" -> Renamed(from, to, cv.x)
         [] f \in {"of", "by"} -> cval_rename(from, to, cv[f])
         [] OTHER -> cv[f]]

clexp_rename(from, to, cl) ==
    IF cl.k = "id" THEN [cl EXCEPT !.x = Renamed(from, to, @)] ELSE cl

RECURSIVE instr_rename(_, _, _)
instr_rename(from, to, i) ==
    [f \in DOMAIN i |->
       CASE f = "x"  -> Renamed(from, to, i.x)
         [] f = "cv" -> cval_rename(from, to, i.cv)
         [] f = "cl" -> clexp_rename(from, to, i.cl)
         [] f \in Nested -> [n \in DOMAIN i[f] |-> instr_rename(from, to, i[f][n])]
         [] OTHER -> i[f]]

RECURSIVE instrs_rename(_, _, _)
instrs_rename(from, to, instrs) ==
    LET hidden(n) == \E m \in 1..n : instrs[m].op = "decl" /\ instrs[m].x = from
        rename(i) == [f \in DOMAIN i |-> IF f \in Nested THEN instrs_rename(from, to, i[f])
                                         ELSE instr_rename(from, to, i)[f]]
    IN  [n \in DOMAIN instrs |-> IF hidden(n) THEN instrs[n] ELSE rename(instrs[n])]

(* The instructions that pass the test, at every level. *)
filter_instrs(test(_), instrs) ==
    LET RECURSIVE Filter(_)
        Filter(is) ==
            LET kept == SelectSeq(is, test)
            IN  [n \in DOMAIN kept |->
                   [f \in DOMAIN kept[n] |->
                      IF f \in Nested THEN Filter(kept[n][f]) ELSE kept[n][f]]]
    IN  Filter(instrs)

(* F applied to the lists inside the first instruction, and to the rest. *)
Descend(F(_), instrs) ==
    LET i == Head(instrs)
    IN  <<[f \in DOMAIN i |-> IF f \in Nested THEN F(i[f]) ELSE i[f]]>> \o F(Tail(instrs))

-----------------------------------------------------------------------------
(* unique_names: a declaration of a name that was seen before gets a fresh *)
(* one, made of the position p.  The result is the code and the names seen.*)
RECURSIVE Unique(_, _, _)
Unique(p, seen, instrs) ==
    IF instrs = <<>> THEN [is |-> <<>>, seen |-> seen]
    ELSE LET i    == Head(instrs)
             next == [p EXCEPT ![Len(p)] = @ + 1]
             inner(n, s, f) == Unique(p \o <<n, 1>>, s, i[f])
             rest(s, new) == LET r == Unique(next, s, Tail(instrs))
                             IN  [r EXCEPT !.is = <<new>> \o @]
         IN  CASE i.op = "decl" /\ i.x \in seen ->
                    LET new == <<"u", p>>
                        r   == Unique(next, seen, Tail(instrs))
                    IN  [r EXCEPT !.is = <<[i EXCEPT !.x = new]>> \o instrs_rename(i.x, new, @)]
               [] i.op = "decl" /\ i.x \notin seen -> rest(seen \cup {i.x}, i)
               [] i.op \in {"block", "try"} ->
                    LET b == inner(1, seen, "is") IN rest(b.seen, [i EXCEPT !.is = b.is])
               [] i.op = "if" ->
                    LET b1 == inner(1, seen, "is1")
                        b2 == inner(2, b1.seen, "is2")
                    IN  rest(b2.seen, [i EXCEPT !.is1 = b1.is, !.is2 = b2.is])
               [] OTHER -> rest(seen, i)

unique_names(instrs) == Unique(<<1>>, {}, instrs).is

(* x = y; for variables of one type. *)
Copies(i, ty, x, y) ==
    i = icopy(CL_id(x, ty), F_id(y, ty))

(* The variable that x, of type ty and declared before instrs, stands for: *)
(* x is a copy of it, and is copied back; n counts these two.              *)
RECURSIVE AliasOf(_, _, _, _, _)
AliasOf(ty, x, n, alias, instrs) ==
    IF instrs = <<>> THEN IF n = 2 THEN alias ELSE NoName
    ELSE LET i == Head(instrs)
             scan(m, a) == AliasOf(ty, x, m, a, Tail(instrs))
         IN  CASE n = 0 ->
                    IF i.op = "copy" /\ i.cv.k = "id" /\ Copies(i, ty, x, i.cv.x)
                    THEN scan(1, i.cv.x) ELSE scan(0, alias)
               [] n = 1 ->
                    CASE Copies(i, ty, alias, x) -> scan(2, alias)
                      [] ~Copies(i, ty, alias, x) /\ alias \in instr_ids(i) -> NoName
                      [] OTHER -> scan(1, alias)
               [] n = 2 ->
                    IF i # iclear(ty, x) /\ x \in instr_ids(i) THEN NoName ELSE scan(2, alias)

(* The copies go, and so do all the clears. *)
RECURSIVE remove_alias(_)
remove_alias(instrs) ==
    IF instrs = <<>> THEN <<>>
    ELSE LET i     == Head(instrs)
             alias == IF i.op = "decl" THEN AliasOf(i.ty, i.x, 0, NoName, Tail(instrs)) ELSE NoName
             copies(j, x, y) == /\ j.op = "copy" /\ j.cl.k = "id" /\ j.cv.k = "id"
                                /\ j.cl.x = x /\ j.cv.x = y
             kept(j) == ~copies(j, i.x, alias) /\ ~copies(j, alias, i.x) /\ j.op # "clear"
             rest    == filter_instrs(kept, Tail(instrs))
         IN  IF alias = NoName THEN Descend(remove_alias, instrs)
             ELSE [n \in DOMAIN rest |-> instr_rename(i.x, alias, rest[n])]

(* The variable that can be replaced by x, of type ty and declared before  *)
(* instrs: the first declared after x, possibly in a block, if its value   *)
(* is copied to x and it is not used after that.                           *)
RECURSIVE CombineCopied(_, _, _), CombineScan(_, _, _, _), CombineWith(_, _, _)
CombineCopied(ty, c, instrs) ==
    IF instrs = <<>> THEN c
    ELSE LET i == Head(instrs)
         IN  CASE i = iclear(ty, c) -> c
               [] i # iclear(ty, c) /\ c \in instr_ids(i) -> NoName
               [] OTHER -> CombineCopied(ty, c, Tail(instrs))

CombineScan(ty, x, c, instrs) ==
    IF instrs = <<>> THEN NoName
    ELSE LET i == Head(instrs)
         IN  CASE Copies(i, ty, x, c) -> CombineCopied(ty, c, Tail(instrs))
               [] ~Copies(i, ty, x, c) /\ i.op # "clear" /\ x \in instr_ids(i) -> NoName
               [] OTHER -> CombineScan(ty, x, c, Tail(instrs))

Undecided == <<"undecided">>
CombineWith(ty, x, instrs) ==
    IF instrs = <<>> THEN Undecided
    ELSE LET i == Head(instrs)
             inner == IF i.op = "block" THEN CombineWith(ty, x, i.is) ELSE Undecided
         IN  CASE i.op = "decl" /\ i.ty = ty -> CombineScan(ty, x, i.x, Tail(instrs))
               [] inner # Undecided -> inner
               [] OTHER -> CombineWith(ty, x, Tail(instrs))

RECURSIVE combine_variables(_)
combine_variables(instrs) ==
    IF instrs = <<>> THEN <<>>
    ELSE LET i    == Head(instrs)
             c    == IF i.op = "decl" THEN CombineWith(i.ty, i.x, Tail(instrs)) ELSE NoName
             kept(j)   == ~(j.op \in {"decl", "clear"} /\ j.x = c)
             rest      == filter_instrs(kept, Tail(instrs))
             moves(j)  == ~(/\ j.op = "copy" /\ j.cl.k = "id" /\ j.cv.k = "id"
                            /\ j.cl.x = j.cv.x)
         IN  IF c \in {NoName, Undecided} THEN Descend(combine_variables, instrs)
             ELSE combine_variables(
                    <<i>> \o filter_instrs(moves, [n \in DOMAIN rest |->
                                                     instr_rename(c, i.x, rest[n])]))

(* The heap variables, but variants, are those of the whole function; a    *)
(* declaration gives them their initial value again.                       *)
hoist_ctyp(ty) == ty = "int"

RECURSIVE Hoist(_, _)
Hoist(p, instrs) ==
    IF instrs = <<>> THEN <<>>
    ELSE LET i     == Head(instrs)
             after == Tail(instrs)
             next  == [p EXCEPT ![Len(p)] = @ + 1]
             hid   == <<"gh", p>>
             inner(n, f) == Hoist(p \o <<n, 1>>, i[f])
             hoisted == i.op \in {"decl", "init", "clear"} /\ hoist_ctyp(i.ty)
         IN  CASE hoisted /\ i.op = "decl" ->
                    <<ireset(i.ty, hid)>> \o Hoist(next, instrs_rename(i.x, hid, after))
               [] hoisted /\ i.op = "init" ->
                    <<ireinit(i.ty, hid, i.cv)>> \o Hoist(next, instrs_rename(i.x, hid, after))
               [] hoisted /\ i.op = "clear" -> Hoist(next, after)
               [] i.op \in {"block", "try"} ->
                    <<[i EXCEPT !.is = inner(1, "is")]>> \o Hoist(next, after)
               [] i.op = "if" ->
                    <<[i EXCEPT !.is1 = inner(1, "is1"), !.is2 = inner(2, "is2")]>>
                    \o Hoist(next, after)
               [] OTHER -> <<i>> \o Hoist(next, after)

hoist_allocations(instrs) == Hoist(<<1>>, instrs)

optimize(passes, instrs) ==
    LET alias == IF "alias" \notin passes THEN instrs
                 ELSE combine_variables(remove_alias(unique_names(instrs)))
    IN  IF "hoist" \in passes THEN hoist_allocations(alias) ELSE alias
=============================================================================
