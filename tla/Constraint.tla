----------------------------- MODULE Constraint -----------------------------
(***************************************************************************)
(* The interface to the constraint solver, constraint.ml: problems are     *)
(* given to Z3, and with -memo_z3 the answers are kept in memory and, from *)
(* one run of sail to the next, in the file z3_problems of the current     *)
(* directory.  Several processes may use one file: the targets of a        *)
(* Makefile that are made in parallel, or interactive sessions.            *)
(*                                                                         *)
(* A problem is the set of its solutions, as far as they matter here: the  *)
(* values of the variable that solve_z3 asks for.                          *)
(***************************************************************************)
EXTENDS Integers, FiniteSets, FiniteSetsExt, Functions, Sequences

CONSTANTS
    Proc,           \* the processes
    Value,          \* the integers the variable may take
    Problem,        \* the problems that may be asked
    RecordCells,    \* the bytes of a record: the last one is the answer
    ChunkCells      \* the bytes of the buffer of a channel

ASSUME ProblemAssumption ==
    /\ Value \subseteq Int
    /\ Problem \subseteq SUBSET Value
    /\ IsFiniteSet(Problem)
    /\ \A problem \in Problem, v \in Value : problem \ {v} \in Problem

ASSUME SizeAssumption ==
    /\ RecordCells \in Nat /\ RecordCells > 1
    /\ ChunkCells \in Nat /\ ChunkCells > 0

VARIABLES
    pc,         \* whether a process is in load_files, and where
    known,      \* known_problems
    unsaved,    \* what a channel that saves is going to write
    pos,        \* how much of it is in the file
    file,       \* z3_problems
    reply       \* the last answer of call_z3 or solve_z3

vars == <<pc, known, unsaved, pos, file, reply>>

None == "none"
Answer == {"Unknown", "Sat", "Unsat"}

-----------------------------------------------------------------------------
(* Z3 is right when it answers.  It may also give up, or print an error.   *)
Z3Lines(problem) ==
    {IF problem = {} THEN "unsat" ELSE "sat", "unknown", "timeout", "error"}

(* Mutant: whatever is neither sat nor unknown. *)
MutResult(line) ==
    CASE line = "sat"     -> "Sat"
      [] line = "unknown" -> "Unknown"
      [] OTHER            -> "Unsat"

smt_result(line) ==
    CASE line = "unsat"   -> "Unsat"
      [] line = "unknown" -> "Unknown"
      [] OTHER            -> "Sat"

(* A file is a sequence of bytes.  A record is a digest and a byte for the *)
(* answer.  Digests are those of one problem only.  A byte that was never  *)
(* written is zero, and so is the byte for Unknown.                        *)
DigestByte(problem, k) == [digest |-> problem, place |-> k]
AnswerByte(answer)     == [answer |-> answer]
Zero                   == AnswerByte("Unknown")

Byte == [digest : Problem, place : 1..(RecordCells - 1)] \cup [answer : Answer]

Place(k, j) == RecordCells * (k - 1) + j

(* Mutant: the answer goes before the last byte of the digest. *)
MutRecordByte(map, problem, j) ==
    IF j = RecordCells - 1 THEN AnswerByte(map[problem]) ELSE DigestByte(problem, j)

RecordByte(map, problem, j) ==
    IF j = RecordCells THEN AnswerByte(map[problem]) ELSE DigestByte(problem, j)

(* What is written for a map whose problems are listed in some order.      *)
Records(map, list) ==
    [c \in 1..(RecordCells * Len(list)) |->
       LET k == (c - 1) \div RecordCells
       IN  RecordByte(map, list[k + 1], c - RecordCells * k)]

(* The records of a file: a last one that is not complete is left alone.   *)
RecordsOf(bytes) == 1..(Len(bytes) \div RecordCells)
HasDigest(bytes, k, problem) ==
    \A j \in 1..(RecordCells - 1) : bytes[Place(k, j)] = DigestByte(problem, j)
AnswerOf(bytes, k) == bytes[Place(k, RecordCells)]

(* The assertion of load_digests_err.                                      *)
IsFileOfDigests(bytes) ==
    \A k \in RecordsOf(bytes) : AnswerOf(bytes, k) \in [answer : Answer]

(* Mutant: a part of the digest is enough. *)
MutRead(bytes) ==
    [problem \in Problem |->
       LET ks == {k \in RecordsOf(bytes) : \E j \in 1..(RecordCells - 1) :
                     bytes[Place(k, j)] = DigestByte(problem, j)}
       IN  IF ks = {} THEN None ELSE AnswerOf(bytes, Max(ks)).answer]

(* What a file says of each problem; a later record of a problem wins.     *)
Read(bytes) ==
    [problem \in Problem |->
       LET ks == {k \in RecordsOf(bytes) : HasDigest(bytes, k, problem)}
       IN  IF ks = {} THEN None ELSE AnswerOf(bytes, Max(ks)).answer]

(* Mutant: only answers are worth saving. *)
MutSolved(map) == {problem \in Problem : map[problem] \in {"Sat", "Unsat"}}

Solved(map) == {problem \in Problem : map[problem] # None}
Orders(S)   == {list \in [1..Cardinality(S) -> S] : IsInjective(list)}

-----------------------------------------------------------------------------
NoReply == [of |-> "none"]
NoMap   == [problem \in Problem |-> None]

Init ==
    /\ pc = [p \in Proc |-> "idle"]
    /\ known = [p \in Proc |-> NoMap]
    /\ unsaved = [p \in Proc |-> <<>>]
    /\ pos = [p \in Proc |-> 0]
    /\ file = <<>>
    /\ reply = NoReply

Runs(p) == pc[p] \in {"idle", "checking"}

(* load_digests, at the start of load_files.  What the file says replaces  *)
(* what is known; without a file nothing changes.                          *)
Load(p) ==
    /\ pc[p] = "idle"
    /\ IsFileOfDigests(file)
    /\ known' = [known EXCEPT ![p] =
                   [problem \in Problem |->
                      IF Read(file)[problem] # None THEN Read(file)[problem] ELSE @[problem]]]
    /\ pc' = [pc EXCEPT ![p] = "checking"]
    /\ reply' = NoReply
    /\ UNCHANGED <<unsaved, pos, file>>

(* call_z3' gives an answer that is known, or asks Z3 and remembers what   *)
(* it said, whatever it said.                                              *)
Ask(p, problem, answer) ==
    \/ /\ known[p][problem] # None
       /\ answer = known[p][problem]
       /\ UNCHANGED known
    \/ /\ known[p][problem] = None
       /\ \E line \in Z3Lines(problem) : answer = smt_result(line)
       /\ known' = [known EXCEPT ![p][problem] = answer]

(* For prove_z3.  Rewrites after load_files check types too.               *)
call_z3(p, problem) ==
    /\ Runs(p)
    /\ \E answer \in Answer :
         /\ Ask(p, problem, answer)
         /\ reply' = [of |-> "call_z3", problem |-> problem, answer |-> answer]
    /\ UNCHANGED <<pc, unsaved, pos, file>>

(* The output of Z3 has a model whose value for the variable is not        *)
(* negative, or it has none that is recognised.  After unknown the model   *)
(* is any: nothing is asked of it.                                         *)
solve_z3(p, problem) ==
    /\ Runs(p)
    /\ \/ /\ \E v \in Value \cap Nat, answer \in Answer :
               /\ Ask(p, problem \ {v}, answer)
               /\ reply' = IF answer = "Unsat"
                           THEN [of |-> "solve_z3", problem |-> problem, value |-> v]
                           ELSE NoReply
       \/ reply' = NoReply /\ UNCHANGED known
    /\ UNCHANGED <<pc, unsaved, pos, file>>

(* Type checking fails: nothing is saved.                                  *)
Fail(p) ==
    /\ pc[p] = "checking"
    /\ pc' = [pc EXCEPT ![p] = "idle"]
    /\ reply' = NoReply
    /\ UNCHANGED <<known, unsaved, pos, file>>

(* save_digests, at the end of load_files: the file is truncated, then     *)
(* written whenever the buffer is full and when the channel is closed.     *)
(* The order is that of the digests: any order.                            *)
Open(p) ==
    /\ pc[p] = "checking"
    /\ \E list \in Orders(Solved(known[p])) :
         unsaved' = [unsaved EXCEPT ![p] = Records(known[p], list)]
    /\ pos' = [pos EXCEPT ![p] = 0]
    /\ file' = <<>>
    /\ pc' = [pc EXCEPT ![p] = "saving"]
    /\ reply' = NoReply
    /\ UNCHANGED known

(* Bytes i..n of source over a file that may be shorter.                   *)
Overwrite(bytes, source, i, n) ==
    [c \in 1..(IF n > Len(bytes) THEN n ELSE Len(bytes)) |->
       IF c \in i..n THEN source[c]
       ELSE IF c <= Len(bytes) THEN bytes[c] ELSE Zero]

(* Mutant: the buffer goes to the end of the file. *)
MutFlush(p) ==
    /\ pc[p] = "saving"
    /\ pos[p] < Len(unsaved[p])
    /\ LET n == IF pos[p] + ChunkCells < Len(unsaved[p]) THEN pos[p] + ChunkCells
                                                         ELSE Len(unsaved[p])
       IN  /\ file' = file \o SubSeq(unsaved[p], pos[p] + 1, n)
           /\ pos' = [pos EXCEPT ![p] = n]
    /\ reply' = NoReply
    /\ UNCHANGED <<pc, known, unsaved>>

Flush(p) ==
    /\ pc[p] = "saving"
    /\ pos[p] < Len(unsaved[p])
    /\ LET n == IF pos[p] + ChunkCells < Len(unsaved[p]) THEN pos[p] + ChunkCells
                                                         ELSE Len(unsaved[p])
       IN  /\ file' = Overwrite(file, unsaved[p], pos[p] + 1, n)
           /\ pos' = [pos EXCEPT ![p] = n]
    /\ reply' = NoReply
    /\ UNCHANGED <<pc, known, unsaved>>

Close(p) ==
    /\ pc[p] = "saving"
    /\ pos[p] = Len(unsaved[p])
    /\ unsaved' = [unsaved EXCEPT ![p] = <<>>]
    /\ pos' = [pos EXCEPT ![p] = 0]
    /\ pc' = [pc EXCEPT ![p] = "idle"]
    /\ reply' = NoReply
    /\ UNCHANGED <<known, file>>

(* The process ends, or is killed: what it knows is lost, and what it has  *)
(* not yet written.                                                        *)
Exit(p) ==
    /\ pc' = [pc EXCEPT ![p] = "idle"]
    /\ known' = [known EXCEPT ![p] = NoMap]
    /\ unsaved' = [unsaved EXCEPT ![p] = <<>>]
    /\ pos' = [pos EXCEPT ![p] = 0]
    /\ reply' = NoReply
    /\ UNCHANGED file

Next ==
    \E p \in Proc :
        \/ Load(p) \/ Fail(p) \/ Open(p) \/ Flush(p) \/ Close(p) \/ Exit(p)
        \/ \E problem \in Problem : call_z3(p, problem) \/ solve_z3(p, problem)

Spec == Init /\ [][Next]_vars

-----------------------------------------------------------------------------
TypeOK ==
    /\ pc \in [Proc -> {"idle", "checking", "saving"}]
    /\ known \in [Proc -> [Problem -> Answer \cup {None}]]
    /\ unsaved \in [Proc -> Seq(Byte)]
    /\ pos \in [Proc -> Nat]
    /\ file \in Seq(Byte)
    /\ reply \in {NoReply}
                 \cup [of : {"call_z3"}, problem : Problem, answer : Answer]
                 \cup [of : {"solve_z3"}, problem : Problem, value : Value]

(* The type checker takes a property for proved when its negation is       *)
(* Unsat, and a number for the solution when solve_z3 returns it.  Both    *)
(* are right, though answers come from a file that other processes may be  *)
(* writing, or were writing when they were killed.                         *)
Sound ==
    /\ reply.of = "call_z3" /\ reply.answer = "Unsat" => reply.problem = {}
    /\ reply.of = "solve_z3" => reply.problem \subseteq {reply.value}

(* The assertion of load_digests_err never fails: no byte of a digest is   *)
(* taken for an answer.                                                    *)
NeverAsserts == IsFileOfDigests(file)

(* What is in the file, or is on its way there.                            *)
Kept ==
    IF \E p \in Proc : pc[p] = "saving"
    THEN known[CHOOSE p \in Proc : pc[p] = "saving"]
    ELSE Read(file)

(* With one process an answer that was saved is never forgotten nor        *)
(* changed, unless the process is killed while it saves: not by a run that *)
(* fails, nor by one that asks other questions.                            *)
KilledSaving == \E p \in Proc : pc[p] = "saving" /\ Exit(p)
NothingLost ==
    \A problem \in Problem : Kept[problem] # None => Kept'[problem] = Kept[problem]
Durable == [][KilledSaving \/ NothingLost]_vars
=============================================================================
