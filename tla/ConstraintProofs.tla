-------------------------- MODULE ConstraintProofs --------------------------
(***************************************************************************)
(* Proofs about the memory of the solver interface, for every set of       *)
(* problems, every size of a record and every size of the buffer.          *)
(***************************************************************************)
EXTENDS Constraint, SequenceTheorems, FiniteSetTheorems, WellFoundedInduction, TLAPS

-----------------------------------------------------------------------------
(* Arithmetic of the places of records. *)
LEMMA Monotonic ==
    ASSUME NEW r \in Nat, NEW a \in Nat, NEW b \in Nat, a <= b
    PROVE  r * a <= r * b
  OBVIOUS

LEMMA Quotient ==
    ASSUME NEW r \in Nat, r > 0, NEW n \in Nat
    PROVE  n \div r \in Nat /\ r * (n \div r) <= n /\ n < r * (n \div r) + r
  OBVIOUS

LEMMA QuotientIs ==
    ASSUME NEW r \in Nat, r > 0, NEW a \in Nat, NEW j \in 0..(r - 1)
    PROVE  (r * a + j) \div r = a
<1> DEFINE q == (r * a + j) \div r
<1>1. r * a \in Nat
  OBVIOUS
<1>2. q \in Nat /\ r * q <= r * a + j /\ r * a + j < r * q + r
  BY <1>1, Quotient
<1>3. CASE q < a
  <2>1. r * (q + 1) <= r * a
    BY <1>2, <1>3, Monotonic
  <2>2. r * (q + 1) = r * q + r
    BY <1>2
  <2> QED
    BY <1>2, <2>1, <2>2
<1>4. CASE q > a
  <2>1. r * (a + 1) <= r * q
    BY <1>2, <1>4, Monotonic
  <2>2. r * (a + 1) = r * a + r
    BY <1>2
  <2> QED
    BY <1>2, <2>1, <2>2
<1> QED
  BY <1>2, <1>3, <1>4

(* A set of numbers up to n has a largest one. *)
LEMMA MaxExists ==
    ASSUME NEW n \in Nat, NEW S \in SUBSET (1..n), S # {}
    PROVE  Max(S) \in S /\ \A x \in S : x <= Max(S)
<1> DEFINE T == {m \in Nat : \E x \in S : m = n - x}
<1> DEFINE R == {ij \in Nat \X Nat : ij[1] < ij[2]}
<1>1. IsWellFoundedOn(R, Nat)
  BY NatLessThanWellFounded, Zenon DEF OpToRel
<1>2. T \subseteq Nat /\ T # {}
  <2>1. PICK x \in S : TRUE
    OBVIOUS
  <2>2. n - x \in T
    BY <2>1
  <2> QED
    BY <2>2
<1>3. PICK m \in T : \A y \in T : ~ (<<y, m>> \in R)
  <2> HIDE DEF R, T
  <2> QED
    BY <1>1, <1>2, WFMin
<1>4. PICK x \in S : m = n - x
  OBVIOUS
<1>5. \A y \in S : y <= x
  <2> SUFFICES ASSUME NEW y \in S, y > x
               PROVE  FALSE
    OBVIOUS
  <2>1. n - y \in T /\ n - y < m /\ m \in Nat
    BY <1>4
  <2>2. <<n - y, m>> \in R
    BY <2>1
  <2> QED
    BY <1>3, <2>1, <2>2
<1> QED
  BY <1>5 DEF Max

(* The bytes of a record of a file are bytes of the file, between those of *)
(* the records before it and after it.                                     *)
LEMMA PlaceBounds ==
    ASSUME NEW k \in Nat \ {0}, NEW j \in 1..RecordCells
    PROVE  /\ Place(k, j) \in Nat \ {0}
           /\ RecordCells * (k - 1) < Place(k, j)
           /\ Place(k, j) <= RecordCells * k
<1>1. k - 1 \in Nat /\ RecordCells * (k - 1) \in Nat
  BY SizeAssumption
<1>2. RecordCells * k = RecordCells * (k - 1) + RecordCells
  BY SizeAssumption
<1> QED
  BY <1>1, <1>2, SizeAssumption DEF Place

LEMMA RecordsOfFile ==
    ASSUME NEW S, NEW bytes \in Seq(S)
    PROVE  \A k \in Nat \ {0} : k \in RecordsOf(bytes) <=> RecordCells * k <= Len(bytes)
<1>1. Len(bytes) \in Nat
  OBVIOUS
<1> DEFINE q == Len(bytes) \div RecordCells
<1>2. q \in Nat /\ RecordCells * q <= Len(bytes) /\ Len(bytes) < RecordCells * q + RecordCells
  BY <1>1, Quotient, SizeAssumption
<1> SUFFICES ASSUME NEW k \in Nat \ {0}
             PROVE  k <= q <=> RecordCells * k <= Len(bytes)
  BY <1>2 DEF RecordsOf
<1>3. CASE k <= q
  BY <1>1, <1>2, <1>3, Monotonic, SizeAssumption
<1>4. CASE k > q
  <2>1. RecordCells * (q + 1) <= RecordCells * k
    BY <1>2, <1>4, Monotonic, SizeAssumption
  <2>2. RecordCells * (q + 1) = RecordCells * q + RecordCells
    BY <1>2, SizeAssumption
  <2>3. RecordCells * k \in Nat
    BY SizeAssumption
  <2> QED
    BY <1>1, <1>2, <1>4, <2>1, <2>2, <2>3, SizeAssumption
<1> QED
  BY <1>2, <1>3, <1>4

-----------------------------------------------------------------------------
Map   == [Problem -> Answer \cup {None}]
Bytes == Seq(Byte)

(* What is written for a map: one record for each problem of the list.     *)
LEMMA RecordsType ==
    ASSUME NEW map \in Map, NEW n \in Nat, NEW list \in [1..n -> Solved(map)]
    PROVE  /\ Records(map, list) \in Bytes
           /\ Len(Records(map, list)) = RecordCells * n
<1>1. list \in Seq(Solved(map)) /\ Len(list) = n
  BY SeqDef
<1> DEFINE m == RecordCells * n
<1>2. m \in Nat
  BY SizeAssumption
<1>3. ASSUME NEW c \in 1..m, NEW q, q = (c - 1) \div RecordCells
      PROVE  RecordByte(map, list[q + 1], c - RecordCells * q) \in Byte
  <2>1. q \in Nat /\ RecordCells * q <= c - 1 /\ c - 1 < RecordCells * q + RecordCells
    BY <1>2, <1>3, Quotient, SizeAssumption
  <2>2. q + 1 \in 1..n
    <3>1. CASE q >= n
      <4>1. RecordCells * n <= RecordCells * q
        BY <2>1, <3>1, Monotonic, SizeAssumption
      <4> QED
        BY <1>2, <2>1, <4>1, SizeAssumption
    <3> QED
      BY <2>1, <3>1
  <2>3. list[q + 1] \in Problem /\ map[list[q + 1]] \in Answer
    BY <2>2 DEF Solved, Map
  <2>4. c - RecordCells * q \in 1..RecordCells
    BY <1>2, <2>1, SizeAssumption
  <2>5. CASE c - RecordCells * q = RecordCells
    BY <2>3, <2>5 DEF RecordByte, AnswerByte, Byte
  <2>6. CASE c - RecordCells * q # RecordCells
    <3>1. c - RecordCells * q \in 1..(RecordCells - 1)
      BY <2>4, <2>6, SizeAssumption
    <3> QED
      BY <2>3, <2>6, <3>1 DEF RecordByte, DigestByte, Byte
  <2> QED
    BY <2>5, <2>6
<1>4. Records(map, list) \in [1..m -> Byte]
  BY <1>1, <1>3 DEF Records
<1> HIDE DEF m
<1>5. Records(map, list) \in Seq(Byte) /\ Len(Records(map, list)) = m
  BY <1>2, <1>4, SeqDef
<1> QED
  BY <1>5 DEF Bytes, m

LEMMA RecordsAre ==
    ASSUME NEW map \in Map, NEW n \in Nat, NEW list \in [1..n -> Solved(map)],
           NEW k \in 1..n, NEW j \in 1..RecordCells
    PROVE  Records(map, list)[Place(k, j)] = RecordByte(map, list[k], j)
<1>1. list \in Seq(Solved(map)) /\ Len(list) = n
  BY SeqDef
<1> DEFINE c == Place(k, j)
<1>2. c \in 1..(RecordCells * n)
  <2>1. c \in Nat \ {0} /\ c <= RecordCells * k
    BY PlaceBounds
  <2>2. RecordCells * k <= RecordCells * n
    BY Monotonic, SizeAssumption
  <2>3. RecordCells * k \in Nat /\ RecordCells * n \in Nat
    BY SizeAssumption
  <2> QED
    BY <2>1, <2>2, <2>3
<1>3. (c - 1) \div RecordCells = k - 1
  <2>1. RecordCells * (k - 1) \in Nat
    BY SizeAssumption
  <2>2. c - 1 = RecordCells * (k - 1) + (j - 1)
    BY <2>1, SizeAssumption DEF Place
  <2>3. j - 1 \in 0..(RecordCells - 1) /\ k - 1 \in Nat /\ RecordCells > 0 /\ RecordCells \in Nat
    BY SizeAssumption
  <2> HIDE DEF c
  <2> QED
    BY <2>2, <2>3, QuotientIs
<1>4. c - RecordCells * (k - 1) = j /\ k - 1 + 1 = k
  <2>1. RecordCells * (k - 1) \in Nat
    BY SizeAssumption
  <2>2. c = RecordCells * (k - 1) + j
    BY DEF Place
  <2> HIDE DEF c
  <2> QED
    BY <2>1, <2>2
<1> HIDE DEF c
<1>5. Records(map, list)[c] = RecordByte(map, list[k - 1 + 1], c - RecordCells * (k - 1))
  BY <1>1, <1>2, <1>3 DEF Records
<1> QED
  BY <1>4, <1>5 DEF c

-----------------------------------------------------------------------------
(* What a file says of a problem is what one of its records says.          *)
LEMMA ReadIsOfRecord ==
    ASSUME NEW bytes \in Bytes, NEW problem \in Problem, Read(bytes)[problem] # None
    PROVE  \E k \in RecordsOf(bytes) :
               /\ HasDigest(bytes, k, problem)
               /\ Read(bytes)[problem] = AnswerOf(bytes, k).answer
<1> DEFINE ks == {k \in RecordsOf(bytes) : HasDigest(bytes, k, problem)}
<1>1. Read(bytes)[problem] = IF ks = {} THEN None ELSE AnswerOf(bytes, Max(ks)).answer
  BY DEF Read
<1>2. ks # {}
  BY <1>1
<1>3. Len(bytes) \div RecordCells \in Nat
  BY Quotient, SizeAssumption DEF Bytes
<1>4. ks \in SUBSET (1..(Len(bytes) \div RecordCells))
  BY DEF RecordsOf
<1>5. Max(ks) \in ks
  <2> HIDE DEF ks
  <2> QED
    BY <1>2, <1>3, <1>4, MaxExists
<1> QED
  BY <1>1, <1>2, <1>5

LEMMA ReadType ==
    ASSUME NEW bytes \in Bytes, IsFileOfDigests(bytes)
    PROVE  Read(bytes) \in Map
<1>1. ASSUME NEW problem \in Problem
      PROVE  Read(bytes)[problem] \in Answer \cup {None}
  <2>1. CASE Read(bytes)[problem] # None
    <3>1. PICK k \in RecordsOf(bytes) : Read(bytes)[problem] = AnswerOf(bytes, k).answer
      BY <2>1, ReadIsOfRecord
    <3>2. AnswerOf(bytes, k) \in [answer : Answer]
      BY DEF IsFileOfDigests
    <3> QED
      BY <3>1, <3>2
  <2> QED
    BY <2>1
<1>2. Read(bytes) = [problem \in Problem |-> Read(bytes)[problem]]
  BY DEF Read
<1> QED
  BY <1>1, <1>2 DEF Map

(* An answer is right for a problem: it may be Unsat only if the problem   *)
(* has no solution.  A file is coherent if its answers are right for the   *)
(* problems whose digests they follow.                                     *)
Right(problem, answer) == answer = "Unsat" => problem = {}
RightMap(map) == \A problem \in Problem : Right(problem, map[problem])
Coherent(bytes) ==
    \A k \in RecordsOf(bytes) :
        /\ AnswerOf(bytes, k) \in [answer : Answer]
        /\ \A problem \in Problem :
               HasDigest(bytes, k, problem) => Right(problem, AnswerOf(bytes, k).answer)

LEMMA CoherentRead ==
    ASSUME NEW bytes \in Bytes, Coherent(bytes)
    PROVE  Read(bytes) \in Map /\ RightMap(Read(bytes))
<1>1. Read(bytes) \in Map
  BY ReadType DEF Coherent, IsFileOfDigests
<1>2. ASSUME NEW problem \in Problem
      PROVE  Right(problem, Read(bytes)[problem])
  <2>1. CASE Read(bytes)[problem] # None
    BY <2>1, ReadIsOfRecord DEF Coherent
  <2>2. CASE Read(bytes)[problem] = None
    BY <2>2 DEF Right, None
  <2> QED
    BY <2>1, <2>2
<1> QED
  BY <1>1, <1>2 DEF RightMap

LEMMA RecordsOfRecords ==
    ASSUME NEW map \in Map, NEW n \in Nat, NEW list \in [1..n -> Solved(map)]
    PROVE  RecordsOf(Records(map, list)) = 1..n
<1> DEFINE bytes == Records(map, list)
<1>1. bytes \in Seq(Byte) /\ Len(bytes) = RecordCells * n
  BY RecordsType DEF Bytes
<1>2. ASSUME NEW k \in RecordsOf(bytes)
      PROVE  k \in 1..n
  <2>1. k \in Nat \ {0}
    BY <1>1 DEF RecordsOf
  <2>2. RecordCells * k <= RecordCells * n
    BY <1>1, <2>1, RecordsOfFile
  <2>3. CASE k > n
    <3>1. RecordCells * (n + 1) <= RecordCells * k
      BY <2>1, <2>3, Monotonic, SizeAssumption
    <3>2. RecordCells * (n + 1) = RecordCells * n + RecordCells
      BY SizeAssumption
    <3>3. RecordCells * n \in Nat /\ RecordCells * k \in Nat
      BY <2>1, SizeAssumption
    <3> QED
      BY <2>2, <3>1, <3>2, <3>3, SizeAssumption
  <2> QED
    BY <2>1, <2>3
<1>3. ASSUME NEW k \in 1..n
      PROVE  k \in RecordsOf(bytes)
  <2>1. RecordCells * k <= RecordCells * n
    BY Monotonic, SizeAssumption
  <2> QED
    BY <1>1, <2>1, RecordsOfFile
<1> HIDE DEF bytes
<1>4. RecordsOf(bytes) = 1..n
  BY <1>2, <1>3
<1> QED
  BY <1>4 DEF bytes

LEMMA CoherentRecords ==
    ASSUME NEW map \in Map, RightMap(map),
           NEW n \in Nat, NEW list \in [1..n -> Solved(map)]
    PROVE  Coherent(Records(map, list))
<1> DEFINE bytes == Records(map, list)
<1>1. bytes \in Seq(Byte) /\ Len(bytes) = RecordCells * n
  BY RecordsType DEF Bytes
<1>2. RecordsOf(bytes) = 1..n
  BY RecordsOfRecords
<1>3. ASSUME NEW k \in RecordsOf(bytes)
      PROVE  /\ list[k] \in Problem /\ map[list[k]] \in Answer
             /\ AnswerOf(bytes, k) = AnswerByte(map[list[k]])
             /\ bytes[Place(k, 1)] = DigestByte(list[k], 1)
  <2>1. k \in 1..n
    BY <1>2
  <2>2. list[k] \in Problem /\ map[list[k]] \in Answer
    BY <2>1 DEF Solved, Map
  <2>3. RecordCells \in 1..RecordCells /\ 1 \in 1..RecordCells /\ 1 # RecordCells
    BY SizeAssumption
  <2> QED
    BY <2>1, <2>2, <2>3, RecordsAre DEF AnswerOf, RecordByte
<1>4. ASSUME NEW k \in RecordsOf(bytes), NEW problem \in Problem,
             HasDigest(bytes, k, problem)
      PROVE  problem = list[k]
  <2>1. 1 \in 1..(RecordCells - 1)
    BY SizeAssumption
  <2>2. DigestByte(problem, 1) = DigestByte(list[k], 1)
    BY <1>3, <1>4, <2>1 DEF HasDigest
  <2> QED
    BY <2>2 DEF DigestByte
<1> HIDE DEF bytes
<1>5. Coherent(bytes)
  BY <1>3, <1>4 DEF Coherent, RightMap, AnswerByte
<1> QED
  BY <1>5 DEF bytes

-----------------------------------------------------------------------------
LEMMA OverwriteIs ==
    ASSUME NEW bytes \in Bytes, NEW source \in Bytes,
           NEW i \in Nat \ {0}, NEW n \in Nat, n <= Len(source)
    PROVE  LET new == Overwrite(bytes, source, i, n)
           IN  /\ new \in Bytes
               /\ Len(new) = IF n > Len(bytes) THEN n ELSE Len(bytes)
               /\ \A c \in 1..Len(new) :
                      new[c] = IF c \in i..n THEN source[c]
                               ELSE IF c <= Len(bytes) THEN bytes[c] ELSE Zero
<1> DEFINE new == Overwrite(bytes, source, i, n)
           m   == IF n > Len(bytes) THEN n ELSE Len(bytes)
<1>1. m \in Nat /\ Len(bytes) \in Nat /\ Len(source) \in Nat
  BY DEF Bytes
<1>2. Zero \in Byte
  BY DEF Zero, AnswerByte, Byte, Answer
<1>3. \A c \in 1..m : (IF c \in i..n THEN source[c]
                       ELSE IF c <= Len(bytes) THEN bytes[c] ELSE Zero) \in Byte
  <2> SUFFICES ASSUME NEW c \in 1..m
               PROVE  (IF c \in i..n THEN source[c]
                       ELSE IF c <= Len(bytes) THEN bytes[c] ELSE Zero) \in Byte
    OBVIOUS
  <2>1. c \in i..n => source[c] \in Byte
    BY <1>1 DEF Bytes
  <2>2. c <= Len(bytes) => bytes[c] \in Byte
    BY <1>1 DEF Bytes
  <2> QED
    BY <1>2, <2>1, <2>2
<1>4. new \in [1..m -> Byte]
  BY <1>3 DEF Overwrite
<1>5. new \in Seq(Byte) /\ Len(new) = m
  BY <1>1, <1>4, SeqDef
<1> QED
  BY <1>5 DEF Overwrite, Bytes

(* The part of the channel that Flush writes. *)
LEMMA FlushBounds ==
    ASSUME NEW p \in Proc, TypeOK, Flush(p)
    PROVE  \E n \in Nat :
              /\ n <= Len(unsaved[p]) /\ pos[p] < n /\ pos[p] < Len(unsaved[p])
              /\ n = IF pos[p] + ChunkCells < Len(unsaved[p]) THEN pos[p] + ChunkCells
                                                              ELSE Len(unsaved[p])
              /\ file' = Overwrite(file, unsaved[p], pos[p] + 1, n)
              /\ pos' = [pos EXCEPT ![p] = n]
<1> DEFINE n == IF pos[p] + ChunkCells < Len(unsaved[p]) THEN pos[p] + ChunkCells
                                                        ELSE Len(unsaved[p])
<1>1. pos[p] \in Nat /\ Len(unsaved[p]) \in Nat /\ pos[p] < Len(unsaved[p])
  BY DEF TypeOK, Flush
<1>2. n \in Nat /\ n <= Len(unsaved[p]) /\ pos[p] < n
  BY <1>1, SizeAssumption
<1> QED
  BY <1>1, <1>2 DEF Flush

(* The channel of a process that saves is for the map of that process.     *)
LEMMA OpenIs ==
    ASSUME NEW p \in Proc, known \in [Proc -> Map], Open(p)
    PROVE  \E n \in Nat : \E list \in [1..n -> Solved(known[p])] :
              /\ n <= Cardinality(Problem)
              /\ unsaved' = [unsaved EXCEPT ![p] = Records(known[p], list)]
<1> DEFINE n == Cardinality(Solved(known[p]))
<1>1. Solved(known[p]) \in SUBSET Problem
  BY DEF Solved
<1>2. n \in Nat /\ n <= Cardinality(Problem)
  BY <1>1, FS_Subset, FS_CardinalityType, ProblemAssumption
<1> QED
  BY <1>2 DEF Open, Orders

-----------------------------------------------------------------------------
LEMMA InitType == Init => TypeOK
  BY DEF Init, TypeOK, NoMap, NoReply, Answer

(* What Ask does, whatever it is asked.                                    *)
LEMMA AskType ==
    ASSUME TypeOK, NEW p \in Proc, NEW problem \in Problem, NEW answer,
           Ask(p, problem, answer)
    PROVE  /\ answer \in Answer
           /\ \/ UNCHANGED known /\ answer = known[p][problem]
              \/ /\ known' = [known EXCEPT ![p][problem] = answer]
                 /\ \E line \in Z3Lines(problem) : answer = smt_result(line)
           /\ known' \in [Proc -> Map]
<1>1. known \in [Proc -> Map] /\ known[p] \in Map
  BY DEF TypeOK, Map
<1>2. CASE known[p][problem] # None /\ answer = known[p][problem] /\ UNCHANGED known
  BY <1>1, <1>2 DEF Map
<1>3. CASE /\ \E line \in Z3Lines(problem) : answer = smt_result(line)
           /\ known' = [known EXCEPT ![p][problem] = answer]
  <2>1. answer \in Answer
    BY <1>3 DEF smt_result, Answer
  <2> QED
    BY <1>1, <1>3, <2>1 DEF Map
<1> QED
  BY <1>2, <1>3 DEF Ask

LEMMA NextType == TypeOK /\ [Next]_vars => TypeOK'
<1> SUFFICES ASSUME TypeOK, [Next]_vars
             PROVE  TypeOK'
  OBVIOUS
<1> USE DEF TypeOK
<1>1. known \in [Proc -> Map] /\ file \in Bytes /\ unsaved \in [Proc -> Bytes]
  BY DEF Map, Bytes
<1>2. ASSUME NEW p \in Proc, Load(p)
      PROVE  TypeOK'
  <2>1. Read(file) \in Map
    BY <1>1, <1>2, ReadType DEF Load
  <2>2. known' \in [Proc -> Map]
    BY <1>1, <1>2, <2>1 DEF Load, Map
  <2> QED
    BY <1>2, <2>2 DEF Load, Map
<1>3. ASSUME NEW p \in Proc, NEW problem \in Problem, call_z3(p, problem)
      PROVE  TypeOK'
  <2>1. PICK answer \in Answer :
           /\ Ask(p, problem, answer)
           /\ reply' = [of |-> "call_z3", problem |-> problem, answer |-> answer]
    BY <1>3 DEF call_z3
  <2>2. known' \in [Proc -> Map]
    BY <2>1, AskType
  <2> QED
    BY <1>3, <2>1, <2>2 DEF call_z3, Map
<1>4. ASSUME NEW p \in Proc, NEW problem \in Problem, solve_z3(p, problem)
      PROVE  TypeOK'
  <2>1. CASE reply' = NoReply /\ UNCHANGED known
    BY <1>4, <2>1 DEF solve_z3
  <2>2. ASSUME NEW v \in Value \cap Nat, NEW answer \in Answer,
               Ask(p, problem \ {v}, answer),
               reply' = IF answer = "Unsat"
                        THEN [of |-> "solve_z3", problem |-> problem, value |-> v]
                        ELSE NoReply
        PROVE  TypeOK'
    <3>1. problem \ {v} \in Problem
      BY ProblemAssumption
    <3>2. known' \in [Proc -> Map]
      BY <2>2, <3>1, AskType
    <3> QED
      BY <1>4, <2>2, <3>2 DEF solve_z3, Map
  <2> QED
    BY <1>4, <2>1, <2>2 DEF solve_z3
<1>5. ASSUME NEW p \in Proc, Open(p)
      PROVE  TypeOK'
  <2>0. PICK n \in Nat : \E list \in [1..n -> Solved(known[p])] :
           unsaved' = [unsaved EXCEPT ![p] = Records(known[p], list)]
    BY <1>1, <1>5, OpenIs
  <2>1. PICK list \in [1..n -> Solved(known[p])] :
           unsaved' = [unsaved EXCEPT ![p] = Records(known[p], list)]
    BY <2>0
  <2>2. Records(known[p], list) \in Bytes
    BY <1>1, RecordsType
  <2> QED
    BY <1>5, <2>1, <2>2 DEF Open, Bytes
<1>6. ASSUME NEW p \in Proc, Flush(p)
      PROVE  TypeOK'
  <2>1. PICK n \in Nat :
           /\ n <= Len(unsaved[p])
           /\ file' = Overwrite(file, unsaved[p], pos[p] + 1, n)
           /\ pos' = [pos EXCEPT ![p] = n]
    BY <1>6, FlushBounds
  <2>2. pos[p] + 1 \in Nat \ {0} /\ unsaved[p] \in Bytes
    BY <1>1
  <2>3. file' \in Seq(Byte)
    BY <1>1, <2>1, <2>2, OverwriteIs DEF Bytes
  <2> QED
    BY <1>6, <2>1, <2>3 DEF Flush
<1>7. ASSUME NEW p \in Proc, Fail(p) \/ Close(p)
      PROVE  TypeOK'
  <2>1. CASE Fail(p)
    BY <2>1 DEF Fail
  <2>2. CASE Close(p)
    BY <2>2 DEF Close
  <2> QED
    BY <1>7, <2>1, <2>2
<1>8. ASSUME NEW p \in Proc, Exit(p)
      PROVE  TypeOK'
  BY <1>8 DEF Exit, NoMap
<1>9. CASE UNCHANGED vars
  BY <1>9 DEF vars
<1> QED
  BY <1>2, <1>3, <1>4, <1>5, <1>6, <1>7, <1>8, <1>9 DEF Next

(* Type correctness of the solver interface.                               *)
THEOREM TypeCorrect == Spec => []TypeOK
  BY InitType, NextType, PTL DEF Spec

-----------------------------------------------------------------------------
(* The invariant of everything but the bytes of the file while it is       *)
(* written: all that is known is right, and so is all that is saved.       *)
Inv ==
    /\ TypeOK
    /\ Sound
    /\ \A p \in Proc : RightMap(known[p]) /\ Coherent(unsaved[p])
    /\ Coherent(file)

LEMMA EmptyIsCoherent == <<>> \in Bytes /\ Coherent(<<>>)
<1>1. <<>> \in Seq(Byte) /\ Len(<<>>) = 0
  OBVIOUS
<1>2. ASSUME NEW k \in RecordsOf(<<>>)
      PROVE  FALSE
  <2>1. 0 \div RecordCells = 0
    BY SizeAssumption
  <2>2. k \in 1..0
    BY <1>1, <2>1 DEF RecordsOf
  <2> QED
    BY <2>2
<1> QED
  BY <1>1, <1>2 DEF Coherent, Bytes

LEMMA InitInv == Init => Inv
<1> SUFFICES ASSUME Init
             PROVE  Inv
  OBVIOUS
<1>1. Sound
  BY DEF Init, Sound, NoReply
<1>2. \A p \in Proc : RightMap(known[p])
  BY DEF Init, NoMap, RightMap, Right, None
<1> QED
  BY <1>1, <1>2, InitType, EmptyIsCoherent DEF Init, Inv

(* An answer of call_z3 is right.                                          *)
LEMMA AskIsRight ==
    ASSUME Inv, NEW p \in Proc, NEW problem \in Problem, NEW answer,
           Ask(p, problem, answer)
    PROVE  Right(problem, answer) /\ \A q \in Proc : RightMap(known'[q])
<1>1. /\ answer \in Answer
      /\ \/ UNCHANGED known /\ answer = known[p][problem]
         \/ /\ known' = [known EXCEPT ![p][problem] = answer]
            /\ \E line \in Z3Lines(problem) : answer = smt_result(line)
  BY AskType DEF Inv
<1>2. Right(problem, answer)
  BY <1>1 DEF Inv, RightMap, Right, Z3Lines, smt_result
<1>3. known \in [Proc -> Map]
  BY DEF Inv, TypeOK, Map
<1> QED
  BY <1>1, <1>2, <1>3 DEF Inv, RightMap, Map

LEMMA NextInv ==
    ASSUME Inv, [Next]_vars, Coherent(file)'
    PROVE  Inv'
<1>1. TypeOK /\ TypeOK' /\ known \in [Proc -> Map] /\ file \in Bytes
      /\ unsaved \in [Proc -> Bytes]
  BY NextType DEF Inv, TypeOK, Map, Bytes
<1>2. ASSUME NEW p \in Proc, Load(p)
      PROVE  Inv'
  <2>1. Read(file) \in Map /\ RightMap(Read(file))
    BY <1>1, CoherentRead DEF Inv
  <2>2. \A q \in Proc : RightMap(known'[q])
    BY <1>1, <1>2, <2>1 DEF Load, Inv, RightMap, Map
  <2>3. Sound'
    BY <1>2 DEF Load, Sound, NoReply
  <2> QED
    BY <1>1, <1>2, <2>2, <2>3 DEF Load, Inv
<1>3. ASSUME NEW p \in Proc, NEW problem \in Problem, call_z3(p, problem)
      PROVE  Inv'
  <2>1. PICK answer \in Answer :
           /\ Ask(p, problem, answer)
           /\ reply' = [of |-> "call_z3", problem |-> problem, answer |-> answer]
    BY <1>3 DEF call_z3
  <2>2. Right(problem, answer) /\ \A q \in Proc : RightMap(known'[q])
    BY <2>1, AskIsRight
  <2>3. Sound'
    BY <2>1, <2>2 DEF Sound, Right
  <2> QED
    BY <1>1, <1>3, <2>2, <2>3 DEF call_z3, Inv
<1>4. ASSUME NEW p \in Proc, NEW problem \in Problem, solve_z3(p, problem)
      PROVE  Inv'
  <2>1. CASE reply' = NoReply /\ UNCHANGED known
    BY <1>1, <1>4, <2>1 DEF solve_z3, Inv, Sound, NoReply
  <2>2. ASSUME NEW v \in Value \cap Nat, NEW answer \in Answer,
               Ask(p, problem \ {v}, answer),
               reply' = IF answer = "Unsat"
                        THEN [of |-> "solve_z3", problem |-> problem, value |-> v]
                        ELSE NoReply
        PROVE  Inv'
    <3>1. problem \ {v} \in Problem
      BY ProblemAssumption
    <3>2. Right(problem \ {v}, answer) /\ \A q \in Proc : RightMap(known'[q])
      BY <2>2, <3>1, AskIsRight
    <3>3. Sound'
      BY <2>2, <3>2 DEF Sound, Right, NoReply
    <3> QED
      BY <1>1, <1>4, <3>2, <3>3 DEF solve_z3, Inv
  <2> QED
    BY <1>4, <2>1, <2>2 DEF solve_z3
<1>5. ASSUME NEW p \in Proc, Open(p)
      PROVE  Inv'
  <2>1. PICK n \in Nat : \E list \in [1..n -> Solved(known[p])] :
           unsaved' = [unsaved EXCEPT ![p] = Records(known[p], list)]
    BY <1>1, <1>5, OpenIs
  <2>2. PICK list \in [1..n -> Solved(known[p])] :
           unsaved' = [unsaved EXCEPT ![p] = Records(known[p], list)]
    BY <2>1
  <2>3. Coherent(Records(known[p], list))
    BY <1>1, CoherentRecords DEF Inv
  <2>4. \A q \in Proc : Coherent(unsaved'[q])
    BY <1>1, <2>2, <2>3 DEF Inv
  <2>5. Sound'
    BY <1>5 DEF Open, Sound, NoReply
  <2> QED
    BY <1>1, <1>5, <2>4, <2>5 DEF Open, Inv
<1>6. ASSUME NEW p \in Proc, Fail(p) \/ Flush(p)
      PROVE  Inv'
  BY <1>1, <1>6 DEF Fail, Flush, Inv, Sound, NoReply
<1>7. ASSUME NEW p \in Proc, Close(p) \/ Exit(p)
      PROVE  Inv'
  <2>1. \A q \in Proc : unsaved'[q] = unsaved[q] \/ unsaved'[q] = <<>>
    BY <1>1, <1>7 DEF Close, Exit
  <2>2. \A q \in Proc : known'[q] = known[q] \/ known'[q] = NoMap
    BY <1>1, <1>7 DEF Close, Exit
  <2>3. RightMap(NoMap)
    BY DEF NoMap, RightMap, Right, None
  <2>4. Sound'
    BY <1>7 DEF Close, Exit, Sound, NoReply
  <2> QED
    BY <1>1, <2>1, <2>2, <2>3, <2>4, EmptyIsCoherent DEF Inv
<1>8. CASE UNCHANGED vars
  BY <1>1, <1>8 DEF vars, Inv, Sound
<1> QED
  BY <1>2, <1>3, <1>4, <1>5, <1>6, <1>7, <1>8 DEF Next

(* Only Flush can make a file that is not coherent.                        *)
LEMMA FileIsKept ==
    ASSUME Inv, [Next]_vars, \A p \in Proc : ~ Flush(p)
    PROVE  Coherent(file)'
<1>1. file' = file \/ file' = <<>>
  BY DEF Next, vars, Load, Fail, Open, Close, Exit, call_z3, solve_z3
<1> QED
  BY <1>1, EmptyIsCoherent DEF Inv

-----------------------------------------------------------------------------
(* A file is coherent if each of its records is one of a coherent file.    *)
LEMMA RecordsOfCoherent ==
    ASSUME NEW new \in Bytes,
           \A k \in RecordsOf(new) : \E bytes \in Bytes :
               /\ Coherent(bytes)
               /\ k \in RecordsOf(bytes)
               /\ \A j \in 1..RecordCells : new[Place(k, j)] = bytes[Place(k, j)]
    PROVE  Coherent(new)
<1> SUFFICES ASSUME NEW k \in RecordsOf(new)
             PROVE  /\ AnswerOf(new, k) \in [answer : Answer]
                    /\ \A problem \in Problem :
                           HasDigest(new, k, problem) => Right(problem, AnswerOf(new, k).answer)
  BY DEF Coherent
<1>1. PICK bytes \in Bytes :
         /\ Coherent(bytes)
         /\ k \in RecordsOf(bytes)
         /\ \A j \in 1..RecordCells : new[Place(k, j)] = bytes[Place(k, j)]
  OBVIOUS
<1>2. AnswerOf(new, k) = AnswerOf(bytes, k)
  BY <1>1, SizeAssumption DEF AnswerOf
<1>3. ASSUME NEW problem \in Problem, HasDigest(new, k, problem)
      PROVE  HasDigest(bytes, k, problem)
  BY <1>1, <1>3, SizeAssumption DEF HasDigest
<1> QED
  BY <1>1, <1>2, <1>3 DEF Coherent

(* The bytes of a record are in the file.                                  *)
LEMMA PlacesOfRecord ==
    ASSUME NEW S, NEW bytes \in Seq(S), NEW k \in RecordsOf(bytes), NEW j \in 1..RecordCells
    PROVE  k \in Nat \ {0} /\ RecordCells * k <= Len(bytes) /\ Place(k, j) \in 1..Len(bytes)
<1>1. k \in Nat \ {0}
  BY Quotient, SizeAssumption DEF RecordsOf
<1>2. RecordCells * k <= Len(bytes) /\ RecordCells * k \in Nat
  BY <1>1, RecordsOfFile, SizeAssumption
<1>3. Place(k, j) \in Nat \ {0} /\ Place(k, j) <= RecordCells * k
  BY <1>1, PlaceBounds
<1> QED
  BY <1>1, <1>2, <1>3

(* A file stays coherent when a whole channel is written over it.          *)
LEMMA CoherentWhole ==
    ASSUME NEW bytes \in Bytes, Coherent(bytes),
           NEW source \in Bytes, Coherent(source),
           NEW m \in Nat, Len(source) = RecordCells * m
    PROVE  Coherent(Overwrite(bytes, source, 1, Len(source)))
<1> DEFINE new == Overwrite(bytes, source, 1, Len(source))
<1>1. Len(source) \in Nat /\ Len(bytes) \in Nat
  BY DEF Bytes
<1>2. /\ new \in Bytes
      /\ Len(new) = IF Len(source) > Len(bytes) THEN Len(source) ELSE Len(bytes)
      /\ \A c \in 1..Len(new) :
             new[c] = IF c \in 1..Len(source) THEN source[c]
                      ELSE IF c <= Len(bytes) THEN bytes[c] ELSE Zero
  BY <1>1, OverwriteIs
<1> HIDE DEF new
<1>3. ASSUME NEW k \in RecordsOf(new)
      PROVE  \E from \in Bytes :
                /\ Coherent(from)
                /\ k \in RecordsOf(from)
                /\ \A j \in 1..RecordCells : new[Place(k, j)] = from[Place(k, j)]
  <2>1. k \in Nat \ {0} /\ RecordCells * k <= Len(new)
    <3>1. new \in Seq(Byte) /\ 1 \in 1..RecordCells
      BY <1>2, SizeAssumption DEF Bytes
    <3> QED
      BY <3>1, PlacesOfRecord
  <2>2. CASE k <= m
    <3>1. RecordCells * k <= Len(source)
      BY <2>1, <2>2, Monotonic, SizeAssumption
    <3>2. k \in RecordsOf(source)
      BY <2>1, <3>1, RecordsOfFile DEF Bytes
    <3>3. ASSUME NEW j \in 1..RecordCells
          PROVE  new[Place(k, j)] = source[Place(k, j)]
      BY <1>2, <3>2, PlacesOfRecord DEF Bytes
    <3> QED
      BY <3>2, <3>3
  <2>3. CASE k > m
    <3>1. RecordCells * m <= RecordCells * (k - 1) /\ RecordCells * (k - 1) \in Nat
      BY <2>1, <2>3, Monotonic, SizeAssumption
    <3>2. RecordCells * k = RecordCells * (k - 1) + RecordCells
      BY <2>1, SizeAssumption
    <3>3. Len(new) = Len(bytes)
      BY <1>1, <1>2, <2>1, <3>1, <3>2, SizeAssumption
    <3>4. k \in RecordsOf(bytes)
      BY <2>1, <3>3, RecordsOfFile DEF Bytes
    <3>5. ASSUME NEW j \in 1..RecordCells
          PROVE  new[Place(k, j)] = bytes[Place(k, j)]
      <4>1. Place(k, j) \in 1..Len(bytes)
        BY <3>4, PlacesOfRecord DEF Bytes
      <4>2. RecordCells * (k - 1) < Place(k, j)
        BY <2>1, PlaceBounds
      <4>3. Place(k, j) \notin 1..Len(source)
        BY <1>1, <3>1, <4>1, <4>2
      <4> QED
        BY <1>2, <3>3, <4>1, <4>3
    <3> QED
      BY <3>4, <3>5
  <2> QED
    BY <2>1, <2>2, <2>3
<1>4. Coherent(new)
  BY <1>2, <1>3, RecordsOfCoherent
<1> QED
  BY <1>4 DEF new

(* The first bytes of a coherent file are coherent.                        *)
LEMMA CoherentPrefix ==
    ASSUME NEW new \in Bytes, NEW source \in Bytes, Coherent(source),
           Len(new) <= Len(source), \A c \in 1..Len(new) : new[c] = source[c]
    PROVE  Coherent(new)
<1>1. Len(new) \in Nat /\ Len(source) \in Nat
  BY DEF Bytes
<1>2. ASSUME NEW k \in RecordsOf(new)
      PROVE  /\ k \in RecordsOf(source)
             /\ \A j \in 1..RecordCells : new[Place(k, j)] = source[Place(k, j)]
  <2>1. k \in Nat \ {0} /\ RecordCells * k <= Len(new) /\ RecordCells * k \in Nat
    BY PlacesOfRecord, SizeAssumption DEF Bytes
  <2>2. k \in RecordsOf(source)
    <3>1. RecordCells * k <= Len(source)
      BY <1>1, <2>1
    <3> QED
      BY <2>1, <3>1, RecordsOfFile DEF Bytes
  <2>3. ASSUME NEW j \in 1..RecordCells
        PROVE  new[Place(k, j)] = source[Place(k, j)]
    BY PlacesOfRecord DEF Bytes
  <2> QED
    BY <2>2, <2>3
<1> QED
  BY <1>2, RecordsOfCoherent

-----------------------------------------------------------------------------
(* Any number of processes, as long as the answers fit in the buffer of a  *)
(* channel: then a channel is written at once.                             *)
Whole ==
    \A p \in Proc :
        /\ pos[p] = 0 \/ pos[p] = Len(unsaved[p])
        /\ Len(unsaved[p]) <= ChunkCells
        /\ \E m \in Nat : Len(unsaved[p]) = RecordCells * m

LEMMA InitWhole == Init => Whole
<1> SUFFICES ASSUME Init, NEW p \in Proc
             PROVE  /\ pos[p] = 0 \/ pos[p] = Len(unsaved[p])
                    /\ Len(unsaved[p]) <= ChunkCells
                    /\ \E m \in Nat : Len(unsaved[p]) = RecordCells * m
  BY DEF Whole
<1>1. Len(unsaved[p]) = 0 /\ pos[p] = 0
  BY DEF Init
<1>2. RecordCells * 0 = 0
  BY SizeAssumption
<1> QED
  BY <1>1, <1>2, SizeAssumption

LEMMA NextWhole ==
    ASSUME Inv, Whole, [Next]_vars, RecordCells * Cardinality(Problem) <= ChunkCells
    PROVE  Whole' /\ Coherent(file)'
<1>1. TypeOK /\ known \in [Proc -> Map] /\ file \in Bytes /\ unsaved \in [Proc -> Bytes]
      /\ pos \in [Proc -> Nat]
  BY DEF Inv, TypeOK, Map, Bytes
<1>2. ASSUME NEW p \in Proc, Flush(p)
      PROVE  Whole' /\ Coherent(file)'
  <2>1. PICK n \in Nat :
           /\ n <= Len(unsaved[p]) /\ pos[p] < n /\ pos[p] < Len(unsaved[p])
           /\ n = IF pos[p] + ChunkCells < Len(unsaved[p]) THEN pos[p] + ChunkCells
                                                           ELSE Len(unsaved[p])
           /\ file' = Overwrite(file, unsaved[p], pos[p] + 1, n)
           /\ pos' = [pos EXCEPT ![p] = n]
    BY <1>1, <1>2, FlushBounds
  <2>2. Len(unsaved[p]) \in Nat
    BY <1>1 DEF Bytes
  <2>3. pos[p] = 0 /\ n = Len(unsaved[p])
    BY <2>1, <2>2, SizeAssumption DEF Whole
  <2>4. PICK m \in Nat : Len(unsaved[p]) = RecordCells * m
    BY DEF Whole
  <2>5. file' = Overwrite(file, unsaved[p], 1, Len(unsaved[p]))
    BY <2>1, <2>3
  <2>6. Coherent(file)'
    BY <1>1, <2>4, <2>5, CoherentWhole DEF Inv
  <2>7. unsaved' = unsaved
    BY <1>2 DEF Flush
  <2>8. Whole'
    BY <1>1, <2>1, <2>3, <2>7 DEF Whole
  <2> QED
    BY <2>6, <2>8
<1>3. ASSUME NEW p \in Proc, Open(p)
      PROVE  Whole'
  <2>1. PICK n \in Nat : \E list \in [1..n -> Solved(known[p])] :
           /\ n <= Cardinality(Problem)
           /\ unsaved' = [unsaved EXCEPT ![p] = Records(known[p], list)]
    BY <1>1, <1>3, OpenIs
  <2>2. PICK list \in [1..n -> Solved(known[p])] :
           unsaved' = [unsaved EXCEPT ![p] = Records(known[p], list)]
    BY <2>1
  <2>3. Len(unsaved'[p]) = RecordCells * n
    BY <1>1, <2>2, RecordsType
  <2>4. RecordCells * n <= ChunkCells
    <3>1. Cardinality(Problem) \in Nat
      BY FS_CardinalityType, ProblemAssumption
    <3>2. RecordCells * n <= RecordCells * Cardinality(Problem)
      BY <2>1, <3>1, Monotonic, SizeAssumption
    <3>3. RecordCells * n \in Nat /\ RecordCells * Cardinality(Problem) \in Nat
      BY <3>1, SizeAssumption
    <3> QED
      BY <3>2, <3>3, SizeAssumption
  <2>5. \A q \in Proc \ {p} : unsaved'[q] = unsaved[q] /\ pos'[q] = pos[q]
    BY <1>1, <1>3, <2>2 DEF Open
  <2>6. pos'[p] = 0
    BY <1>1, <1>3 DEF Open
  <2> QED
    BY <2>3, <2>4, <2>5, <2>6 DEF Whole
<1>4. ASSUME NEW p \in Proc, Close(p) \/ Exit(p)
      PROVE  Whole'
  <2>1. \A q \in Proc \ {p} : unsaved'[q] = unsaved[q] /\ pos'[q] = pos[q]
    BY <1>1, <1>4 DEF Close, Exit
  <2>2. Len(unsaved'[p]) = 0 /\ pos'[p] = 0
    BY <1>1, <1>4 DEF Close, Exit
  <2>3. RecordCells * 0 = 0
    BY SizeAssumption
  <2>4. /\ pos'[p] = 0 \/ pos'[p] = Len(unsaved'[p])
        /\ Len(unsaved'[p]) <= ChunkCells
        /\ \E m \in Nat : Len(unsaved'[p]) = RecordCells * m
    BY <2>2, <2>3, SizeAssumption
  <2>5. \A q \in Proc \ {p} :
           /\ pos'[q] = 0 \/ pos'[q] = Len(unsaved'[q])
           /\ Len(unsaved'[q]) <= ChunkCells
           /\ \E m \in Nat : Len(unsaved'[q]) = RecordCells * m
    BY <2>1 DEF Whole
  <2> QED
    BY <2>4, <2>5 DEF Whole
<1>5. ASSUME UNCHANGED <<unsaved, pos>>
      PROVE  Whole'
  BY <1>5 DEF Whole
<1>6. Whole'
  BY <1>2, <1>3, <1>4, <1>5 DEF Next, vars, Load, Fail, call_z3, solve_z3
<1> QED
  BY <1>2, <1>6, FileIsKept

(* The type checker is never told that a property is proved, or that an    *)
(* equation is solved, when it is not, whatever processes save and load    *)
(* the answers at the same time and wherever they are killed.              *)
THEOREM SoundInBuffer ==
    ASSUME RecordCells * Cardinality(Problem) <= ChunkCells
    PROVE  Spec => [](Sound /\ NeverAsserts)
<1>1. Init => Inv /\ Whole
  BY InitInv, InitWhole
<1>2. Inv /\ Whole /\ [Next]_vars => Inv' /\ Whole'
  BY NextWhole, NextInv
<1>3. Inv => Sound /\ NeverAsserts
  BY DEF Inv, NeverAsserts, Coherent, IsFileOfDigests
<1> QED
  BY <1>1, <1>2, <1>3, PTL DEF Spec

(* The `assert false' of load_digests is never reached: what other         *)
(* processes left in the file has only answers of known kinds.             *)
THEOREM LoadNeverFails ==
    ASSUME RecordCells * Cardinality(Problem) <= ChunkCells
    PROVE  Spec => []NeverAsserts
BY SoundInBuffer, PTL

-----------------------------------------------------------------------------
(* One process at a time, and any number of answers: what it has written   *)
(* is the beginning of what it saves.                                      *)
Begun(self) ==
    pc[self] = "saving" =>
        /\ pos[self] = Len(file)
        /\ Len(file) <= Len(unsaved[self])
        /\ \A c \in 1..Len(file) : file[c] = unsaved[self][c]

LEMMA NextBegun ==
    ASSUME NEW self, Proc = {self}, Inv, Begun(self), [Next]_vars
    PROVE  Begun(self)' /\ Coherent(file)'
<1>1. TypeOK /\ self \in Proc /\ file \in Bytes /\ unsaved \in [Proc -> Bytes]
      /\ pos \in [Proc -> Nat] /\ pc \in [Proc -> {"idle", "checking", "saving"}]
  BY DEF Inv, TypeOK, Bytes
<1>2. ASSUME Flush(self)
      PROVE  Begun(self)' /\ Coherent(file)'
  <2>1. PICK n \in Nat :
           /\ n <= Len(unsaved[self]) /\ pos[self] < n
           /\ file' = Overwrite(file, unsaved[self], pos[self] + 1, n)
           /\ pos' = [pos EXCEPT ![self] = n]
    BY <1>1, <1>2, FlushBounds
  <2>2. /\ pos[self] = Len(file) /\ Len(file) \in Nat
        /\ \A c \in 1..Len(file) : file[c] = unsaved[self][c]
    BY <1>1, <1>2 DEF Flush, Begun, Bytes
  <2>3. pos[self] + 1 \in Nat \ {0}
    BY <2>2
  <2>4. /\ file' \in Bytes
        /\ Len(file') = IF n > Len(file) THEN n ELSE Len(file)
        /\ \A c \in 1..Len(file') :
               file'[c] = IF c \in (pos[self] + 1)..n THEN unsaved[self][c]
                          ELSE IF c <= Len(file) THEN file[c] ELSE Zero
    BY <1>1, <2>1, <2>3, OverwriteIs
  <2>5. Len(file') = n /\ \A c \in 1..n : file'[c] = unsaved[self][c]
    BY <2>1, <2>2, <2>4
  <2>6. unsaved' = unsaved /\ pos'[self] = n
    BY <1>1, <1>2, <2>1 DEF Flush
  <2>7. Coherent(file)'
    BY <1>1, <2>1, <2>4, <2>5, CoherentPrefix DEF Inv
  <2> QED
    BY <2>1, <2>5, <2>6, <2>7 DEF Begun
<1>3. ASSUME Open(self)
      PROVE  Begun(self)'
  <2>1. file' = <<>> /\ pos'[self] = 0
    BY <1>1, <1>3 DEF Open
  <2>2. PICK n \in Nat : \E list \in [1..n -> Solved(known[self])] :
           unsaved' = [unsaved EXCEPT ![self] = Records(known[self], list)]
    BY <1>1, <1>3, OpenIs DEF TypeOK, Map
  <2>3. unsaved'[self] \in Bytes
    BY <1>1, <2>2, RecordsType DEF TypeOK, Map
  <2>4. Len(unsaved'[self]) \in Nat
    BY <2>3 DEF Bytes
  <2> QED
    BY <2>1, <2>4 DEF Begun
<1>4. ASSUME Load(self) \/ Fail(self) \/ Close(self) \/ Exit(self)
      PROVE  Begun(self)'
  <2>1. pc'[self] # "saving"
    BY <1>1, <1>4 DEF Load, Fail, Close, Exit
  <2> QED
    BY <2>1 DEF Begun
<1>5. ASSUME UNCHANGED <<pc, unsaved, pos, file>>
      PROVE  Begun(self)'
  BY <1>5 DEF Begun
<1>6. Begun(self)'
  BY <1>2, <1>3, <1>4, <1>5 DEF Next, vars, call_z3, solve_z3
<1> QED
  BY <1>2, <1>6, FileIsKept

(* The same for the runs of sail one after the other, however many answers *)
(* they save, and wherever one of them is killed.                          *)
THEOREM SoundAlone ==
    ASSUME NEW self, Proc = {self}
    PROVE  Spec => [](Sound /\ NeverAsserts)
<1>1. Init => Inv /\ Begun(self)
  <2>1. Init => Begun(self)
    BY DEF Init, Begun
  <2> QED
    BY <2>1, InitInv
<1>2. Inv /\ Begun(self) /\ [Next]_vars => Inv' /\ Begun(self)'
  BY NextBegun, NextInv
<1>3. Inv => Sound /\ NeverAsserts
  BY DEF Inv, NeverAsserts, Coherent, IsFileOfDigests
<1> QED
  BY <1>1, <1>2, <1>3, PTL DEF Spec

-----------------------------------------------------------------------------
(* A list of as many different elements as a set has is a list of them all *)
LEMMA OrderIsOnto ==
    ASSUME NEW S, IsFiniteSet(S), NEW list \in Orders(S), NEW x \in S
    PROVE  \E k \in 1..Cardinality(S) : list[k] = x
<1> DEFINE D == 1..Cardinality(S)
<1>1. Cardinality(S) \in Nat
  BY FS_CardinalityType
<1>2. IsFiniteSet(D) /\ Cardinality(D) = Cardinality(S)
  BY <1>1, FS_Interval
<1>3. list \in Injection(D, S)
  BY DEF Orders, Injection, IsInjective
<1>4. list \in Surjection(D, S)
  BY <1>2, <1>3, FS_Injection
<1> QED
  BY <1>4 DEF Surjection

(* What is written for a map is read as this map.                          *)
LEMMA ReadOfRecords ==
    ASSUME NEW map \in Map, NEW list \in Orders(Solved(map))
    PROVE  Read(Records(map, list)) = map
<1> DEFINE n     == Cardinality(Solved(map))
           bytes == Records(map, list)
<1>1. IsFiniteSet(Solved(map)) /\ n \in Nat
  BY FS_Subset, FS_CardinalityType, ProblemAssumption DEF Solved
<1>2. list \in [1..n -> Solved(map)]
  BY DEF Orders
<1>3. bytes \in Bytes /\ Len(bytes) = RecordCells * n
  BY <1>1, <1>2, RecordsType
<1>4. RecordsOf(bytes) = 1..n
  BY <1>1, <1>2, RecordsOfRecords
<1>5. ASSUME NEW k \in 1..n
      PROVE  /\ k \in RecordsOf(bytes)
             /\ \A problem \in Problem :
                    HasDigest(bytes, k, problem) <=> problem = list[k]
             /\ AnswerOf(bytes, k).answer = map[list[k]]
  <2>1. k \in RecordsOf(bytes)
    BY <1>4
  <2>2. \A j \in 1..RecordCells : bytes[Place(k, j)] = RecordByte(map, list[k], j)
    BY <1>1, <1>2, RecordsAre
  <2>3. \A j \in 1..(RecordCells - 1) : bytes[Place(k, j)] = DigestByte(list[k], j)
    BY <2>2, SizeAssumption DEF RecordByte
  <2>4. AnswerOf(bytes, k) = AnswerByte(map[list[k]])
    BY <2>2, SizeAssumption DEF RecordByte, AnswerOf
  <2>5. ASSUME NEW problem \in Problem
        PROVE  HasDigest(bytes, k, problem) <=> problem = list[k]
    <3>1. 1 \in 1..(RecordCells - 1)
      BY SizeAssumption
    <3>2. ASSUME HasDigest(bytes, k, problem)
          PROVE  problem = list[k]
      <4>1. DigestByte(problem, 1) = DigestByte(list[k], 1)
        BY <2>3, <3>1, <3>2 DEF HasDigest
      <4> QED
        BY <4>1 DEF DigestByte
    <3> QED
      BY <2>3, <3>2 DEF HasDigest
  <2> QED
    BY <2>1, <2>4, <2>5 DEF AnswerByte
<1> HIDE DEF n, bytes
<1>6. ASSUME NEW problem \in Problem
      PROVE  Read(bytes)[problem] = map[problem]
  <2>1. CASE problem \in Solved(map)
    <3>1. PICK k \in 1..n : list[k] = problem
      BY <1>1, <2>1, OrderIsOnto DEF n
    <3>2. k \in RecordsOf(bytes) /\ HasDigest(bytes, k, problem)
      BY <1>5, <3>1
    <3>3. ASSUME NEW l \in RecordsOf(bytes), HasDigest(bytes, l, problem)
          PROVE  AnswerOf(bytes, l).answer = map[problem]
      BY <1>4, <1>5, <3>3
    <3>4. Len(bytes) \div RecordCells \in Nat
      BY <1>3, Quotient, SizeAssumption DEF Bytes
    <3> DEFINE ks == {l \in RecordsOf(bytes) : HasDigest(bytes, l, problem)}
    <3>5. ks # {} /\ ks \in SUBSET (1..(Len(bytes) \div RecordCells))
      BY <3>2 DEF RecordsOf
    <3>6. Read(bytes)[problem] = IF ks = {} THEN None ELSE AnswerOf(bytes, Max(ks)).answer
      BY DEF Read
    <3>7. Max(ks) \in ks
      <4> HIDE DEF ks
      <4> QED
        BY <3>4, <3>5, MaxExists
    <3> QED
      BY <3>3, <3>5, <3>6, <3>7
  <2>2. CASE problem \notin Solved(map)
    <3>1. map[problem] = None
      BY <2>2 DEF Solved
    <3>2. ASSUME Read(bytes)[problem] # None
          PROVE  FALSE
      <4>1. PICK k \in RecordsOf(bytes) : HasDigest(bytes, k, problem)
        BY <1>3, <3>2, ReadIsOfRecord
      <4>2. k \in 1..n /\ problem = list[k]
        BY <1>4, <1>5, <4>1
      <4> QED
        BY <1>2, <2>2, <4>2
    <3> QED
      BY <3>1, <3>2
  <2> QED
    BY <2>1, <2>2
<1>7. Read(bytes) = [problem \in Problem |-> Read(bytes)[problem]]
  BY DEF Read
<1>8. map = [problem \in Problem |-> map[problem]]
  BY DEF Map
<1>9. Read(bytes) = map
  BY <1>6, <1>7, <1>8
<1> QED
  BY <1>9 DEF bytes

-----------------------------------------------------------------------------
(* One process knows what is in the file while it is going to save, and    *)
(* saves what it knows.                                                    *)
Knows(self) ==
    /\ pc[self] = "checking" =>
           \A problem \in Problem :
               Read(file)[problem] # None => known[self][problem] = Read(file)[problem]
    /\ pc[self] = "saving" =>
           \E list \in Orders(Solved(known[self])) : unsaved[self] = Records(known[self], list)

LEMMA NextKnows ==
    ASSUME NEW self, Proc = {self}, Inv, Begun(self), Knows(self), [Next]_vars
    PROVE  Knows(self)' /\ (KilledSaving \/ NothingLost)
<1>1. TypeOK /\ self \in Proc /\ file \in Bytes /\ unsaved \in [Proc -> Bytes]
      /\ known \in [Proc -> Map] /\ pc \in [Proc -> {"idle", "checking", "saving"}]
      /\ pos \in [Proc -> Nat]
  BY DEF Inv, TypeOK, Bytes, Map
<1>2. Kept = IF pc[self] = "saving" THEN known[self] ELSE Read(file)
  BY DEF Kept
<1>3. Kept' = IF pc'[self] = "saving" THEN known'[self] ELSE Read(file')
  BY DEF Kept
<1>4. ASSUME Load(self)
      PROVE  Knows(self)' /\ NothingLost
  <2>1. file' = file /\ pc[self] = "idle" /\ pc'[self] = "checking"
    BY <1>1, <1>4 DEF Load
  <2>2. \A problem \in Problem :
           Read(file)[problem] # None => known'[self][problem] = Read(file)[problem]
    BY <1>1, <1>4 DEF Load
  <2> QED
    BY <1>2, <1>3, <2>1, <2>2 DEF Knows, NothingLost
<1>5. ASSUME NEW problem \in Problem, call_z3(self, problem) \/ solve_z3(self, problem)
      PROVE  Knows(self)' /\ NothingLost
  <2>1. file' = file /\ pc' = pc /\ pc[self] # "saving"
    BY <1>5 DEF call_z3, solve_z3, Runs
  <2>2. \A other \in Problem : known[self][other] # None => known'[self][other] = known[self][other]
    <3>1. ASSUME NEW asked \in Problem, NEW answer, Ask(self, asked, answer)
          PROVE  \A other \in Problem :
                    known[self][other] # None => known'[self][other] = known[self][other]
      BY <1>1, <3>1 DEF Ask, Map
    <3>2. \A v \in Value : problem \ {v} \in Problem
      BY ProblemAssumption
    <3>3. CASE UNCHANGED known
      BY <3>3
    <3> QED
      BY <1>5, <3>1, <3>2, <3>3 DEF call_z3, solve_z3
  <2>3. Knows(self)'
    BY <2>1, <2>2 DEF Knows
  <2> QED
    BY <1>2, <1>3, <2>1, <2>3 DEF NothingLost
<1>6. ASSUME Open(self)
      PROVE  Knows(self)' /\ NothingLost
  <2>1. known' = known /\ pc[self] = "checking" /\ pc'[self] = "saving"
    BY <1>1, <1>6 DEF Open
  <2>2. \E list \in Orders(Solved(known[self])) : unsaved'[self] = Records(known[self], list)
    BY <1>1, <1>6 DEF Open
  <2>3. Knows(self)'
    BY <2>1, <2>2 DEF Knows
  <2> QED
    BY <1>2, <1>3, <2>1, <2>3 DEF Knows, NothingLost
<1>7. ASSUME Flush(self)
      PROVE  Knows(self)' /\ NothingLost
  <2>1. pc' = pc /\ pc[self] = "saving" /\ UNCHANGED <<known, unsaved>>
    BY <1>7 DEF Flush
  <2> QED
    BY <1>2, <1>3, <2>1 DEF Knows, NothingLost
<1>8. ASSUME Close(self)
      PROVE  Knows(self)' /\ NothingLost
  <2>1. pc[self] = "saving" /\ pc'[self] = "idle" /\ UNCHANGED <<known, file>>
    BY <1>1, <1>8 DEF Close
  <2>2. file = unsaved[self]
    <3>1. Len(file) = Len(unsaved[self]) /\ \A c \in 1..Len(file) : file[c] = unsaved[self][c]
      BY <1>1, <1>8, <2>1 DEF Begun, Close
    <3>2. file \in Seq(Byte) /\ unsaved[self] \in Seq(Byte)
      BY <1>1 DEF Bytes
    <3> QED
      BY <3>1, <3>2, SeqEqual
  <2>3. PICK list \in Orders(Solved(known[self])) : unsaved[self] = Records(known[self], list)
    BY <2>1 DEF Knows
  <2>4. Read(file) = known[self]
    BY <1>1, <2>2, <2>3, ReadOfRecords
  <2> QED
    BY <1>2, <1>3, <2>1, <2>4 DEF Knows, NothingLost
<1>9. ASSUME Fail(self)
      PROVE  Knows(self)' /\ NothingLost
  <2>1. pc[self] # "saving" /\ pc'[self] = "idle" /\ file' = file
    BY <1>1, <1>9 DEF Fail
  <2> QED
    BY <1>2, <1>3, <2>1 DEF Knows, NothingLost
<1>10. ASSUME Exit(self)
       PROVE  Knows(self)' /\ (KilledSaving \/ NothingLost)
  <2>1. pc'[self] = "idle" /\ file' = file
    BY <1>1, <1>10 DEF Exit
  <2>2. CASE pc[self] = "saving"
    BY <1>1, <1>10, <2>1, <2>2 DEF Knows, KilledSaving
  <2>3. CASE pc[self] # "saving"
    BY <1>2, <1>3, <2>1, <2>3 DEF Knows, NothingLost
  <2> QED
    BY <2>2, <2>3
<1>11. ASSUME UNCHANGED vars
       PROVE  Knows(self)' /\ NothingLost
  <2>1. UNCHANGED <<pc, known, unsaved, file>>
    BY <1>11 DEF vars
  <2> QED
    BY <1>2, <1>3, <2>1 DEF Knows, NothingLost
<1> QED
  BY <1>4, <1>5, <1>6, <1>7, <1>8, <1>9, <1>10, <1>11 DEF Next

(* An answer that was saved is in the file of every later run, unless a    *)
(* run is killed while it saves.                                           *)
THEOREM AnswersAreDurable ==
    ASSUME NEW self, Proc = {self}
    PROVE  Spec => Durable
<1>1. Init => Inv /\ Begun(self) /\ Knows(self)
  <2>1. Init => Begun(self) /\ Knows(self)
    BY DEF Init, Begun, Knows
  <2> QED
    BY <2>1, InitInv
<1>2. Inv /\ Begun(self) /\ Knows(self) /\ [Next]_vars
         => Inv' /\ Begun(self)' /\ Knows(self)' /\ [KilledSaving \/ NothingLost]_vars
  BY NextBegun, NextInv, NextKnows
<1> QED
  BY <1>1, <1>2, PTL DEF Spec, Durable
=============================================================================
