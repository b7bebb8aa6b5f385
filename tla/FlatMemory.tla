----------------------------- MODULE FlatMemory -----------------------------
(***************************************************************************)
(* What the memory of the C runtime promises, byte by byte: an array of    *)
(* bytes and an array of tags over the whole address space, zero until     *)
(* they are written.                                                       *)
(***************************************************************************)
EXTENDS Naturals

CONSTANTS Address, Byte

VARIABLES ram, tags

Init ==
    /\ ram = [a \in Address |-> 0]
    /\ tags = [a \in Address |-> FALSE]

Store(a, b) ==
    /\ ram' = [ram EXCEPT ![a] = b]
    /\ UNCHANGED tags

StoreTag(a, t) ==
    /\ tags' = [tags EXCEPT ![a] = t]
    /\ UNCHANGED ram

Kill ==
    /\ ram' = [a \in Address |-> 0]
    /\ tags' = [a \in Address |-> FALSE]

Next ==
    \/ \E a \in Address, b \in Byte : Store(a, b)
    \/ \E a \in Address, t \in BOOLEAN : StoreTag(a, t)
    \/ Kill

Spec == Init /\ [][Next]_<<ram, tags>>
=============================================================================
