---------------------------- MODULE MCRtsMemory -----------------------------
(***************************************************************************)
(* The memory with a few addresses.                                        *)
(***************************************************************************)
EXTENDS RtsAtomic

(* Bounds. *)
MCRaws   == {<<3, 0, 1>>}
MCLine(a, d) == [addr |-> a, data |-> d]
MCImages == {<<MCLine(ElfEntry, 3), MCLine(1, 1)>>, <<MCLine(2, 1), MCLine(0, 2)>>}
HighImages == {<<MCLine(0, 1), MCLine(3, 1)>>}     \* an address above an int64
=============================================================================
