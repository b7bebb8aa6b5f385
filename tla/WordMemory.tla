----------------------------- MODULE WordMemory -----------------------------
(***************************************************************************)
(* What the memory builtins of the C runtime promise their caller: each    *)
(* call takes effect at once, on an array of bytes that wraps around, and  *)
(* words are little endian.  Nothing else changes until it has returned.   *)
(***************************************************************************)
EXTENDS Words

CONSTANTS
    FastWord,       \* the number of values of a machine word
    Sizes, Data, Raws, Images

VARIABLES
    ram, tags, elf_entry,
    current,        \* the call in progress and its arguments, or Idle
    result

vars == <<ram, tags, elf_entry, current, result>>

Request(op, a, n) == [op |-> op, addr |-> a, size |-> n]
Idle == Request("idle", 0, 0)

Init ==
    /\ ram = [a \in Address |-> 0]
    /\ tags = [a \in Address |-> FALSE]
    /\ elf_entry = 0
    /\ current = Idle
    /\ result = 0

(* Calls that write: memory has changed when the call starts.              *)
WriteRam ==
    /\ current = Idle
    /\ \E a \in Address, n \in Sizes, d \in Data :
         /\ ram' = OverlayWord(ram, a, n, d)
         /\ current' = Request("write_ram", a, n)
    /\ UNCHANGED <<tags, elf_entry, result>>

LoadRaw ==
    /\ current = Idle
    /\ \E a \in Address, bytes \in Raws : ram' = OverlayRaw(ram, a, bytes)
    /\ current' = Request("load_raw", 0, 0)
    /\ UNCHANGED <<tags, elf_entry, result>>

LoadImage ==
    /\ current = Idle
    /\ \E lines \in Images : /\ ram' = OverlayImage(ram, lines)
                             /\ elf_entry' = EntryOf(elf_entry, lines)
    /\ current' = Request("load_image", 0, 0)
    /\ UNCHANGED <<tags, result>>

WriteReturn ==
    /\ current.op \in {"write_ram", "load_raw", "load_image"}
    /\ current' = Idle
    /\ UNCHANGED <<ram, tags, elf_entry, result>>

(* Calls that read: the answer is the word at the address asked for.       *)
CallRead ==
    /\ current = Idle
    /\ \E op \in {"read_ram", "fast_read_ram"}, a \in Address, n \in Sizes :
         current' = Request(op, a, n)
    /\ UNCHANGED <<ram, tags, elf_entry, result>>

ReadReturn ==
    /\ LET word == Word(ram, current.addr, current.size)
       IN  \/ current.op = "read_ram" /\ result' = word
           \/ current.op = "fast_read_ram" /\ result' = word % FastWord
    /\ current' = Idle
    /\ UNCHANGED <<ram, tags, elf_entry>>

WriteTag ==
    /\ current = Idle
    /\ \E a \in Address, t \in BOOLEAN : tags' = [tags EXCEPT ![a] = t]
    /\ UNCHANGED <<ram, elf_entry, current, result>>

ReadTag ==
    /\ current = Idle
    /\ \E a \in Address : result' = IF tags[a] THEN 1 ELSE 0
    /\ UNCHANGED <<ram, tags, elf_entry, current>>

Kill ==
    /\ current = Idle
    /\ ram' = [a \in Address |-> 0]
    /\ tags' = [a \in Address |-> FALSE]
    /\ UNCHANGED <<elf_entry, current, result>>

Next ==
    \/ WriteRam \/ LoadRaw \/ LoadImage \/ WriteReturn
    \/ CallRead \/ ReadReturn \/ WriteTag \/ ReadTag \/ Kill

Spec == Init /\ [][Next]_vars
=============================================================================
