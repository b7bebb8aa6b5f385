----------------------------- MODULE RtsAtomic ------------------------------
(***************************************************************************)
(* The refinement of the byte loops of the runtime to calls that take      *)
(* effect at once.  A write takes effect when it is called, a read when it *)
(* returns.                                                                *)
(***************************************************************************)
EXTENDS RtsMemory

(* What the caller sees of the call in progress: which one it is, and its  *)
(* arguments as long as they stay in their variables.                      *)
CurrentCall ==
    CASE In("load_raw") \/ In("load_image") -> [op |-> call.op, addr |-> 0, size |-> 0]
      [] OTHER -> [op |-> call.op, addr |-> call.addr, size |-> call.size]

(* Memory once the call in progress has written what it has left to write. *)
Pending ==
    CASE In("write_ram")  -> OverlayWord(FlatRam, Plus(call.addr, call.i), call.size - call.i,
                                       call.buf)
      [] In("load_raw")   -> OverlayRaw(FlatRam, call.addr, input)
      [] In("load_image") -> OverlayImage(FlatRam, input)
      [] OTHER            -> FlatRam

PendingEntry == IF In("load_image") THEN EntryOf(g_elf_entry, input) ELSE g_elf_entry

(* The byte loops of write_ram, read_ram, fast_read_ram, load_raw and      *)
(* load_image, over lists of blocks that grow while they run, are single   *)
(* operations on little endian words, across the boundary of a block and   *)
(* around the end of the address space.                                    *)
Atomic == INSTANCE WordMemory WITH ram <- Pending, tags <- FlatTags,
                                   elf_entry <- PendingEntry, current <- CurrentCall
CallsAreAtomic == Atomic!Spec

(* The numbers of the image files are numbers for atoll and sscanf (see    *)
(* ImageIsExact for others).                                               *)
ImagesFit == \A lines \in Images : \A n \in DOMAIN lines : LineFits(lines[n])
=============================================================================
