----------------------------- MODULE RtsControl -----------------------------
(***************************************************************************)
(* A generated program from its start to its end (the model_main that      *)
(* c_backend.ml writes, and src/lib/rts.c): set up, the options, the model *)
(* with its calls, exceptions, tracing, cycles and requests to sleep, and  *)
(* the ways to exit.  Each option that loads a file writes memory; a       *)
(* program header of an ELF file is a step.  The model itself is any       *)
(* program: it may take each of its actions at any time.                   *)
(***************************************************************************)
EXTENDS CommandLine

CONSTANTS
    Int64Limit,     \* 2^63, the first number that is too large for an int64
    Options,        \* the options a command line is made of
    MaxOptions,     \* bound: the number of options
    Names,          \* the symbols that are looked up
    Values,         \* the numbers the options and files give
    NoElf, NoLookup,
    opt_trace,      \* whether the program was compiled with -c_trace
    MaxCalls,       \* bound: the calls in progress
    CycleSpace,     \* 2^64
    MaxCycles       \* bound: the cycles that are counted by cycle_limit_reached

ASSUME ControlAssumption ==
    /\ MaxOptions \in Nat
    /\ Values \subseteq Nat /\ 0 \in Values
    /\ {Unparsable, TooShort} \cap Nat = {}
    /\ opt_trace \in BOOLEAN
    /\ MaxCalls \in Nat
    /\ CycleSpace \in Nat \ {0}
    /\ MaxCycles \in Nat
    /\ Values \subseteq 0..(CycleSpace - 1)
    /\ \A o \in Options :
         /\ o.opt \in {"b", "i", "e", "n", "l", "v", "C", "h"}
         /\ o.opt = "n" => o.entry \in Values \cup {Unparsable, TooShort}
         /\ o.opt \in {"l", "v"} => o.value \in Values \cup {Unparsable, TooShort}

(* The arguments of the options that load files: addresses as sscanf has   *)
(* read them, and files of their formats.                                  *)
ASSUME FileAssumption ==
    /\ ElfEntry \notin Nat
    /\ Int64Limit \in 1..AddressSpace
    /\ \A o \in Options :
         /\ o.opt = "b" => o.addr \in Address \cup {Unparsable} /\ (o.bytes # NoFile => o.bytes \in Seq(Nat))
         /\ o.opt = "i" /\ o.lines # NoFile =>
                o.lines \in Seq([addr : Nat, data : Nat]
                                \cup [addr : {ElfEntry}, data : Nat \cup {Unparsable}])
         /\ o.opt = "e" /\ o.elf # NoFile =>
                /\ IsElfFile(o.elf)
                /\ \A i \in 0..Len(o.elf.segments) : NoElf # [file |-> Encode(o.elf), i |-> i]

VARIABLES
    phase,          \* where the program is
    status,         \* its exit status
    argv, optind,   \* the options, and the next one
    elf,            \* the ELF file that is being loaded, and its next program header
    elf_entry_set, elf_entry,                     \* local variables of process_arguments
    ram,
    g_elf_entry, g_cycle_limit, g_verbosity,
    lookup,         \* the last lookup_sym, its arguments and its result
    calls,          \* the number of calls in progress
    have_exception,
    g_sleeping, g_trace_enabled, g_trace_depth,
    g_cycle_count,
    level,          \* history: the calls in progress when tracing was enabled
    reported        \* history: cycle_limit_reached has returned true

started == <<argv, g_elf_entry, g_cycle_limit, g_verbosity>>
locals  == <<optind, elf, elf_entry_set, elf_entry>>
traced  == <<g_trace_enabled, g_trace_depth, level>>
cycles  == <<g_cycle_count, reported>>
model   == <<calls, have_exception, g_sleeping, traced, cycles>>
vars    == <<phase, status, started, locals, ram, lookup, model>>

(* Calls of the builtins for memory take effect at once (run rts_memory).  *)
Memory == INSTANCE Words

Zero == [a \in Address |-> 0]

Init ==
    /\ phase = "platform"
    /\ status = 0
    /\ argv \in UNION {[1..n -> Options] : n \in 0..MaxOptions}
    /\ optind = 1
    /\ elf = NoElf
    /\ elf_entry_set = FALSE
    /\ elf_entry \in Values                 \* not initialised
    /\ ram = Zero
    /\ g_elf_entry = 0 /\ g_cycle_limit = 0 /\ g_verbosity = 0
    /\ lookup = NoLookup
    /\ calls = 0
    /\ have_exception = FALSE
    /\ g_sleeping = FALSE /\ g_trace_enabled = FALSE /\ g_trace_depth = 0
    /\ g_cycle_count = 0
    /\ level = 0
    /\ reported = FALSE

exit(code) == phase' = "exited" /\ status' = code

-----------------------------------------------------------------------------
(* Start. *)

(* The C code of a platform around the model looks up a symbol. *)
lookup_sym ==
    /\ phase = "platform"
    /\ lookup = NoLookup
    /\ \E k \in Of(argv, "e"), symname \in Names :
         /\ argv[k].elf # NoFile
         /\ \E found \in lookupSymbol(Encode(argv[k].elf), symname) :
              lookup' = [elf |-> argv[k].elf, symname |-> symname, found |-> found]
    /\ UNCHANGED <<phase, status, started, locals, ram, model>>

(* setup_rts; the platform has used what it looked up. *)
model_init ==
    /\ phase = "platform"
    /\ phase' = "arguments"
    /\ lookup' = NoLookup
    /\ g_trace_enabled' = FALSE /\ g_trace_depth' = 0
    /\ UNCHANGED <<status, started, locals, ram, calls, have_exception, g_sleeping, level, cycles>>

(* process_arguments. *)
Option(opt) ==
    /\ phase = "arguments" /\ elf = NoElf
    /\ optind \in DOMAIN argv
    /\ argv[optind].opt = opt
next_option == optind' = optind + 1 /\ UNCHANGED <<phase, status>>
fail == exit(1) /\ UNCHANGED optind
arg == argv[optind]

OptBinary ==
    /\ Option("b")
    /\ IF arg.addr = Unparsable \/ arg.bytes = NoFile
       THEN fail /\ UNCHANGED ram
       ELSE next_option /\ ram' = Memory!OverlayRaw(ram, arg.addr, arg.bytes)
    /\ UNCHANGED <<started, elf, elf_entry_set, elf_entry, lookup, model>>

(* load_image stops at an entry point that is no number.  It reads the     *)
(* lines before as atoll and sscanf do.                                    *)
BadLines(lines) == {n \in DOMAIN lines : lines[n].addr = ElfEntry /\ lines[n].data = Unparsable}
LinesRead(lines) ==
    [n \in 1..(IF BadLines(lines) = {} THEN Len(lines) ELSE Min(BadLines(lines)) - 1) |->
       IF lines[n].addr = ElfEntry
       THEN [addr |-> ElfEntry, data |-> Memory!sscanf_u64(lines[n].data)]
       ELSE [addr |-> Memory!atoll(lines[n].addr), data |-> Memory!atoll(lines[n].data)]]

OptImage ==
    /\ Option("i")
    /\ IF arg.lines = NoFile
       THEN fail /\ UNCHANGED <<ram, g_elf_entry>>
       ELSE /\ IF BadLines(arg.lines) = {} THEN next_option ELSE fail
            /\ ram' = Memory!OverlayImage(ram, LinesRead(arg.lines))
            /\ g_elf_entry' = Memory!EntryOf(g_elf_entry, LinesRead(arg.lines))
    /\ UNCHANGED <<argv, g_cycle_limit, g_verbosity, elf, elf_entry_set, elf_entry, lookup, model>>

(* load_elf, up to the loop over the program headers.                      *)
OptElf ==
    /\ Option("e")
    /\ IF (IF arg.elf = NoFile THEN FALSE ELSE checkELFHdr(Encode(arg.elf)))
       THEN elf' = [file |-> Encode(arg.elf), i |-> 0] /\ UNCHANGED <<phase, status, optind>>
       ELSE fail /\ UNCHANGED elf
    /\ UNCHANGED <<started, elf_entry_set, elf_entry, ram, lookup, model>>

LoadProgHdr ==
    /\ phase = "arguments" /\ elf # NoElf
    /\ elf.i < ProgHdrs(elf.file)
    /\ LET off == ProgHdrOffset(elf.file, elf.i)
       IN  IF ProgHdrFits(elf.file, off)
           THEN /\ ram' = loadProgHdr(ram, elf.file, off)
                /\ elf' = [elf EXCEPT !.i = @ + 1]
                /\ UNCHANGED <<phase, status>>
           ELSE exit(1) /\ UNCHANGED <<ram, elf>>
    /\ UNCHANGED <<started, optind, elf_entry_set, elf_entry, lookup, model>>

(* process_arguments has no use for the entry point of the file.           *)
LoadElfEnd ==
    /\ phase = "arguments" /\ elf # NoElf
    /\ elf.i = ProgHdrs(elf.file)
    /\ elf' = NoElf
    /\ next_option
    /\ UNCHANGED <<started, elf_entry_set, elf_entry, ram, lookup, model>>

(* Mutant: the entry point is set at once, as an image sets it. *)
MutOptEntry ==
    /\ Option("n")
    /\ IF arg.entry = Unparsable
       THEN fail /\ UNCHANGED <<elf_entry_set, g_elf_entry>>
       ELSE /\ next_option
            /\ g_elf_entry' = IF arg.entry = TooShort THEN g_elf_entry ELSE arg.entry
            /\ UNCHANGED elf_entry_set
    /\ UNCHANGED <<argv, g_cycle_limit, g_verbosity, elf, elf_entry, ram, lookup, model>>

(* An argument that is too short makes sscanf return EOF, which is taken   *)
(* for a number that was read.                                             *)
OptEntry ==
    /\ Option("n")
    /\ IF arg.entry = Unparsable
       THEN fail /\ UNCHANGED <<elf_entry_set, elf_entry>>
       ELSE /\ next_option
            /\ elf_entry' = IF arg.entry = TooShort THEN elf_entry ELSE arg.entry
            /\ elf_entry_set' = TRUE
    /\ UNCHANGED <<started, elf, ram, lookup, model>>

(* Mutant: the variable is set without a look at what was read. *)
MutScanned(old) == arg.value

(* The variable that sscanf writes keeps its value when there is no number. *)
Scanned(old) == IF arg.value = TooShort THEN old ELSE arg.value

OptLimit ==
    /\ Option("l")
    /\ IF arg.value = Unparsable
       THEN fail /\ UNCHANGED g_cycle_limit
       ELSE next_option /\ g_cycle_limit' = Scanned(g_cycle_limit)
    /\ UNCHANGED <<argv, g_elf_entry, g_verbosity, elf, elf_entry_set, elf_entry, ram, lookup, model>>

OptVerbosity ==
    /\ Option("v")
    /\ IF arg.value = Unparsable
       THEN fail /\ UNCHANGED g_verbosity
       ELSE next_option /\ g_verbosity' = Scanned(g_verbosity)
    /\ UNCHANGED <<argv, g_elf_entry, g_cycle_limit, elf, elf_entry_set, elf_entry, ram, lookup, model>>

(* Without registers for configuration a flag is ignored. *)
OptConfig ==
    /\ Option("C")
    /\ IF arg.parsed THEN next_option ELSE fail
    /\ UNCHANGED <<started, elf, elf_entry_set, elf_entry, ram, lookup, model>>

(* print_usage, also for an option it does not know. *)
OptHelp ==
    /\ Option("h")
    /\ exit(0)
    /\ UNCHANGED <<started, locals, ram, lookup, model>>

(* No options are left. *)
EndOfOptions ==
    /\ phase = "arguments" /\ elf = NoElf
    /\ optind \notin DOMAIN argv
    /\ phase' = "model"
    /\ g_elf_entry' = IF elf_entry_set THEN elf_entry ELSE g_elf_entry
    /\ elf_entry_set' = FALSE /\ elf_entry' = 0     \* out of scope
    /\ UNCHANGED <<status, argv, optind, elf, g_cycle_limit, g_verbosity, ram, lookup, model>>

process_arguments ==
    \/ OptBinary \/ OptImage \/ OptElf \/ LoadProgHdr \/ LoadElfEnd
    \/ OptEntry \/ OptLimit \/ OptVerbosity \/ OptConfig \/ OptHelp \/ EndOfOptions

-----------------------------------------------------------------------------
(* The model. *)
Idle == UNCHANGED <<status, started, locals, ram, lookup>>
Running == phase = "model" /\ ~ have_exception

(* Compiled with -c_trace, every call is between these two. *)
trace_start(enabled, depth) == IF opt_trace /\ enabled THEN depth + 1 ELSE depth
trace_end(enabled, depth)   == IF opt_trace /\ enabled THEN depth - 1 ELSE depth

Call ==
    /\ Running
    /\ calls < MaxCalls
    /\ calls' = calls + 1
    /\ g_trace_depth' = trace_start(g_trace_enabled, g_trace_depth)
    /\ UNCHANGED <<phase, have_exception, g_sleeping, g_trace_enabled, level, cycles>> /\ Idle

Return ==
    /\ Running
    /\ calls > 0
    /\ calls' = calls - 1
    /\ g_trace_depth' = trace_end(g_trace_enabled, g_trace_depth)
    /\ UNCHANGED <<phase, have_exception, g_sleeping, g_trace_enabled, level, cycles>> /\ Idle

Throw ==
    /\ Running
    /\ have_exception' = TRUE
    /\ UNCHANGED <<phase, calls, g_sleeping, traced, cycles>> /\ Idle

(* Mutant: the flag is tested before trace_end. *)
MutUnwind ==
    /\ phase = "model" /\ have_exception
    /\ calls > 0
    /\ calls' = calls - 1
    /\ UNCHANGED <<phase, have_exception, g_sleeping, traced, cycles>> /\ Idle

(* A call ends with an exception, which its caller finds after trace_end.  *)
Unwind ==
    /\ phase = "model" /\ have_exception
    /\ calls > 0
    /\ calls' = calls - 1
    /\ g_trace_depth' = trace_end(g_trace_enabled, g_trace_depth)
    /\ UNCHANGED <<phase, have_exception, g_sleeping, g_trace_enabled, level, cycles>> /\ Idle

Catch ==
    /\ phase = "model" /\ have_exception
    /\ have_exception' = FALSE
    /\ UNCHANGED <<phase, calls, g_sleeping, traced, cycles>> /\ Idle

(* Builtins are called like functions. *)
enable_tracing ==
    /\ Running
    /\ g_trace_enabled' = TRUE
    /\ g_trace_depth' = trace_end(TRUE, 0)
    /\ level' = calls
    /\ UNCHANGED <<phase, calls, have_exception, g_sleeping, cycles>> /\ Idle

disable_tracing ==
    /\ Running
    /\ g_trace_enabled' = FALSE
    /\ g_trace_depth' = trace_end(FALSE, 0)
    /\ UNCHANGED <<phase, calls, have_exception, g_sleeping, level, cycles>> /\ Idle

(* Another builtin: its line of the trace is begun and ended. *)
Builtin ==
    /\ Running
    /\ g_trace_depth' = trace_end(g_trace_enabled, trace_start(g_trace_enabled, g_trace_depth))
    /\ UNCHANGED <<calls, have_exception, g_trace_enabled, level>> /\ UNCHANGED <<started, locals, lookup>>

sleep_request ==
    /\ Builtin
    /\ g_sleeping' = TRUE
    /\ UNCHANGED <<phase, status, ram, cycles>>

wakeup_request ==
    /\ Builtin
    /\ g_sleeping' = FALSE
    /\ UNCHANGED <<phase, status, ram, cycles>>

(* Mutant: the counter is compared before it is incremented. *)
MutAtLimit == g_cycle_count >= g_cycle_limit /\ g_cycle_limit # 0

(* The counter after it was incremented, and whether that is the limit.    *)
counted  == (g_cycle_count + 1) % CycleSpace
at_limit == counted >= g_cycle_limit /\ g_cycle_limit # 0

cycle_limit_reached ==
    /\ Builtin
    /\ g_cycle_count < MaxCycles
    /\ g_cycle_count' = counted
    /\ reported' = (reported \/ at_limit)
    /\ UNCHANGED <<phase, status, ram, g_sleeping>>

(* Mutant: the counter is only read. *)
MutCycleCount ==
    /\ Builtin
    /\ IF g_cycle_count >= g_cycle_limit /\ g_cycle_limit # 0
       THEN exit(0) ELSE UNCHANGED <<phase, status>>
    /\ UNCHANGED <<ram, g_sleeping, cycles>>

(* TIMEOUT exits with success. *)
cycle_count ==
    /\ Builtin
    /\ g_cycle_count' = counted
    /\ IF at_limit THEN exit(0) ELSE UNCHANGED <<phase, status>>
    /\ UNCHANGED <<ram, g_sleeping, reported>>

(* sail_exit; a failed assertion or match. *)
Exit ==
    /\ Running
    /\ \E code \in {0, 1} : exit(code)
    /\ UNCHANGED <<started, locals, ram, lookup, model>>

(* zmain returns, an exception that nobody caught or not; model_fini.      *)
model_fini ==
    /\ phase = "model"
    /\ calls = 0
    /\ exit(0)
    /\ ram' = Zero
    /\ UNCHANGED <<started, locals, lookup, model>>

Exited == phase = "exited" /\ UNCHANGED vars

Next ==
    \/ lookup_sym \/ model_init \/ process_arguments
    \/ Call \/ Return \/ Throw \/ Unwind \/ Catch
    \/ enable_tracing \/ disable_tracing \/ sleep_request \/ wakeup_request
    \/ cycle_limit_reached \/ cycle_count \/ Exit \/ model_fini \/ Exited

(* The program is executed; a model that is to stop at the limit calls     *)
(* cycle_count in its main loop (doc/usage.tex), and an exception is at    *)
(* once passed on or caught.                                               *)
Fairness ==
    /\ WF_vars(model_init) /\ WF_vars(process_arguments)
    /\ SF_vars(cycle_count)
    /\ WF_vars(have_exception /\ (Unwind \/ Catch \/ model_fini))

Spec == Init /\ [][Next]_vars /\ Fairness

-----------------------------------------------------------------------------
(* Properties. *)

TypeOK ==
    /\ phase \in {"platform", "arguments", "model", "exited"}
    /\ status \in {0, 1}
    /\ \E n \in 0..MaxOptions : argv \in [1..n -> Options]
    /\ optind \in 1..(MaxOptions + 1)
    /\ elf # NoElf => optind \in DOMAIN argv /\ argv[optind].opt = "e"
    /\ elf_entry_set \in BOOLEAN
    /\ elf_entry \in Values
    /\ DOMAIN ram = Address
    /\ g_cycle_limit \in Values
    /\ g_verbosity \in Values
    /\ calls \in 0..MaxCalls
    /\ have_exception \in BOOLEAN
    /\ g_sleeping \in BOOLEAN
    /\ g_trace_enabled \in BOOLEAN
    /\ g_trace_depth \in Int
    /\ g_cycle_count \in 0..(CycleSpace - 1)
    /\ level \in 0..MaxCalls
    /\ reported \in BOOLEAN

(* The entry point given with -n is the one the model sees, whatever files *)
(* come before and after it (the comment at rts.c 577).                    *)
ExplicitEntryWins ==
    phase = "model" =>
        \A k \in Of(argv, "n") :
            argv[k].entry \in Nat /\ (\A j \in Of(argv, "n") : j <= k)
                => g_elf_entry = argv[k].entry

(* The model never goes on past its limit: `run the simulation until a set *)
(* number of cycles have been reached', unless it was told so by           *)
(* cycle_limit_reached and does not care.                                  *)
CycleLimit ==
    phase = "model" /\ g_cycle_limit # 0 /\ ~ reported => g_cycle_count < g_cycle_limit

(* The depth of the trace is the number of calls in progress, less those   *)
(* that were when tracing was enabled, less one: the end of enable_tracing *)
(* is traced and its beginning is not.  So it is however calls have ended, *)
(* by a return, an exception, or after tracing was disabled and enabled    *)
(* again.                                                                  *)
TraceDepth ==
    g_trace_depth = IF opt_trace /\ g_trace_enabled THEN calls - level - 1 ELSE 0

(* Images with numbers that atoll and sscanf can read (ImageIsExact of     *)
(* RtsMemory is about others).                                             *)
ImagesFit ==
    \A k \in Of(argv, "i") : argv[k].lines # NoFile =>
        \A n \in DOMAIN argv[k].lines \ BadLines(argv[k].lines) : Memory!LineFits(argv[k].lines[n])

(* The model starts with the memory, entry point, limit and flags that the *)
(* command line as a whole tells, or the program ends as it tells.  Memory *)
(* and entry point are those of images whose numbers can be read; there is *)
(* no such condition on the way the program ends.                          *)
Started ==
    /\ Ends(argv) = {}
    /\ ImagesFit =>
         /\ ram' = RamTold(argv)
         /\ Of(argv, "e") = {} \/ Of(argv, "n") # {} => IsEntryTold(argv, g_elf_entry')
    /\ g_cycle_limit' = ValueTold(argv, "l")
    /\ g_verbosity' = ValueTold(argv, "v")
Refused == Ends(argv) # {} /\ status' = StatusTold(argv)
StartsAsTold ==
    [][/\ phase # "model" /\ phase' = "model" => Started
       /\ phase = "arguments" /\ phase' = "exited" => Refused]_vars

(* A symbol of a simple ELF file is found with the value of its first      *)
(* entry, and one that is not there is not found (little endian files).    *)
LookupFindsFirst ==
    lookup # NoLookup /\ lookup.elf.le /\ Simple(lookup.elf)
        => lookup.found = SymbolTold(lookup.elf, lookup.symname)

(* With a limit, a model that keeps calling cycle_count stops, whether it  *)
(* sleeps, throws exceptions or counts cycles itself.                      *)
TimesOut == (phase = "model" /\ g_cycle_limit # 0) ~> (phase = "exited")

(* An ELF file loaded last gives the entry point when there is no -n: the  *)
(* flag is to `override the address read from the ELF file' (rts.c 577).   *)
ElfEntryIsRead ==
    phase = "model" /\ Of(argv, "n") = {} /\ argv # <<>> /\ argv[Len(argv)].opt = "e"
        => g_elf_entry = argv[Len(argv)].elf.entry
=============================================================================
