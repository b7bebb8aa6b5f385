-------------------------- MODULE RtsControlProofs --------------------------
(***************************************************************************)
(* Proofs about a generated program, for every command line, every limit,  *)
(* every depth of calls, every image and every ELF file: how it runs, that *)
(* it starts as its command line tells, and that symbols are found in the  *)
(* files it names.                                                         *)
(***************************************************************************)
EXTENDS RtsControl, ElfProofs

USE DEF started, locals, traced, cycles, model

(* The actions, by what they may change. *)
Loads == OptBinary \/ OptImage \/ OptElf \/ LoadProgHdr \/ LoadElfEnd
Sets  == OptEntry \/ OptLimit \/ OptVerbosity \/ OptConfig \/ OptHelp
Works == \/ Call \/ Return \/ Throw \/ Unwind \/ Catch
         \/ enable_tracing \/ disable_tracing \/ sleep_request \/ wakeup_request
         \/ cycle_limit_reached \/ cycle_count \/ Exit \/ model_fini

LEMMA NextCases ==
    ASSUME [Next]_vars
    PROVE  \/ lookup_sym \/ model_init \/ Loads \/ Sets \/ EndOfOptions \/ Works
           \/ UNCHANGED vars
BY DEF Next, process_arguments, Loads, Sets, Works, Exited

(* The option that is looked at is one of the options. *)
LEMMA CurrentOption ==
    ASSUME TypeOK, NEW opt, Option(opt)
    PROVE  /\ arg \in Options
           /\ arg.opt = opt
           /\ optind \in 1..MaxOptions
<1>1. PICK n \in 0..MaxOptions : argv \in [1..n -> Options]
  BY DEF TypeOK
<1>2. optind \in 1..n /\ arg.opt = opt
  BY <1>1 DEF Option, arg
<1>3. 1..n \subseteq 1..MaxOptions
  BY ControlAssumption
<1> QED
  BY <1>1, <1>2, <1>3 DEF arg

(* Memory is an array over all addresses, whatever is loaded. *)
LEMMA LoadsKeepDomain ==
    ASSUME TypeOK, Loads
    PROVE  DOMAIN ram' = Address
<1>1. CASE OptBinary
  BY <1>1 DEF TypeOK, OptBinary, Memory!OverlayRaw, Memory!Overlay, Memory!Address, Address
<1>2. CASE OptImage
  BY <1>2 DEF TypeOK, OptImage, Memory!OverlayImage, Memory!Address, Address
<1>3. CASE LoadProgHdr
  BY <1>3 DEF TypeOK, LoadProgHdr, loadProgHdr, loadBlock
<1>4. CASE OptElf \/ LoadElfEnd
  BY <1>4 DEF TypeOK, OptElf, LoadElfEnd
<1> QED
  BY <1>1, <1>2, <1>3, <1>4 DEF Loads

-----------------------------------------------------------------------------
(* Type correctness. *)
LEMMA TypeInit ==
    ASSUME Init
    PROVE  TypeOK
<1>1. \E n \in 0..MaxOptions : argv \in [1..n -> Options]
  BY DEF Init
<1>2. /\ optind \in 1..(MaxOptions + 1) /\ (elf # NoElf => optind \in DOMAIN argv /\ argv[optind].opt = "e")
      /\ calls \in 0..MaxCalls /\ level \in 0..MaxCalls
      /\ g_cycle_count \in 0..(CycleSpace - 1)
      /\ g_cycle_limit \in Values /\ g_verbosity \in Values /\ elf_entry \in Values
  BY ControlAssumption DEF Init
<1>3. /\ phase \in {"platform", "arguments", "model", "exited"} /\ status \in {0, 1}
      /\ DOMAIN ram = Address /\ g_trace_depth \in Int
  BY DEF Init, Zero
<1>4. /\ elf_entry_set \in BOOLEAN /\ have_exception \in BOOLEAN /\ g_sleeping \in BOOLEAN
      /\ g_trace_enabled \in BOOLEAN /\ reported \in BOOLEAN
  BY Zenon DEF Init
<1> QED
  BY <1>1, <1>2, <1>3, <1>4, Zenon DEF TypeOK

(* The next option is one of them, or there is none. *)
LEMMA NextOption ==
    ASSUME TypeOK, NEW opt, Option(opt), next_option \/ fail
    PROVE  /\ optind' \in 1..(MaxOptions + 1)
           /\ phase' \in {"arguments", "exited"}
           /\ status' \in {0, 1}
           /\ elf = NoElf
<1>1. optind \in 1..MaxOptions /\ phase = "arguments" /\ status \in {0, 1} /\ elf = NoElf
  BY CurrentOption DEF TypeOK, Option
<1> QED
  BY <1>1, ControlAssumption DEF next_option, fail, exit

LEMMA TypeLoads ==
    ASSUME TypeOK, Loads
    PROVE  TypeOK'
<1>1. DOMAIN ram' = Address
  BY LoadsKeepDomain
<1>2. CASE OptBinary
  <2>1. Option("b") /\ (next_option \/ fail)
    BY <1>2 DEF OptBinary
  <2> QED
    BY <1>1, <1>2, <2>1, NextOption DEF TypeOK, OptBinary
<1>3. CASE OptImage
  <2>1. Option("i") /\ (next_option \/ fail)
    BY <1>3 DEF OptImage
  <2> QED
    BY <1>1, <1>3, <2>1, NextOption DEF TypeOK, OptImage
<1>4. CASE OptElf
  BY <1>1, <1>4 DEF TypeOK, OptElf, Option, fail, exit
<1>5. CASE LoadProgHdr
  BY <1>1, <1>5 DEF TypeOK, LoadProgHdr, exit
<1>6. CASE LoadElfEnd
  <2>1. PICK n \in 0..MaxOptions : argv \in [1..n -> Options]
    BY DEF TypeOK
  <2>2. optind \in 1..n
    BY <1>6, <2>1 DEF TypeOK, LoadElfEnd
  <2>3. optind + 1 \in 1..(MaxOptions + 1)
    BY <2>2, ControlAssumption
  <2> QED
    BY <1>1, <1>6, <2>3 DEF TypeOK, LoadElfEnd, next_option
<1> QED
  BY <1>2, <1>3, <1>4, <1>5, <1>6 DEF Loads

LEMMA TypeSets ==
    ASSUME TypeOK, Sets
    PROVE  TypeOK'
<1>1. CASE OptEntry
  <2>1. Option("n") /\ (next_option \/ fail)
    BY <1>1 DEF OptEntry
  <2>2. arg.entry \in Values \cup {Unparsable, TooShort}
    BY <2>1, CurrentOption, ControlAssumption
  <2>3. elf_entry' \in Values /\ elf_entry_set' \in BOOLEAN
    BY <1>1, <2>2 DEF TypeOK, OptEntry
  <2> QED
    BY <1>1, <2>1, <2>3, NextOption DEF TypeOK, OptEntry
<1>2. CASE OptLimit
  <2>1. Option("l") /\ (next_option \/ fail)
    BY <1>2 DEF OptLimit
  <2>2. arg.value \in Values \cup {Unparsable, TooShort}
    BY <2>1, CurrentOption, ControlAssumption
  <2>3. g_cycle_limit' \in Values
    BY <1>2, <2>2 DEF TypeOK, OptLimit, Scanned
  <2> QED
    BY <1>2, <2>1, <2>3, NextOption DEF TypeOK, OptLimit
<1>3. CASE OptVerbosity
  <2>1. Option("v") /\ (next_option \/ fail)
    BY <1>3 DEF OptVerbosity
  <2>2. arg.value \in Values \cup {Unparsable, TooShort}
    BY <2>1, CurrentOption, ControlAssumption
  <2>3. g_verbosity' \in Values
    BY <1>3, <2>2 DEF TypeOK, OptVerbosity, Scanned
  <2> QED
    BY <1>3, <2>1, <2>3, NextOption DEF TypeOK, OptVerbosity
<1>4. CASE OptConfig
  <2>1. Option("C") /\ (next_option \/ fail)
    BY <1>4 DEF OptConfig
  <2> QED
    BY <1>4, <2>1, NextOption DEF TypeOK, OptConfig
<1>5. CASE OptHelp
  BY <1>5 DEF TypeOK, OptHelp, exit
<1> QED
  BY <1>1, <1>2, <1>3, <1>4, <1>5 DEF Sets

(* What a line of the trace does to its depth is a step of one. *)
LEMMA TraceStep ==
    ASSUME NEW enabled, NEW d \in Int
    PROVE  trace_start(enabled, d) \in Int /\ trace_end(enabled, d) \in Int
BY DEF trace_start, trace_end

LEMMA TypeWorks ==
    ASSUME TypeOK, Works
    PROVE  TypeOK'
<1>1. g_trace_depth' \in Int
  <2>1. g_trace_depth \in Int /\ 0 \in Int
    BY DEF TypeOK
  <2> QED
    BY <2>1, TraceStep
       DEF Works, Call, Return, Throw, Unwind, Catch, enable_tracing, disable_tracing, Builtin,
           sleep_request, wakeup_request, cycle_limit_reached, cycle_count, Exit, model_fini
<1>2. counted \in 0..(CycleSpace - 1)
  BY ControlAssumption DEF TypeOK, counted
<1>3. CASE Call
  <2>1. calls' \in 0..MaxCalls
    BY <1>3, ControlAssumption DEF TypeOK, Call
  <2> QED
    BY <1>1, <1>3, <2>1 DEF TypeOK, Call, Idle
<1>4. CASE Return
  <2>1. calls' \in 0..MaxCalls
    BY <1>4, ControlAssumption DEF TypeOK, Return
  <2> QED
    BY <1>1, <1>4, <2>1 DEF TypeOK, Return, Idle
<1>5. CASE Unwind
  <2>1. calls' \in 0..MaxCalls
    BY <1>5, ControlAssumption DEF TypeOK, Unwind
  <2> QED
    BY <1>1, <1>5, <2>1 DEF TypeOK, Unwind, Idle
<1>6. CASE Throw \/ Catch
  BY <1>1, <1>6 DEF TypeOK, Throw, Catch, Idle
<1>7. CASE enable_tracing \/ disable_tracing
  BY <1>1, <1>7 DEF TypeOK, enable_tracing, disable_tracing, Idle
<1>8. CASE sleep_request \/ wakeup_request
  BY <1>1, <1>8 DEF TypeOK, sleep_request, wakeup_request, Builtin
<1>9. CASE cycle_limit_reached
  <2>1. reported' \in BOOLEAN
    BY <1>9 DEF TypeOK, cycle_limit_reached
  <2> QED
    BY <1>1, <1>2, <1>9, <2>1 DEF TypeOK, cycle_limit_reached, Builtin
<1>10. CASE cycle_count
  BY <1>1, <1>2, <1>10 DEF TypeOK, cycle_count, Builtin, exit
<1>11. CASE Exit
  BY <1>11 DEF TypeOK, Exit, exit
<1>12. CASE model_fini
  BY <1>12 DEF TypeOK, model_fini, exit, Zero
<1> QED
  BY <1>3, <1>4, <1>5, <1>6, <1>7, <1>8, <1>9, <1>10, <1>11, <1>12 DEF Works

LEMMA TypeNext ==
    ASSUME TypeOK, [Next]_vars
    PROVE  TypeOK'
<1>1. CASE lookup_sym
  BY <1>1 DEF TypeOK, lookup_sym
<1>2. CASE model_init
  <2>1. g_trace_enabled' \in BOOLEAN
    BY <1>2, Zenon DEF model_init
  <2>2. /\ g_trace_depth' \in Int
        /\ phase' \in {"platform", "arguments", "model", "exited"}
        /\ UNCHANGED <<status, argv, optind, elf, elf_entry_set, elf_entry, ram, g_cycle_limit,
                      g_verbosity, calls, have_exception, g_sleeping, g_cycle_count, level,
                      reported>>
    BY <1>2 DEF model_init
  <2> QED
    BY <2>1, <2>2, Zenon DEF TypeOK
<1>3. CASE EndOfOptions
  BY <1>3, ControlAssumption DEF TypeOK, EndOfOptions
<1>4. CASE UNCHANGED vars
  BY <1>4 DEF TypeOK, vars
<1> QED
  BY <1>1, <1>2, <1>3, <1>4, NextCases, TypeLoads, TypeSets, TypeWorks

(* Every state has the types of the variables of the C code; in particular *)
(* a command line leaves the limit and the flags with numbers.             *)
THEOREM TypeCorrect == Spec => []TypeOK
BY TypeInit, TypeNext, PTL DEF Spec

-----------------------------------------------------------------------------
(* The depth of the trace. *)
LEMMA TraceNext ==
    ASSUME TypeOK, TraceDepth, [Next]_vars
    PROVE  TraceDepth'
<1>1. /\ calls \in Int /\ level \in Int /\ g_trace_depth \in Int
      /\ opt_trace \in BOOLEAN /\ g_trace_enabled \in BOOLEAN
  BY ControlAssumption DEF TypeOK
<1>2. CASE lookup_sym \/ Loads \/ Sets \/ EndOfOptions \/ UNCHANGED vars
  <2>1. UNCHANGED <<calls, level, g_trace_enabled, g_trace_depth>>
    BY <1>2
       DEF lookup_sym, Loads, OptBinary, OptImage, OptElf, LoadProgHdr, LoadElfEnd,
           Sets, OptEntry, OptLimit, OptVerbosity, OptConfig, OptHelp, EndOfOptions, vars
  <2> QED
    BY <2>1 DEF TraceDepth
<1>3. CASE model_init
  BY <1>3 DEF model_init, TraceDepth
<1>4. CASE Call
  BY <1>1, <1>4 DEF Call, trace_start, TraceDepth
<1>5. CASE Return \/ Unwind
  BY <1>1, <1>5 DEF Return, Unwind, trace_end, TraceDepth
<1>6. CASE enable_tracing \/ disable_tracing
  BY <1>1, <1>6 DEF enable_tracing, disable_tracing, trace_end, TraceDepth
<1>7. CASE sleep_request \/ wakeup_request \/ cycle_limit_reached \/ cycle_count
  <2>1. Builtin
    BY <1>7 DEF sleep_request, wakeup_request, cycle_limit_reached, cycle_count
  <2> QED
    BY <1>1, <2>1 DEF Builtin, trace_start, trace_end, TraceDepth
<1>8. CASE Throw \/ Catch \/ Exit \/ model_fini
  <2>1. UNCHANGED <<calls, level, g_trace_enabled, g_trace_depth>>
    BY <1>8 DEF Throw, Catch, Exit, model_fini
  <2> QED
    BY <2>1 DEF TraceDepth
<1> QED
  BY <1>2, <1>3, <1>4, <1>5, <1>6, <1>7, <1>8, NextCases DEF Works

(* The depth of the trace is the number of calls in progress, less those   *)
(* at the time tracing was enabled, less one for the end of enable_tracing *)
(* itself: trace_start and trace_end are otherwise paired on every path    *)
(* through the model.                                                      *)
THEOREM TraceIsNested == Spec => []TraceDepth
<1>1. Init => TraceDepth
  BY DEF Init, TraceDepth
<1> QED
  BY <1>1, TraceNext, TypeCorrect, PTL DEF Spec

-----------------------------------------------------------------------------
(* The limit on cycles.  Nothing is counted before the model starts, when  *)
(* the limit is set.                                                       *)
NothingCounted ==
    phase \in {"platform", "arguments"} => g_cycle_count = 0 /\ ~ reported

LimitInv == CycleLimit /\ NothingCounted

LEMMA LimitNext ==
    ASSUME TypeOK, LimitInv, [Next]_vars
    PROVE  LimitInv'
<1>1. /\ g_cycle_limit \in Nat /\ g_cycle_limit < CycleSpace
      /\ g_cycle_count \in Nat /\ g_cycle_count < CycleSpace /\ CycleSpace \in Nat
  BY ControlAssumption DEF TypeOK
<1>2. CASE lookup_sym \/ model_init \/ Loads \/ Sets
  <2>1. /\ phase \in {"platform", "arguments"}
        /\ phase' \in {"platform", "arguments", "exited"}
        /\ UNCHANGED <<g_cycle_count, reported>>
    BY <1>2
       DEF lookup_sym, model_init, Loads, OptBinary, OptImage, OptElf, LoadProgHdr, LoadElfEnd,
           Sets, OptEntry, OptLimit, OptVerbosity, OptConfig, OptHelp, Option,
           next_option, fail, exit
  <2> QED
    BY <2>1 DEF LimitInv, CycleLimit, NothingCounted
<1>3. CASE EndOfOptions
  <2>1. /\ phase = "arguments" /\ phase' = "model"
        /\ UNCHANGED <<g_cycle_limit, g_cycle_count, reported>>
    BY <1>3 DEF EndOfOptions
  <2> QED
    BY <1>1, <2>1 DEF LimitInv, CycleLimit, NothingCounted
<1>4. CASE cycle_limit_reached \/ cycle_count
  <2>1. /\ phase = "model" /\ phase' \in {"model", "exited"}
        /\ UNCHANGED g_cycle_limit
        /\ g_cycle_count' = counted
    BY <1>4 DEF cycle_limit_reached, cycle_count, Builtin, Running, exit
  <2>2. /\ at_limit => phase' = "exited" \/ reported'
        /\ reported => reported'
    <3>1. CASE cycle_limit_reached
      <4>1. reported' = (reported \/ at_limit)
        BY <3>1 DEF cycle_limit_reached
      <4> QED
        BY <4>1, Zenon
    <3>2. CASE cycle_count
      <4>1. UNCHANGED reported /\ (at_limit => phase' = "exited")
        BY <3>2 DEF cycle_count, exit
      <4> QED
        BY <4>1
    <3> QED
      BY <1>4, <3>1, <3>2
  <2>3. ASSUME phase' = "model", g_cycle_limit # 0, ~ reported'
        PROVE  counted < g_cycle_limit
    <3>1. g_cycle_count < g_cycle_limit
      BY <2>1, <2>2, <2>3 DEF LimitInv, CycleLimit
    <3>2. counted = g_cycle_count + 1
      BY <1>1, <3>1 DEF counted
    <3> QED
      BY <1>1, <2>2, <2>3, <3>2 DEF at_limit
  <2> QED
    BY <2>1, <2>3 DEF LimitInv, CycleLimit, NothingCounted
<1>5. CASE Works /\ ~ cycle_limit_reached /\ ~ cycle_count
  <2>1. /\ phase = "model" /\ phase' \in {"model", "exited"}
        /\ UNCHANGED <<g_cycle_limit, g_cycle_count, reported>>
    BY <1>5
       DEF Works, Call, Return, Throw, Unwind, Catch, enable_tracing, disable_tracing,
           sleep_request, wakeup_request, Builtin, Exit, model_fini, Running, Idle, exit
  <2> QED
    BY <2>1 DEF LimitInv, CycleLimit, NothingCounted
<1>6. CASE UNCHANGED vars
  BY <1>6 DEF vars, LimitInv, CycleLimit, NothingCounted
<1> QED
  BY <1>2, <1>3, <1>4, <1>5, <1>6, NextCases

(* A model never goes on at its limit or past it, for every limit, the     *)
(* largest number of the machine included.                                 *)
THEOREM LimitIsKept == Spec => []CycleLimit
<1>1. Init => LimitInv
  BY DEF Init, LimitInv, CycleLimit, NothingCounted
<1>2. LimitInv => CycleLimit
  BY DEF LimitInv
<1> QED
  BY <1>1, <1>2, LimitNext, TypeCorrect, PTL DEF Spec

-----------------------------------------------------------------------------
(* The entry point.  While the options are read, the local variable has    *)
(* the entry point of the last -n.                                         *)
EntrySoFar ==
    phase = "arguments" =>
        \A k \in Of(argv, "n") :
            k < optind /\ (\A j \in Of(argv, "n") : j < optind => j <= k)
                => elf_entry_set /\ (argv[k].entry \in Nat => elf_entry = argv[k].entry)

(* Options are read in order, and none is left out. *)
InOrder ==
    /\ phase = "platform" => optind = 1
    /\ optind # 1 => optind - 1 \in DOMAIN argv

EntryInv == ExplicitEntryWins /\ EntrySoFar /\ InOrder

(* The domain of the command line. *)
LEMMA ArgvDomain ==
    ASSUME TypeOK
    PROVE  /\ \E n \in Nat : DOMAIN argv = 1..n
           /\ optind \in Nat \ {0}
<1>1. PICK n \in 0..MaxOptions : argv \in [1..n -> Options]
  BY DEF TypeOK
<1> QED
  BY <1>1, ControlAssumption DEF TypeOK

(* A step that reads an option other than -n, or is within one. *)
LEMMA OtherOption ==
    ASSUME TypeOK, EntryInv, phase = "arguments",
           phase' \in {"arguments", "exited"},
           UNCHANGED <<argv, elf_entry_set, elf_entry>>,
           \/ UNCHANGED optind
           \/ optind \in DOMAIN argv /\ argv[optind].opt # "n" /\ optind' = optind + 1
    PROVE  EntryInv'
<1>1. PICK n \in Nat : DOMAIN argv = 1..n
  BY ArgvDomain
<1>2. optind \in Nat \ {0}
  BY ArgvDomain
<1>3. InOrder'
  BY <1>2 DEF EntryInv, InOrder
<1>4. \A k \in Of(argv, "n") : k \in Nat /\ (k < optind' <=> k < optind)
  BY <1>1, <1>2 DEF Of
<1>5. EntrySoFar'
  BY <1>4 DEF EntryInv, EntrySoFar, Of
<1> QED
  BY <1>3, <1>5 DEF EntryInv, ExplicitEntryWins

LEMMA EntryNext ==
    ASSUME TypeOK, EntryInv, [Next]_vars
    PROVE  EntryInv'
<1>1. CASE lookup_sym
  BY <1>1 DEF lookup_sym, EntryInv, ExplicitEntryWins, EntrySoFar, InOrder
<1>2. CASE model_init
  <2>1. /\ optind = 1 /\ phase' = "arguments"
        /\ UNCHANGED <<argv, optind, elf_entry_set, elf_entry>>
    BY <1>2 DEF model_init, EntryInv, InOrder
  <2>2. \A k \in Of(argv, "n") : ~ (k < 1)
    <3>1. PICK n \in Nat : DOMAIN argv = 1..n
      BY ArgvDomain
    <3> QED
      BY <3>1 DEF Of
  <2> QED
    BY <2>1, <2>2 DEF EntryInv, ExplicitEntryWins, EntrySoFar, InOrder, Of
<1>3. CASE OptEntry
  <2>1. Option("n") /\ (next_option \/ fail) /\ UNCHANGED argv
    BY <1>3 DEF OptEntry
  <2>2. optind \in DOMAIN argv /\ phase = "arguments" /\ phase' \in {"arguments", "exited"}
    BY <2>1 DEF Option, next_option, fail, exit
  <2>3. PICK n \in Nat : DOMAIN argv = 1..n
    BY ArgvDomain
  <2>4. CASE arg.entry = Unparsable
    BY <1>3, <2>2, <2>4, OtherOption DEF OptEntry, fail
  <2>5. CASE arg.entry # Unparsable
    <3>1. /\ optind' = optind + 1 /\ elf_entry_set' = TRUE
          /\ elf_entry' = IF arg.entry = TooShort THEN elf_entry ELSE arg.entry
      BY <1>3, <2>5 DEF OptEntry, next_option
    <3>2. optind \in Of(argv, "n") /\ optind \in Nat
      BY <2>1, <2>2, <2>3 DEF Of, Option
    <3>3. ASSUME NEW k \in Of(argv, "n"), k < optind',
                 \A j \in Of(argv, "n") : j < optind' => j <= k
          PROVE  k = optind
      BY <2>3, <3>1, <3>2, <3>3 DEF Of
    <3>4. arg.entry \in Nat => elf_entry' = arg.entry
      BY <3>1, ControlAssumption
    <3>5. EntrySoFar'
      BY <2>1, <3>1, <3>3, <3>4 DEF EntrySoFar, arg
    <3>6. InOrder' /\ ExplicitEntryWins'
      BY <2>1, <2>2, <3>1, <3>2 DEF InOrder, ExplicitEntryWins
    <3> QED
      BY <3>5, <3>6 DEF EntryInv
  <2> QED
    BY <2>4, <2>5
<1>4. CASE Loads \/ (Sets /\ ~ OptEntry)
  <2>1. /\ phase = "arguments" /\ phase' \in {"arguments", "exited"}
        /\ UNCHANGED <<argv, elf_entry_set, elf_entry>>
    BY <1>4
       DEF Loads, OptBinary, OptImage, OptElf, LoadProgHdr, LoadElfEnd,
           Sets, OptLimit, OptVerbosity, OptConfig, OptHelp, Option, next_option, fail, exit
  <2>2. CASE LoadElfEnd
    <3>1. /\ optind \in DOMAIN argv /\ argv[optind].opt = "e" /\ optind' = optind + 1
      BY <2>2 DEF TypeOK, LoadElfEnd, next_option
    <3> QED
      BY <2>1, <3>1, OtherOption
  <2>3. CASE ~ LoadElfEnd
    <3>1. \/ UNCHANGED optind
          \/ optind \in DOMAIN argv /\ argv[optind].opt # "n" /\ optind' = optind + 1
      BY <1>4, <2>3
         DEF Loads, OptBinary, OptImage, OptElf, LoadProgHdr,
             Sets, OptLimit, OptVerbosity, OptConfig, OptHelp, Option, next_option, fail
    <3> QED
      BY <2>1, <3>1, OtherOption
  <2> QED
    BY <2>2, <2>3
<1>5. CASE EndOfOptions
  <2>1. /\ phase = "arguments" /\ phase' = "model" /\ optind \notin DOMAIN argv
        /\ g_elf_entry' = IF elf_entry_set THEN elf_entry ELSE g_elf_entry
        /\ UNCHANGED <<argv, optind>>
    BY <1>5 DEF EndOfOptions
  <2>2. PICK n \in Nat : DOMAIN argv = 1..n
    BY ArgvDomain
  <2>3. optind \in Nat \ {0}
    BY ArgvDomain
  <2>4. \A k \in Of(argv, "n") : k \in Nat /\ k < optind
    BY <2>1, <2>2, <2>3 DEF EntryInv, InOrder, Of
  <2>5. ExplicitEntryWins'
    BY <2>1, <2>4 DEF EntryInv, EntrySoFar, ExplicitEntryWins, Of
  <2> QED
    BY <2>1, <2>5 DEF EntryInv, EntrySoFar, InOrder
<1>6. CASE Works
  <2>1. /\ phase = "model" /\ phase' \in {"model", "exited"}
        /\ UNCHANGED <<argv, optind, g_elf_entry>>
    BY <1>6
       DEF Works, Call, Return, Throw, Unwind, Catch, enable_tracing, disable_tracing,
           sleep_request, wakeup_request, cycle_limit_reached, cycle_count, Builtin,
           Exit, model_fini, Running, Idle, exit
  <2> QED
    BY <2>1 DEF EntryInv, ExplicitEntryWins, EntrySoFar, InOrder
<1>7. CASE UNCHANGED vars
  BY <1>7 DEF vars, EntryInv, ExplicitEntryWins, EntrySoFar, InOrder
<1> QED
  BY <1>1, <1>2, <1>3, <1>4, <1>5, <1>6, <1>7, NextCases

(* The last -n of a command line of any length gives the entry point, if   *)
(* sscanf could read its argument, in whatever order files are loaded.     *)
THEOREM EntryIsExplicit == Spec => []ExplicitEntryWins
<1>1. ASSUME Init
      PROVE  EntryInv
  BY <1>1 DEF Init, EntryInv, ExplicitEntryWins, EntrySoFar, InOrder
<1>2. EntryInv => ExplicitEntryWins
  BY DEF EntryInv
<1> QED
  BY <1>1, <1>2, EntryNext, TypeCorrect, PTL DEF Spec

HIDE DEF started, locals, traced, cycles, model

-----------------------------------------------------------------------------
(* What the options before number n of a command line v have done.         *)
LoadersOf(v, n, a) == {k \in 1..(n - 1) : a \in Reach(v[k])}
RamBefore(v, n) ==
    [a \in Address |->
       LET S == LoadersOf(v, n, a)
       IN  IF S = {} THEN 0 ELSE ByteTold(v[Max(S)], a)]

SettersOf(v, n, opt) == {k \in 1..(n - 1) : v[k].opt = opt /\ v[k].value # TooShort}
ValueBefore(v, n, opt) ==
    LET S == SettersOf(v, n, opt) IN IF S = {} THEN 0 ELSE v[Max(S)].value

EntryImages(v, n) ==
    {k \in 1..(n - 1) : v[k].opt = "i" /\ Memory!LinesFor(v[k].lines, ElfEntry) # {}}
ImageBefore(v, n) ==
    LET S == EntryImages(v, n) IN IF S = {} THEN 0 ELSE EntryLine(v[Max(S)].lines)

Entries(v, n) == {k \in 1..(n - 1) : v[k].opt = "n"}

Ending(o) == o.opt = "h" \/ Fails(o)

(* What its first i program headers have loaded.                           *)
SegmentsAt(e, i, a) == {j \in Loaded(e) : j <= i /\ a \in Segment(e.segments[j])}
PutSegments(m, e, i) ==
    [a \in Address |->
       LET S == SegmentsAt(e, i, a)
       IN  IF S = {} THEN m[a] ELSE ByteIn(e, e.segments[Max(S)], a)]

(* The newest member of a set is the greatest. *)
LEMMA Newest ==
    ASSUME NEW n \in Nat \ {0}, NEW S, S \subseteq 1..(n - 1)
    PROVE  Max(S \cup {n}) = n /\ S \cup {n} # {}
<1>1. S \cup {n} \subseteq Nat /\ n \in S \cup {n} /\ \A y \in S \cup {n} : n >= y
  OBVIOUS
<1> QED
  BY <1>1, MaxIs

-----------------------------------------------------------------------------
(* Memory. *)
Put(m, o) == [a \in Address |-> IF a \in Reach(o) THEN ByteTold(o, a) ELSE m[a]]

LEMMA RamNone == ASSUME NEW v PROVE RamBefore(v, 1) = Zero
<1>1. \A a : LoadersOf(v, 1, a) = {}
  BY DEF LoadersOf
<1> QED
  BY <1>1 DEF RamBefore, Zero

LEMMA RamNext ==
    ASSUME NEW v, NEW n \in Nat \ {0}
    PROVE  RamBefore(v, n + 1) = Put(RamBefore(v, n), v[n])
<1> SUFFICES ASSUME NEW a \in Address
             PROVE  RamBefore(v, n + 1)[a] = Put(RamBefore(v, n), v[n])[a]
  BY DEF RamBefore, Put
<1>1. LoadersOf(v, n, a) \subseteq 1..(n - 1)
  BY DEF LoadersOf
<1>2. LoadersOf(v, n + 1, a)
        = IF a \in Reach(v[n]) THEN LoadersOf(v, n, a) \cup {n} ELSE LoadersOf(v, n, a)
  <2>1. \A k : k \in 1..((n + 1) - 1) <=> k \in 1..(n - 1) \/ k = n
    OBVIOUS
  <2> QED
    BY <2>1 DEF LoadersOf
<1>3. Put(RamBefore(v, n), v[n])[a] = IF a \in Reach(v[n]) THEN ByteTold(v[n], a) ELSE RamBefore(v, n)[a]
  BY DEF Put
<1>4. CASE a \in Reach(v[n])
  <2>1. Max(LoadersOf(v, n + 1, a)) = n /\ LoadersOf(v, n + 1, a) # {}
    BY <1>1, <1>2, <1>4, Newest
  <2> QED
    BY <1>3, <1>4, <2>1 DEF RamBefore
<1>5. CASE a \notin Reach(v[n])
  BY <1>2, <1>3, <1>5 DEF RamBefore
<1> QED
  BY <1>4, <1>5

LEMMA RamAll ==
    ASSUME NEW v, NEW n \in Nat, DOMAIN v = 1..(n - 1)
    PROVE  RamBefore(v, n) = RamTold(v)
<1>1. \A a : LoadersOf(v, n, a) = {k \in DOMAIN v : a \in Reach(v[k])}
  BY DEF LoadersOf
<1> QED
  BY <1>1, Zenon DEF RamBefore, RamTold, LastOf

LEMMA RamDomain == \A v, n : DOMAIN RamBefore(v, n) = Address
BY DEF RamBefore

LEMMA RamKept ==
    ASSUME NEW v, NEW n \in Nat \ {0}, Reach(v[n]) = {}
    PROVE  RamBefore(v, n + 1) = RamBefore(v, n)
<1>1. RamBefore(v, n + 1) = [a \in Address |-> RamBefore(v, n)[a]]
  BY RamNext DEF Put
<1> QED
  BY <1>1 DEF RamBefore

-----------------------------------------------------------------------------
(* Numbers. *)
LEMMA ValueNext ==
    ASSUME NEW v, NEW n \in Nat \ {0}, NEW opt
    PROVE  ValueBefore(v, n + 1, opt)
             = IF v[n].opt = opt /\ v[n].value # TooShort THEN v[n].value ELSE ValueBefore(v, n, opt)
<1> DEFINE new == v[n].opt = opt /\ v[n].value # TooShort
<1>1. SettersOf(v, n, opt) \subseteq 1..(n - 1)
  BY DEF SettersOf
<1>2. SettersOf(v, n + 1, opt) = IF new THEN SettersOf(v, n, opt) \cup {n} ELSE SettersOf(v, n, opt)
  <2>1. \A k : k \in 1..((n + 1) - 1) <=> k \in 1..(n - 1) \/ k = n
    OBVIOUS
  <2> QED
    BY <2>1 DEF SettersOf
<1>3. CASE new
  <2>1. Max(SettersOf(v, n + 1, opt)) = n /\ SettersOf(v, n + 1, opt) # {}
    BY <1>1, <1>2, <1>3, Newest
  <2> QED
    BY <1>3, <2>1, Zenon DEF ValueBefore
<1>4. CASE ~ new
  BY <1>2, <1>4, Zenon DEF ValueBefore
<1> QED
  BY <1>3, <1>4

LEMMA ValueNone == ASSUME NEW v, NEW opt PROVE ValueBefore(v, 1, opt) = 0
<1>1. SettersOf(v, 1, opt) = {}
  BY DEF SettersOf
<1> QED
  BY <1>1 DEF ValueBefore

LEMMA ValueAll ==
    ASSUME NEW v, NEW n \in Nat, DOMAIN v = 1..(n - 1), NEW opt
    PROVE  ValueBefore(v, n, opt) = ValueTold(v, opt)
<1>1. SettersOf(v, n, opt) = Set(v, opt)
  BY DEF SettersOf, Set, Of
<1> QED
  BY <1>1, Zenon DEF ValueBefore, ValueTold, LastOf

LEMMA ImageEntry ==
    ASSUME NEW lines, NEW e
    PROVE  Memory!EntryOf(e, lines)
             = IF Memory!LinesFor(lines, ElfEntry) = {} THEN e ELSE EntryLine(lines)
<1>1. \A S : Memory!Max(S) = Max(S)
  BY DEF Memory!Max, Max
<1>2. EntryLine(lines) = lines[Max(Memory!LinesFor(lines, ElfEntry))].data
  BY DEF EntryLine, Memory!LinesFor
<1> QED
  BY <1>1, <1>2 DEF Memory!EntryOf

LEMMA ImageNext ==
    ASSUME NEW v, NEW n \in Nat \ {0}
    PROVE  ImageBefore(v, n + 1)
             = IF v[n].opt = "i" THEN Memory!EntryOf(ImageBefore(v, n), v[n].lines)
               ELSE ImageBefore(v, n)
<1> DEFINE found == Memory!LinesFor(v[n].lines, ElfEntry) # {}
           new   == v[n].opt = "i" /\ found
           old   == ImageBefore(v, n)
<1>1. EntryImages(v, n) \subseteq 1..(n - 1)
  BY DEF EntryImages
<1>2. EntryImages(v, n + 1) = IF new THEN EntryImages(v, n) \cup {n} ELSE EntryImages(v, n)
  <2>1. \A k : k \in 1..((n + 1) - 1) <=> k \in 1..(n - 1) \/ k = n
    OBVIOUS
  <2> QED
    BY <2>1 DEF EntryImages
<1>3. Memory!EntryOf(old, v[n].lines) = IF found THEN EntryLine(v[n].lines) ELSE old
  BY ImageEntry
<1>4. ImageBefore(v, n + 1) = IF new THEN EntryLine(v[n].lines) ELSE old
  <2>1. CASE new
    <3>1. Max(EntryImages(v, n + 1)) = n /\ EntryImages(v, n + 1) # {}
      BY <1>1, <1>2, <2>1, Newest
    <3> QED
      BY <2>1, <3>1 DEF ImageBefore
  <2>2. CASE ~ new
    BY <1>2, <2>2 DEF ImageBefore
  <2> QED
    BY <2>1, <2>2
<1> HIDE DEF found, old
<1> QED
  BY <1>3, <1>4 DEF old

LEMMA ImageNone == ASSUME NEW v PROVE ImageBefore(v, 1) = 0
<1>1. EntryImages(v, 1) = {}
  BY DEF EntryImages
<1> QED
  BY <1>1 DEF ImageBefore

LEMMA ImageAll ==
    ASSUME NEW v, NEW n \in Nat, DOMAIN v = 1..(n - 1)
    PROVE  /\ EntryImages(v, n) = ImageEntries(v)
           /\ ImageBefore(v, n) = IF ImageEntries(v) = {} THEN 0
                                  ELSE EntryLine(LastOf(v, ImageEntries(v)).lines)
<1>1. EntryImages(v, n) = ImageEntries(v)
  BY DEF EntryImages, ImageEntries, Of, Memory!LinesFor
<1> QED
  BY <1>1, Zenon DEF ImageBefore, LastOf

LEMMA EntriesNext ==
    ASSUME NEW v, NEW n \in Nat \ {0}
    PROVE  /\ v[n].opt = "n" => Max(Entries(v, n + 1)) = n /\ Entries(v, n + 1) # {}
           /\ v[n].opt # "n" => Entries(v, n + 1) = Entries(v, n)
<1>1. Entries(v, n) \subseteq 1..(n - 1)
  BY DEF Entries
<1>2. \A k : k \in 1..((n + 1) - 1) <=> k \in 1..(n - 1) \/ k = n
  OBVIOUS
<1>3. CASE v[n].opt = "n"
  <2>1. Entries(v, n + 1) = Entries(v, n) \cup {n}
    BY <1>2, <1>3 DEF Entries
  <2> QED
    BY <1>1, <1>3, <2>1, Newest
<1>4. CASE v[n].opt # "n"
  BY <1>2, <1>4 DEF Entries
<1> QED
  BY <1>3, <1>4

-----------------------------------------------------------------------------
(* What the options load. *)
LEMMA MemoryOperators ==
    /\ \A S : Memory!Max(S) = Max(S)
    /\ Memory!Address = Address
    /\ Address \subseteq Nat
    /\ ElfEntry \notin Address
<1>1. Address \subseteq Nat
  BY Widths DEF Address
<1> QED
  BY <1>1, FileAssumption DEF Memory!Max, Max, Memory!Address, Address

(* Lines with numbers that fit are read as they are. *)
LEMMA LinesFit ==
    ASSUME NEW o \in Options, o.opt = "i", o.lines # NoFile, BadLines(o.lines) = {},
           \A n \in DOMAIN o.lines : Memory!LineFits(o.lines[n])
    PROVE  LinesRead(o.lines) = o.lines
<1> DEFINE lines == o.lines
<1>1. lines \in Seq([addr : Nat, data : Nat] \cup [addr : {ElfEntry}, data : Nat \cup {Unparsable}])
  BY FileAssumption
<1>2. DOMAIN lines = 1..Len(lines) /\ lines = [n \in 1..Len(lines) |-> lines[n]]
  BY <1>1
<1>3. ASSUME NEW n \in 1..Len(lines)
      PROVE  lines[n] = IF lines[n].addr = ElfEntry
                        THEN [addr |-> ElfEntry, data |-> Memory!sscanf_u64(lines[n].data)]
                        ELSE [addr |-> Memory!atoll(lines[n].addr), data |-> Memory!atoll(lines[n].data)]
  <2>1. lines[n] \in [addr : Nat, data : Nat] \cup [addr : {ElfEntry}, data : Nat \cup {Unparsable}]
    BY <1>1
  <2>2. lines[n] = [addr |-> lines[n].addr, data |-> lines[n].data]
    BY <2>1
  <2>3. Memory!LineFits(lines[n])
    BY <1>2
  <2> HIDE DEF lines
  <2> QED
    BY <2>2, <2>3 DEF Memory!LineFits, Memory!sscanf_u64, Memory!atoll
<1>4. LinesRead(lines) = [n \in 1..Len(lines) |-> lines[n]]
  <2> HIDE DEF lines
  <2>1. BadLines(lines) = {}
    BY DEF lines
  <2> QED
    BY <1>3, <2>1 DEF LinesRead
<1> QED
  BY <1>2, <1>4

LEMMA ImagePuts ==
    ASSUME NEW m, NEW o, o.opt = "i"
    PROVE  Memory!OverlayImage(m, o.lines) = Put(m, o)
<1> DEFINE L(a) == Memory!LinesFor(o.lines, a)
<1>1. Memory!OverlayImage(m, o.lines)
        = [a \in Address |-> IF L(a) = {} THEN m[a] ELSE o.lines[Max(L(a))].data % ByteValues]
  BY MemoryOperators, Zenon DEF Memory!OverlayImage
<1>2. \A a \in Address : a \in Reach(o) <=> L(a) # {}
  BY MemoryOperators DEF Reach, Memory!LinesFor
<1>3. \A a \in Address : ByteTold(o, a) = o.lines[Max(L(a))].data % ByteValues
  BY DEF ByteTold, Memory!LinesFor
<1> HIDE DEF L
<1> QED
  BY <1>1, <1>2, <1>3 DEF Put

LEMMA BinaryPuts ==
    ASSUME NEW m, NEW o, o.opt = "b", o.addr \in Address, o.bytes \in Seq(Nat)
    PROVE  Memory!OverlayRaw(m, o.addr, o.bytes) = Put(m, o)
<1> DEFINE A     == AddressSpace
           n     == Len(o.bytes)
           K(x)  == {k \in 0..(n - 1) : (o.addr + k) % A = x}
           T(x)  == {k \in DOMAIN o.bytes : (o.addr + k - 1) % A = x}
           row   == [k \in 0..(n - 1) |-> o.bytes[k + 1] % ByteValues]
<1>1. n \in Nat /\ DOMAIN o.bytes = 1..n
  OBVIOUS
<1>2. Memory!OverlayRaw(m, o.addr, o.bytes)
        = [x \in Address |-> IF K(x) = {} THEN m[x] ELSE row[Max(K(x))]]
  <2>1. Memory!OverlayRaw(m, o.addr, o.bytes) = Memory!Overlay(m, o.addr, n, row)
    BY DEF Memory!OverlayRaw
  <2> HIDE DEF row, n
  <2>2. Memory!Overlay(m, o.addr, n, row)
          = [x \in Address |-> IF K(x) = {} THEN m[x] ELSE row[Max(K(x))]]
    BY MemoryOperators DEF Memory!Overlay
  <2> QED
    BY <2>1, <2>2, Zenon
<1>3. \A x : x \in Reach(o) <=> T(x) # {}
  BY DEF Reach
<1>4. \A x : ByteTold(o, x) = o.bytes[Max(T(x))] % ByteValues
  BY DEF ByteTold
<1>5. \A x, k : k \in K(x) <=> k \in 0..(n - 1) /\ k + 1 \in T(x)
  <2> TAKE x, k
  <2>1. k \in 0..(n - 1) => k + 1 \in DOMAIN o.bytes /\ o.addr + (k + 1) - 1 = o.addr + k
    BY <1>1
  <2> HIDE DEF A, n
  <2> QED
    BY <2>1
<1>6. \A x : T(x) \subseteq 1..n
  BY <1>1
<1>7. \A x, k : k \in T(x) => k - 1 \in K(x)
  BY <1>1
<1> HIDE DEF K, T, n, A
<1>8. ASSUME NEW x, K(x) # {}
      PROVE  row[Max(K(x))] = o.bytes[Max(T(x))] % ByteValues
  <2>1. PICK g \in K(x) : \A y \in K(x) : g >= y
    <3>1. K(x) \subseteq Nat /\ \A y \in K(x) : y <= n
      BY <1>1, <1>5
    <3> DEFINE S == K(x)
    <3>2. S # {} /\ S \subseteq 0..n /\ n \in Nat
      BY <1>1, <1>8, <3>1
    <3> HIDE DEF S
    <3>3. \E g \in S : \A y \in S : g >= y
      BY <3>2, GreatestNumber
    <3> QED
      BY <3>3 DEF S
  <2>2. g \in 0..(n - 1) /\ g + 1 \in T(x) /\ g \in Nat
    BY <1>1, <1>5, <2>1
  <2>3. Max(K(x)) = g
    <3>1. K(x) \subseteq Nat
      BY <1>1, <1>5
    <3> QED
      BY <2>1, <3>1, MaxIs
  <2>4. Max(T(x)) = g + 1
    <3>1. T(x) \subseteq Nat /\ \A y \in T(x) : y \in Nat /\ y - 1 \in K(x)
      BY <1>1, <1>6, <1>7
    <3>2. \A y \in T(x) : g + 1 >= y
      <4> TAKE y \in T(x)
      <4>1. g >= y - 1 /\ y \in Nat
        BY <2>1, <3>1
      <4> QED
        BY <2>2, <4>1
    <3> QED
      BY <2>2, <3>1, <3>2, MaxIs
  <2> QED
    BY <2>2, <2>3, <2>4
<1>9. \A x : K(x) = {} <=> T(x) = {}
  BY <1>5, <1>7
<1> HIDE DEF row
<1> QED
  BY <1>2, <1>3, <1>4, <1>8, <1>9 DEF Put

LEMMA LoadedSegments ==
    ASSUME NEW e, IsElfFile(e)
    PROVE  /\ Len(e.segments) \in Nat
           /\ Loaded(e) \subseteq 1..Len(e.segments)
BY DEF IsElfFile, Loaded

LEMMA SegmentsNone ==
    ASSUME NEW e, IsElfFile(e), NEW m, m = [a \in Address |-> m[a]]
    PROVE  PutSegments(m, e, 0) = m
<1>1. \A a : SegmentsAt(e, 0, a) = {}
  BY LoadedSegments DEF SegmentsAt
<1> QED
  BY <1>1 DEF PutSegments

LEMMA SegmentsNext ==
    ASSUME NEW e, IsElfFile(e), NEW i \in Nat, i < Len(e.segments), NEW m
    PROVE  PutSegments(m, e, i + 1)
             = IF i + 1 \in Loaded(e)
               THEN PutSegment(PutSegments(m, e, i), e, e.segments[i + 1])
               ELSE PutSegments(m, e, i)
<1> DEFINE old    == PutSegments(m, e, i)
           s      == e.segments[i + 1]
           new(a) == i + 1 \in Loaded(e) /\ a \in Segment(s)
<1>1. Loaded(e) \subseteq Nat
  BY LoadedSegments
<1>2. \A a : SegmentsAt(e, i, a) \subseteq 1..((i + 1) - 1)
  BY LoadedSegments DEF SegmentsAt
<1>3. \A a : SegmentsAt(e, i + 1, a)
               = IF new(a) THEN SegmentsAt(e, i, a) \cup {i + 1} ELSE SegmentsAt(e, i, a)
  <2>1. \A j \in Nat : j <= i + 1 <=> j <= i \/ j = i + 1
    OBVIOUS
  <2> QED
    BY <1>1, <2>1 DEF SegmentsAt
<1>4. ASSUME NEW a \in Address
      PROVE  PutSegments(m, e, i + 1)[a] = IF new(a) THEN ByteIn(e, s, a) ELSE old[a]
  <2>1. CASE new(a)
    <3>1. i + 1 \in Nat \ {0}
      OBVIOUS
    <3>2. Max(SegmentsAt(e, i + 1, a)) = i + 1 /\ SegmentsAt(e, i + 1, a) # {}
      BY <1>2, <1>3, <2>1, <3>1, Newest
    <3> QED
      BY <2>1, <3>2 DEF PutSegments
  <2>2. CASE ~ new(a)
    <3>1. SegmentsAt(e, i + 1, a) = SegmentsAt(e, i, a)
      BY <1>3, <2>2
    <3>2. PutSegments(m, e, i + 1)[a] = old[a]
      BY <3>1 DEF PutSegments
    <3> QED
      BY <2>2, <3>2
  <2> QED
    BY <2>1, <2>2
<1>5. PutSegments(m, e, i + 1) = [a \in Address |-> PutSegments(m, e, i + 1)[a]]
      /\ old = [a \in Address |-> old[a]]
  BY DEF PutSegments
<1>6. PutSegments(m, e, i + 1) = [a \in Address |-> IF new(a) THEN ByteIn(e, s, a) ELSE old[a]]
  <2> HIDE DEF new, old, s
  <2> QED
    BY <1>4, <1>5
<1>7. CASE i + 1 \in Loaded(e)
  <2>1. PutSegment(old, e, s) = [a \in Address |-> IF new(a) THEN ByteIn(e, s, a) ELSE old[a]]
    BY <1>7 DEF PutSegment
  <2> QED
    BY <1>6, <1>7, <2>1
<1>8. CASE i + 1 \notin Loaded(e)
  <2> HIDE DEF old, s
  <2> QED
    BY <1>5, <1>6, <1>8 DEF old
<1> QED
  BY <1>7, <1>8

LEMMA SegmentsPut ==
    ASSUME NEW o, o.opt = "e", IsElfFile(o.elf), NEW m
    PROVE  PutSegments(m, o.elf, Len(o.elf.segments)) = Put(m, o)
<1> DEFINE e    == o.elf
           T(a) == {i \in Loaded(e) : a \in Segment(e.segments[i])}
<1>1. \A j \in Loaded(e) : j <= Len(e.segments)
  BY LoadedSegments
<1>2. \A a : SegmentsAt(e, Len(e.segments), a) = T(a)
  BY <1>1 DEF SegmentsAt
<1>3. \A a : a \in Reach(o) <=> T(a) # {}
  BY DEF Reach
<1>4. \A a : ByteTold(o, a) = ByteIn(e, e.segments[Max(T(a))], a)
  BY DEF ByteTold, ByteIn
<1> HIDE DEF T, e
<1>5. PutSegments(m, e, Len(e.segments)) = Put(m, o)
  BY <1>2, <1>3, <1>4 DEF PutSegments, Put
<1> QED
  BY <1>5 DEF e

-----------------------------------------------------------------------------
(* The invariant: between two options the program has done what the        *)
(* options so far tell, and within an ELF file what its headers so far     *)
(* tell.                                                                   *)
OptionsRead ==
    /\ phase = "platform" => optind = 1 /\ elf = NoElf
    /\ \A k \in 1..(optind - 1) : k \in DOMAIN argv /\ ~ Ending(argv[k])

NumbersRead ==
    /\ ImagesFit => g_elf_entry = ImageBefore(argv, optind)
    /\ g_cycle_limit = ValueBefore(argv, optind, "l")
    /\ g_verbosity = ValueBefore(argv, optind, "v")

EntryRead ==
    LET S == Entries(argv, optind)
    IN  /\ elf_entry_set <=> S # {}
        /\ S # {} => (argv[Max(S)].entry # TooShort => elf_entry = argv[Max(S)].entry)

Within(e, i) ==
    /\ e # NoFile /\ HeaderTold(e)
    /\ i \in 0..Len(e.segments)
    /\ elf = [file |-> Encode(e), i |-> i]
    /\ \A j \in 1..i : SegmentInFile(e, j)
    /\ ImagesFit => ram = PutSegments(RamBefore(argv, optind), e, i)

MemoryLoaded ==
    IF elf = NoElf THEN ImagesFit => ram = RamBefore(argv, optind)
    ELSE Within(argv[optind].elf, elf.i)

StartInv ==
    phase \in {"platform", "arguments"} =>
        OptionsRead /\ NumbersRead /\ EntryRead /\ MemoryLoaded

LEMMA StartInit == ASSUME Init PROVE StartInv
<1>1. optind = 1 /\ elf = NoElf /\ ram = Zero
      /\ g_elf_entry = 0 /\ g_cycle_limit = 0 /\ g_verbosity = 0
  BY DEF Init
<1>2. Entries(argv, optind) = {}
  BY <1>1 DEF Entries
<1>3. ~ elf_entry_set
  BY DEF Init
<1> QED
  BY <1>1, <1>2, <1>3, RamNone, ValueNone, ImageNone
     DEF StartInv, OptionsRead, NumbersRead, EntryRead, MemoryLoaded

(* What images have to say does not change. *)
LEMMA FitKept == UNCHANGED argv => (ImagesFit' <=> ImagesFit)
BY DEF ImagesFit, Of

(* The option that is read. *)
LEMMA OptionNow ==
    ASSUME TypeOK, phase = "arguments", optind \in DOMAIN argv
    PROVE  /\ arg \in Options
           /\ arg = argv[optind]
           /\ optind \in Nat \ {0}
<1>1. PICK n \in 0..MaxOptions : argv \in [1..n -> Options]
  BY DEF TypeOK
<1> QED
  BY <1>1, ArgvDomain DEF arg

(* An option has done what it tells. *)
LEMMA OptionDone ==
    ASSUME TypeOK, StartInv, phase = "arguments", phase' = "arguments",
           optind \in DOMAIN argv, ~ Ending(arg), UNCHANGED argv, optind' = optind + 1,
           elf' = NoElf,
           ImagesFit => ram' = Put(RamBefore(argv, optind), arg),
           ImagesFit => g_elf_entry' = IF arg.opt = "i" THEN Memory!EntryOf(g_elf_entry, arg.lines)
                                       ELSE g_elf_entry,
           g_cycle_limit' = IF arg.opt = "l" /\ arg.value # TooShort THEN arg.value
                            ELSE g_cycle_limit,
           g_verbosity' = IF arg.opt = "v" /\ arg.value # TooShort THEN arg.value
                          ELSE g_verbosity,
           IF arg.opt = "n" THEN elf_entry_set' /\ (arg.entry # TooShort => elf_entry' = arg.entry)
           ELSE UNCHANGED <<elf_entry_set, elf_entry>>
    PROVE  StartInv'
<1>0. ImagesFit' <=> ImagesFit
  BY FitKept
<1>1. arg = argv[optind] /\ optind \in Nat \ {0}
  BY OptionNow
<1>2. OptionsRead /\ NumbersRead /\ EntryRead
  BY DEF StartInv
<1>3. OptionsRead'
  <2>1. \A k \in 1..((optind + 1) - 1) : k \in 1..(optind - 1) \/ k = optind
    BY <1>1
  <2> QED
    BY <1>1, <1>2, <2>1 DEF OptionsRead
<1>4. NumbersRead'
  BY <1>0, <1>1, <1>2, ImageNext, ValueNext DEF NumbersRead
<1>5. EntryRead'
  <2>1. CASE arg.opt = "n"
    <3>1. Max(Entries(argv, optind + 1)) = optind /\ Entries(argv, optind + 1) # {}
      BY <1>1, <2>1, EntriesNext
    <3> QED
      BY <1>1, <2>1, <3>1 DEF EntryRead
  <2>2. CASE arg.opt # "n"
    <3>1. Entries(argv, optind + 1) = Entries(argv, optind)
      BY <1>1, <2>2, EntriesNext
    <3> QED
      BY <1>2, <2>2, <3>1 DEF EntryRead
  <2> QED
    BY <2>1, <2>2
<1>6. MemoryLoaded'
  BY <1>0, <1>1, RamNext DEF MemoryLoaded
<1> QED
  BY <1>3, <1>4, <1>5, <1>6 DEF StartInv

(* An option that sets something loads nothing. *)
LEMMA SetsLoadNothing ==
    ASSUME TypeOK, StartInv, phase = "arguments", elf = NoElf, optind \in DOMAIN argv,
           arg.opt \in {"n", "l", "v", "C"}
    PROVE  ImagesFit => ram = Put(RamBefore(argv, optind), arg)
<1>1. arg = argv[optind] /\ optind \in Nat \ {0}
  BY OptionNow
<1>2. Reach(arg) = {}
  BY DEF Reach
<1>3. ImagesFit => ram = RamBefore(argv, optind)
  BY DEF StartInv, MemoryLoaded
<1> QED
  BY <1>1, <1>2, <1>3, RamKept, RamNext

LEMMA StartSets ==
    ASSUME TypeOK, StartInv, Sets
    PROVE  StartInv'
<1>1. phase = "arguments" /\ elf = NoElf /\ optind \in DOMAIN argv /\ UNCHANGED <<argv, elf, ram>>
  BY DEF Sets, OptEntry, OptLimit, OptVerbosity, OptConfig, OptHelp, Option,
         started, locals
<1>2. CASE phase' = "exited"
  BY <1>2 DEF StartInv
<1>3. ASSUME OptEntry, phase' # "exited"
      PROVE  StartInv'
  <2>1. arg.opt = "n" /\ arg.entry # Unparsable
    BY <1>3 DEF OptEntry, Option, arg, fail, exit
  <2>2. ~ Ending(arg)
    BY <2>1 DEF Ending, Fails
  <2>3. ImagesFit => ram' = Put(RamBefore(argv, optind), arg)
    BY <1>1, <2>1, SetsLoadNothing
  <2>4. /\ elf_entry_set' /\ (arg.entry # TooShort => elf_entry' = arg.entry)
        /\ optind' = optind + 1 /\ phase' = "arguments"
        /\ UNCHANGED <<g_elf_entry, g_cycle_limit, g_verbosity>>
    BY <1>1, <1>3, <2>1 DEF OptEntry, next_option, started
  <2> QED
    BY <1>1, <2>1, <2>2, <2>3, <2>4, OptionDone
<1>4. ASSUME OptLimit, phase' # "exited"
      PROVE  StartInv'
  <2>1. arg.opt = "l" /\ arg.value # Unparsable
    BY <1>4 DEF OptLimit, Option, arg, fail, exit
  <2>2. ~ Ending(arg)
    BY <2>1 DEF Ending, Fails
  <2>3. ImagesFit => ram' = Put(RamBefore(argv, optind), arg)
    BY <1>1, <2>1, SetsLoadNothing
  <2>4. /\ g_cycle_limit' = IF arg.value # TooShort THEN arg.value ELSE g_cycle_limit
        /\ optind' = optind + 1 /\ phase' = "arguments"
        /\ UNCHANGED <<g_elf_entry, g_verbosity, elf_entry_set, elf_entry>>
    BY <1>1, <1>4, <2>1 DEF OptLimit, Scanned, next_option
  <2> QED
    BY <1>1, <2>1, <2>2, <2>3, <2>4, OptionDone
<1>5. ASSUME OptVerbosity, phase' # "exited"
      PROVE  StartInv'
  <2>1. arg.opt = "v" /\ arg.value # Unparsable
    BY <1>5 DEF OptVerbosity, Option, arg, fail, exit
  <2>2. ~ Ending(arg)
    BY <2>1 DEF Ending, Fails
  <2>3. ImagesFit => ram' = Put(RamBefore(argv, optind), arg)
    BY <1>1, <2>1, SetsLoadNothing
  <2>4. /\ g_verbosity' = IF arg.value # TooShort THEN arg.value ELSE g_verbosity
        /\ optind' = optind + 1 /\ phase' = "arguments"
        /\ UNCHANGED <<g_elf_entry, g_cycle_limit, elf_entry_set, elf_entry>>
    BY <1>1, <1>5, <2>1 DEF OptVerbosity, Scanned, next_option
  <2> QED
    BY <1>1, <2>1, <2>2, <2>3, <2>4, OptionDone
<1>6. ASSUME OptConfig, phase' # "exited"
      PROVE  StartInv'
  <2>1. arg.opt = "C" /\ arg.parsed
    BY <1>6 DEF OptConfig, Option, arg, fail, exit
  <2>2. ~ Ending(arg)
    BY <2>1 DEF Ending, Fails
  <2>3. ImagesFit => ram' = Put(RamBefore(argv, optind), arg)
    BY <1>1, <2>1, SetsLoadNothing
  <2>4. /\ optind' = optind + 1 /\ phase' = "arguments"
        /\ UNCHANGED <<g_elf_entry, g_cycle_limit, g_verbosity, elf_entry_set, elf_entry>>
    BY <1>1, <1>6, <2>1 DEF OptConfig, next_option, started
  <2> QED
    BY <1>1, <2>1, <2>2, <2>3, <2>4, OptionDone
<1>7. OptHelp => phase' = "exited"
  BY DEF OptHelp, exit
<1> QED
  BY <1>2, <1>3, <1>4, <1>5, <1>6, <1>7 DEF Sets

(* Files: a raw one, and an image. *)
LEMMA StartFiles ==
    ASSUME TypeOK, StartInv, OptBinary \/ OptImage
    PROVE  StartInv'
<1>1. /\ phase = "arguments" /\ elf = NoElf /\ optind \in DOMAIN argv
      /\ UNCHANGED <<argv, elf, g_cycle_limit, g_verbosity, elf_entry_set, elf_entry>>
  BY DEF OptBinary, OptImage, Option, started
<1>2. arg \in Options /\ arg = argv[optind] /\ (ImagesFit => ram = RamBefore(argv, optind))
  BY <1>1, OptionNow DEF StartInv, MemoryLoaded
<1>3. CASE phase' = "exited"
  BY <1>3 DEF StartInv
<1>4. ASSUME OptBinary, phase' # "exited"
      PROVE  StartInv'
  <2>1. arg.opt = "b" /\ arg.addr # Unparsable /\ arg.bytes # NoFile
    BY <1>4 DEF OptBinary, Option, arg, fail, exit
  <2>2. ~ Ending(arg)
    BY <2>1 DEF Ending, Fails
  <2>3. /\ ram' = Memory!OverlayRaw(ram, arg.addr, arg.bytes)
        /\ optind' = optind + 1 /\ phase' = "arguments" /\ UNCHANGED g_elf_entry
    BY <1>1, <1>4, <2>1 DEF OptBinary, next_option, started
  <2>4. arg.addr \in Address /\ arg.bytes \in Seq(Nat)
    BY <1>2, <2>1, FileAssumption
  <2>5. ImagesFit => ram' = Put(RamBefore(argv, optind), arg)
    BY <1>2, <2>1, <2>3, <2>4, BinaryPuts
  <2> QED
    BY <1>1, <2>1, <2>2, <2>3, <2>5, OptionDone
<1>5. ASSUME OptImage, phase' # "exited"
      PROVE  StartInv'
  <2>1. arg.opt = "i" /\ arg.lines # NoFile /\ BadLines(arg.lines) = {}
    BY <1>5 DEF OptImage, Option, arg, fail, exit
  <2>2. ~ Ending(arg)
    BY <2>1 DEF Ending, Fails, BadLines
  <2>3. /\ ram' = Memory!OverlayImage(ram, LinesRead(arg.lines))
        /\ g_elf_entry' = Memory!EntryOf(g_elf_entry, LinesRead(arg.lines))
        /\ optind' = optind + 1 /\ phase' = "arguments"
    BY <1>1, <1>5, <2>1 DEF OptImage, next_option
  <2>4. ImagesFit => LinesRead(arg.lines) = arg.lines
    <3> HAVE ImagesFit
    <3>1. optind \in Of(argv, "i")
      BY <1>1, <1>2, <2>1 DEF Of
    <3>2. \A n \in DOMAIN arg.lines : Memory!LineFits(arg.lines[n])
      BY <1>2, <2>1, <3>1 DEF ImagesFit
    <3> QED
      BY <1>2, <2>1, <3>2, LinesFit
  <2>5. ImagesFit => /\ ram' = Put(RamBefore(argv, optind), arg)
                     /\ g_elf_entry' = Memory!EntryOf(g_elf_entry, arg.lines)
    BY <1>2, <2>1, <2>3, <2>4, ImagePuts
  <2> QED
    BY <1>1, <2>1, <2>2, <2>3, <2>5, OptionDone
<1> QED
  BY <1>3, <1>4, <1>5

(* ELF files. *)
LEMMA StartElf ==
    ASSUME TypeOK, StartInv, OptElf
    PROVE  StartInv'
<1>1. /\ phase = "arguments" /\ elf = NoElf /\ optind \in DOMAIN argv /\ arg.opt = "e"
      /\ UNCHANGED <<argv, g_elf_entry, g_cycle_limit, g_verbosity, elf_entry_set, elf_entry, ram>>
  BY DEF OptElf, Option, arg, started
<1>2. arg \in Options /\ arg = argv[optind] /\ (ImagesFit => ram = RamBefore(argv, optind))
  BY <1>1, OptionNow DEF StartInv, MemoryLoaded
<1>3. OptionsRead /\ NumbersRead /\ EntryRead
  BY <1>1 DEF StartInv
<1>4. CASE phase' = "exited"
  BY <1>4 DEF StartInv
<1>5. CASE phase' # "exited"
  <2>0. PICK e : e = arg.elf
    OBVIOUS
  <2>1. /\ e # NoFile /\ checkELFHdr(Encode(e))
        /\ elf' = [file |-> Encode(e), i |-> 0]
        /\ phase' = "arguments" /\ UNCHANGED optind
    BY <1>1, <1>5, <2>0 DEF OptElf, fail, exit
  <2>2. IsElfFile(e)
    BY <1>1, <1>2, <2>0, <2>1, FileAssumption
  <2>3. HeaderTold(e)
    BY <2>1, <2>2, HeaderChecked
  <2>4. ImagesFit => PutSegments(ram, e, 0) = ram
    BY <1>2, <2>2, SegmentsNone DEF RamBefore
  <2>5. Within(e, 0)'
    BY <1>1, <1>2, <2>1, <2>2, <2>3, <2>4, LoadedSegments, FitKept DEF Within
  <2>6. MemoryLoaded'
    <3>1. argv[optind]'.elf = e
      BY <1>1, <1>2, <2>0, <2>1
    <3>2. elf'.i = 0
      BY <2>1
    <3>3. Len(e.segments) \in Nat
      BY <2>2 DEF IsElfFile
    <3>4. elf' # NoElf
      BY <1>1, <1>2, <2>0, <2>1, <3>3, FileAssumption
    <3>5. Within(argv[optind].elf, elf.i)'
      BY <2>5, <3>1, <3>2 DEF Within
    <3> QED
      BY <3>4, <3>5 DEF MemoryLoaded
  <2>7. (OptionsRead /\ NumbersRead /\ EntryRead)'
    BY <1>1, <1>3, <2>1, FitKept DEF OptionsRead, NumbersRead, EntryRead
  <2> QED
    BY <2>6, <2>7 DEF StartInv
<1> QED
  BY <1>4, <1>5

(* The ELF file that is being loaded. *)
LEMMA FileNow ==
    ASSUME TypeOK, StartInv, phase = "arguments", elf # NoElf
    PROVE  /\ optind \in DOMAIN argv /\ arg.opt = "e"
           /\ arg \in Options /\ arg = argv[optind]
           /\ arg.elf # NoFile /\ IsElfFile(arg.elf)
           /\ Within(arg.elf, elf.i)
           /\ elf.file = Encode(arg.elf)
           /\ ProgHdrs(elf.file) = Len(arg.elf.segments)
           /\ Len(arg.elf.segments) \in Nat
<1>1. optind \in DOMAIN argv /\ argv[optind].opt = "e"
  BY DEF TypeOK
<1>2. arg \in Options /\ arg = argv[optind]
  BY <1>1, OptionNow
<1>3. Within(arg.elf, elf.i)
  BY <1>2 DEF StartInv, MemoryLoaded
<1>4. arg.elf # NoFile /\ IsElfFile(arg.elf)
  BY <1>1, <1>2, <1>3, FileAssumption DEF Within
<1>5. elf.file = Encode(arg.elf)
  BY <1>3 DEF Within
<1>6. ProgHdrs(elf.file) = Len(arg.elf.segments)
  BY <1>4, <1>5, FileHeader, Zenon DEF ProgHdrs
<1> QED
  BY <1>1, <1>2, <1>3, <1>4, <1>5, <1>6, LoadedSegments

LEMMA StartProgHdr ==
    ASSUME TypeOK, StartInv, LoadProgHdr
    PROVE  StartInv'
<1>1. /\ phase = "arguments" /\ elf # NoElf
      /\ UNCHANGED <<argv, optind, g_elf_entry, g_cycle_limit, g_verbosity, elf_entry_set, elf_entry>>
  BY DEF LoadProgHdr, started
<1>2. CASE phase' = "exited"
  BY <1>2 DEF StartInv
<1>3. CASE phase' # "exited"
  <2>0. PICK e, i, old : e = arg.elf /\ i = elf.i /\ old = RamBefore(argv, optind)
    OBVIOUS
  <2> DEFINE off == e.phoff + i * e.phentsize
  <2>1. /\ arg = argv[optind] /\ arg.opt = "e" /\ arg \in Options
        /\ e # NoFile /\ IsElfFile(e) /\ Within(e, i)
        /\ elf.file = Encode(e) /\ ProgHdrs(elf.file) = Len(e.segments)
        /\ Len(e.segments) \in Nat
    BY <1>1, <2>0, FileNow
  <2>2. i \in Nat /\ i < Len(e.segments)
    BY <2>0, <2>1 DEF LoadProgHdr, Within
  <2>3. /\ ProgHdrFits(elf.file, ProgHdrOffset(elf.file, i))
        /\ ram' = loadProgHdr(ram, elf.file, ProgHdrOffset(elf.file, i))
        /\ elf' = [elf EXCEPT !.i = i + 1]
        /\ phase' = "arguments"
    BY <1>1, <1>3, <2>0 DEF LoadProgHdr, exit
  <2>4. /\ HeaderTold(e) /\ elf = [file |-> Encode(e), i |-> i]
        /\ \A j \in 1..i : SegmentInFile(e, j)
        /\ ImagesFit => ram = PutSegments(old, e, i)
    BY <2>0, <2>1 DEF Within
  <2>5. ProgHdrOffset(elf.file, i) = off
    BY <2>1, <2>2, HeaderOffset, Zenon
  <2>6. SegmentInFile(e, i + 1)
    BY <2>1, <2>2, <2>3, <2>4, <2>5, SegmentFits, Zenon
  <2>7. elf' = [file |-> Encode(e), i |-> i + 1] /\ elf' # NoElf
    <3>1. elf' = [file |-> Encode(e), i |-> i + 1]
      BY <2>3, <2>4
    <3>2. i + 1 \in 0..Len(e.segments)
      BY <2>1, <2>2
    <3>3. NoElf # [file |-> Encode(e), i |-> i + 1]
      BY <2>0, <2>1, <3>2, FileAssumption
    <3> QED
      BY <3>1, <3>3
  <2>8. ImagesFit => ram' = PutSegments(old, e, i + 1)
    <3>1. i + 1 \in Loaded(e) => e.segments[i + 1].offset + e.segments[i + 1].filesz <= e.size
      BY <2>6 DEF SegmentInFile
    <3>2. ram' = IF i + 1 \in Loaded(e) THEN PutSegment(ram, e, e.segments[i + 1]) ELSE ram
      <4> HIDE DEF off
      <4>1. loadProgHdr(ram, Encode(e), off)
              = IF i + 1 \in Loaded(e) THEN PutSegment(ram, e, e.segments[i + 1]) ELSE ram
        BY <2>1, <2>2, <3>1, SegmentLoads, Zenon DEF off
      <4> QED
        BY <2>1, <2>3, <2>5, <4>1, Zenon
    <3> QED
      BY <2>1, <2>2, <2>4, <3>2, SegmentsNext, Zenon
  <2>9. Within(e, i + 1)'
    <3>1. \A j \in 1..(i + 1) : SegmentInFile(e, j)
      <4>1. \A j \in 1..(i + 1) : j \in 1..i \/ j = i + 1
        BY <2>2
      <4> QED
        BY <2>4, <2>6, <4>1
    <3>2. i + 1 \in 0..Len(e.segments)
      BY <2>1, <2>2
    <3>3. ImagesFit' => ram' = PutSegments(RamBefore(argv, optind)', e, i + 1)
      BY <1>1, <2>0, <2>8, FitKept
    <3> QED
      BY <2>1, <2>4, <2>7, <3>1, <3>2, <3>3 DEF Within
  <2>10. MemoryLoaded'
    <3>1. argv[optind]'.elf = e /\ elf'.i = i + 1
      BY <1>1, <2>0, <2>1, <2>7
    <3> QED
      BY <2>7, <2>9, <3>1 DEF MemoryLoaded
  <2>11. (OptionsRead /\ NumbersRead /\ EntryRead)'
    <3>1. OptionsRead /\ NumbersRead /\ EntryRead
      BY <1>1 DEF StartInv
    <3> QED
      BY <1>1, <2>3, <3>1, FitKept DEF OptionsRead, NumbersRead, EntryRead
  <2> QED
    BY <2>10, <2>11 DEF StartInv
<1> QED
  BY <1>2, <1>3

LEMMA StartElfEnd ==
    ASSUME TypeOK, StartInv, LoadElfEnd
    PROVE  StartInv'
<1> DEFINE e == arg.elf
<1>1. /\ phase = "arguments" /\ phase' = "arguments" /\ elf # NoElf /\ elf' = NoElf
      /\ elf.i = ProgHdrs(elf.file) /\ optind' = optind + 1
      /\ UNCHANGED <<argv, g_elf_entry, g_cycle_limit, g_verbosity, elf_entry_set, elf_entry, ram>>
  BY DEF LoadElfEnd, next_option, started
<1>2. /\ optind \in DOMAIN argv /\ arg = argv[optind] /\ arg.opt = "e"
      /\ e # NoFile /\ IsElfFile(e) /\ Within(e, elf.i)
      /\ elf.i = Len(e.segments)
  BY <1>1, FileNow
<1>3. /\ HeaderTold(e)
      /\ \A j \in 1..Len(e.segments) : SegmentInFile(e, j)
      /\ ImagesFit => ram = PutSegments(RamBefore(argv, optind), e, Len(e.segments))
  BY <1>2 DEF Within
<1>4. Executable(e)
  <2>1. DOMAIN e.segments = 1..Len(e.segments)
    BY <1>2 DEF IsElfFile
  <2> HIDE DEF e
  <2> QED
    BY <1>2, <1>3, <2>1, ExecutableParts
<1>5. ~ Ending(arg)
  BY <1>2, <1>4 DEF Ending, Fails
<1>6. ImagesFit => ram' = Put(RamBefore(argv, optind), arg)
  BY <1>1, <1>2, <1>3, SegmentsPut
<1> QED
  BY <1>1, <1>2, <1>5, <1>6, OptionDone

LEMMA StartNext ==
    ASSUME TypeOK, StartInv, [Next]_vars
    PROVE  StartInv'
<1>1. CASE lookup_sym
  BY <1>1, FitKept
     DEF lookup_sym, StartInv, OptionsRead, NumbersRead, EntryRead, MemoryLoaded, Within,
         started, locals
<1>2. CASE model_init
  BY <1>2, FitKept
     DEF model_init, StartInv, OptionsRead, NumbersRead, EntryRead, MemoryLoaded, Within,
         started, locals
<1>3. CASE Loads
  BY <1>3, StartFiles, StartElf, StartProgHdr, StartElfEnd DEF Loads
<1>4. CASE Sets
  BY <1>4, StartSets
<1>5. CASE EndOfOptions
  BY <1>5 DEF EndOfOptions, StartInv
<1>6. CASE Works
  <2>1. phase' \in {"model", "exited"}
    BY <1>6
       DEF Works, Call, Return, Throw, Unwind, Catch, enable_tracing, disable_tracing,
           sleep_request, wakeup_request, cycle_limit_reached, cycle_count, Builtin,
           Exit, model_fini, Running, Idle, exit
  <2> QED
    BY <2>1 DEF StartInv
<1>7. CASE UNCHANGED vars
  BY <1>7, FitKept
     DEF vars, StartInv, OptionsRead, NumbersRead, EntryRead, MemoryLoaded, Within,
         started, locals
<1> QED
  BY <1>1, <1>2, <1>3, <1>4, <1>5, <1>6, <1>7, NextCases

-----------------------------------------------------------------------------
(* The ways out of process_arguments. *)
LEMMA EndStarts ==
    ASSUME TypeOK, StartInv, EndOfOptions
    PROVE  Started
<1>1. /\ phase = "arguments" /\ elf = NoElf /\ optind \notin DOMAIN argv
      /\ g_elf_entry' = IF elf_entry_set THEN elf_entry ELSE g_elf_entry
      /\ UNCHANGED <<argv, g_cycle_limit, g_verbosity, ram>>
  BY DEF EndOfOptions
<1>2. OptionsRead /\ NumbersRead /\ EntryRead /\ (ImagesFit => ram = RamBefore(argv, optind))
  BY <1>1 DEF StartInv, MemoryLoaded
<1>3. DOMAIN argv = 1..(optind - 1) /\ optind \in Nat
  <2>1. PICK n \in Nat : DOMAIN argv = 1..n
    BY ArgvDomain
  <2>2. optind \in Nat \ {0} /\ \A k \in 1..(optind - 1) : k \in 1..n
    BY <1>2, <2>1, ArgvDomain DEF OptionsRead
  <2>3. optind = n + 1
    <3>1. optind > n
      BY <1>1, <2>1, <2>2
    <3>2. optind - 1 <= n
      BY <2>2
    <3> QED
      BY <2>2, <3>1, <3>2
  <2> QED
    BY <2>1, <2>2, <2>3
<1>4. Ends(argv) = {}
  BY <1>2, <1>3 DEF OptionsRead, Ends, Ending
<1>5. ImagesFit => ram' = RamTold(argv)
  BY <1>1, <1>2, <1>3, RamAll
<1>6. g_cycle_limit' = ValueTold(argv, "l") /\ g_verbosity' = ValueTold(argv, "v")
  BY <1>1, <1>2, <1>3, ValueAll DEF NumbersRead
<1>7. ImagesFit => IsEntryTold(argv, g_elf_entry')
  <2> HAVE ImagesFit
  <2>1. Entries(argv, optind) = Of(argv, "n")
    BY <1>3 DEF Entries, Of
  <2>2. CASE Of(argv, "n") # {}
    BY <1>1, <1>2, <2>1, <2>2 DEF EntryRead, IsEntryTold, LastOf
  <2>3. CASE Of(argv, "n") = {}
    <3>1. g_elf_entry' = ImageBefore(argv, optind)
      BY <1>1, <1>2, <2>1, <2>3 DEF EntryRead, NumbersRead
    <3> QED
      BY <1>3, <2>3, <3>1, ImageAll DEF IsEntryTold
  <2> QED
    BY <2>2, <2>3
<1> QED
  BY <1>4, <1>5, <1>6, <1>7 DEF Started

(* The first option that ends the program is the one that does so.         *)
LEMMA EndingRefuses ==
    ASSUME TypeOK, StartInv, phase = "arguments", optind \in DOMAIN argv, Ending(arg),
           status' = IF arg.opt = "h" THEN 0 ELSE 1
    PROVE  Refused
<1>1. arg = argv[optind] /\ optind \in Nat
  BY OptionNow
<1>2. OptionsRead
  BY DEF StartInv
<1>3. PICK n \in Nat : DOMAIN argv = 1..n
  BY ArgvDomain
<1>4. optind \in Ends(argv) /\ Ends(argv) \subseteq Nat
  BY <1>1, <1>3 DEF Ends, Ending
<1>5. \A k \in Ends(argv) : optind <= k
  <2> SUFFICES ASSUME NEW k \in Ends(argv), k < optind
               PROVE  FALSE
    BY <1>1, <1>4
  <2>1. k \in 1..(optind - 1)
    BY <1>1, <1>3 DEF Ends
  <2> QED
    BY <1>2, <2>1 DEF OptionsRead, Ends, Ending
<1>6. Min(Ends(argv)) = optind
  BY <1>4, <1>5, MinIs
<1> QED
  BY <1>1, <1>4, <1>6 DEF Refused, StatusTold

LEMMA LoadsRefuse ==
    ASSUME TypeOK, StartInv, Loads, phase' = "exited"
    PROVE  Refused
<1>1. CASE OptBinary
  <2>1. /\ phase = "arguments" /\ optind \in DOMAIN argv /\ arg.opt = "b"
        /\ arg.addr = Unparsable \/ arg.bytes = NoFile
        /\ status' = 1
    BY <1>1 DEF OptBinary, Option, arg, next_option, fail, exit
  <2>2. Ending(arg)
    BY <2>1 DEF Ending, Fails
  <2> QED
    BY <2>1, <2>2, EndingRefuses
<1>2. CASE OptImage
  <2>1. /\ phase = "arguments" /\ optind \in DOMAIN argv /\ arg.opt = "i"
        /\ arg.lines = NoFile \/ BadLines(arg.lines) # {}
        /\ status' = 1
    BY <1>2 DEF OptImage, Option, arg, next_option, fail, exit
  <2>2. Ending(arg)
    BY <2>1 DEF Ending, Fails, BadLines
  <2> QED
    BY <2>1, <2>2, EndingRefuses
<1>3. CASE OptElf
  <2>1. /\ phase = "arguments" /\ optind \in DOMAIN argv /\ arg.opt = "e" /\ status' = 1
        /\ arg.elf # NoFile => ~ checkELFHdr(Encode(arg.elf))
    BY <1>3 DEF OptElf, Option, arg, fail, exit
  <2>2. arg.elf # NoFile => IsElfFile(arg.elf)
    BY <2>1, OptionNow, FileAssumption
  <2>3. arg.elf # NoFile => ~ Executable(arg.elf)
    BY <2>1, <2>2, HeaderChecked, ExecutableParts
  <2>4. Ending(arg)
    BY <2>1, <2>3 DEF Ending, Fails
  <2> QED
    BY <2>1, <2>4, EndingRefuses
<1>4. CASE LoadProgHdr
  <2> DEFINE e == arg.elf
             i == elf.i
  <2>1. phase = "arguments" /\ elf # NoElf /\ status' = 1
        /\ ~ ProgHdrFits(elf.file, ProgHdrOffset(elf.file, i)) /\ i < ProgHdrs(elf.file)
    BY <1>4 DEF LoadProgHdr, exit
  <2>2. /\ optind \in DOMAIN argv /\ arg.opt = "e"
        /\ e # NoFile /\ IsElfFile(e) /\ Within(e, i) /\ elf.file = Encode(e)
        /\ ProgHdrs(elf.file) = Len(e.segments) /\ Len(e.segments) \in Nat
    BY <2>1, FileNow
  <2>3. HeaderTold(e) /\ i \in Nat /\ i < Len(e.segments)
    BY <2>1, <2>2 DEF Within
  <2> HIDE DEF e, i
  <2>4. ProgHdrOffset(elf.file, i) = e.phoff + i * e.phentsize
    BY <2>2, <2>3, HeaderOffset, Zenon
  <2>5. ~ SegmentInFile(e, i + 1)
    BY <2>1, <2>2, <2>3, <2>4, SegmentFits, Zenon
  <2>6. i + 1 \in DOMAIN e.segments
    BY <2>2, <2>3 DEF IsElfFile
  <2>7. ~ Executable(e)
    BY <2>2, <2>5, <2>6, ExecutableParts
  <2>8. Ending(arg)
    BY <2>2, <2>7 DEF Ending, Fails, e
  <2> QED
    BY <2>1, <2>2, <2>8, EndingRefuses
<1>5. ~ LoadElfEnd
  BY DEF LoadElfEnd, next_option
<1> QED
  BY <1>1, <1>2, <1>3, <1>4, <1>5 DEF Loads

LEMMA SetsRefuse ==
    ASSUME TypeOK, StartInv, Sets, phase' = "exited"
    PROVE  Refused
<1>1. phase = "arguments" /\ optind \in DOMAIN argv
  BY DEF Sets, OptEntry, OptLimit, OptVerbosity, OptConfig, OptHelp, Option
<1>2. Ending(arg) /\ status' = IF arg.opt = "h" THEN 0 ELSE 1
  <2>1. CASE OptEntry
    <3>1. arg.opt = "n" /\ arg.entry = Unparsable /\ status' = 1
      BY <2>1 DEF OptEntry, Option, arg, next_option, fail, exit
    <3> QED
      BY <3>1 DEF Ending, Fails
  <2>2. CASE OptLimit
    <3>1. arg.opt = "l" /\ arg.value = Unparsable /\ status' = 1
      BY <2>2 DEF OptLimit, Option, arg, next_option, fail, exit
    <3> QED
      BY <3>1 DEF Ending, Fails
  <2>3. CASE OptVerbosity
    <3>1. arg.opt = "v" /\ arg.value = Unparsable /\ status' = 1
      BY <2>3 DEF OptVerbosity, Option, arg, next_option, fail, exit
    <3> QED
      BY <3>1 DEF Ending, Fails
  <2>4. CASE OptConfig
    <3>1. arg.opt = "C" /\ ~ arg.parsed /\ status' = 1
      BY <2>4 DEF OptConfig, Option, arg, next_option, fail, exit
    <3> QED
      BY <3>1 DEF Ending, Fails
  <2>5. CASE OptHelp
    <3>1. arg.opt = "h" /\ status' = 0
      BY <2>5 DEF OptHelp, Option, arg, exit
    <3> QED
      BY <3>1 DEF Ending
  <2> QED
    BY <2>1, <2>2, <2>3, <2>4, <2>5 DEF Sets
<1> QED
  BY <1>1, <1>2, EndingRefuses

LEMMA StartStep ==
    ASSUME TypeOK, StartInv, [Next]_vars
    PROVE  /\ phase # "model" /\ phase' = "model" => Started
           /\ phase = "arguments" /\ phase' = "exited" => Refused
<1>1. CASE lookup_sym \/ model_init \/ UNCHANGED vars
  <2>1. phase' = phase \/ phase' = "arguments"
    BY <1>1 DEF lookup_sym, model_init, vars
  <2> QED
    BY <2>1
<1>2. CASE Loads
  <2>1. phase' # "model"
    BY <1>2
       DEF Loads, OptBinary, OptImage, OptElf, LoadProgHdr, LoadElfEnd, Option,
           next_option, fail, exit
  <2> QED
    BY <1>2, <2>1, LoadsRefuse
<1>3. CASE Sets
  <2>1. phase' # "model"
    BY <1>3
       DEF Sets, OptEntry, OptLimit, OptVerbosity, OptConfig, OptHelp, Option,
           next_option, fail, exit
  <2> QED
    BY <1>3, <2>1, SetsRefuse
<1>4. CASE EndOfOptions
  <2>1. phase' = "model"
    BY <1>4 DEF EndOfOptions
  <2> QED
    BY <1>4, <2>1, EndStarts
<1>5. CASE Works
  <2>1. phase = "model"
    BY <1>5
       DEF Works, Call, Return, Throw, Unwind, Catch, enable_tracing, disable_tracing,
           sleep_request, wakeup_request, cycle_limit_reached, cycle_count, Builtin,
           Exit, model_fini, Running
  <2> QED
    BY <2>1
<1> QED
  BY <1>1, <1>2, <1>3, <1>4, <1>5, NextCases

(* process_arguments, which applies one option after the other and loads   *)
(* ELF files header by header, starts the model with the memory, entry     *)
(* point, limit and verbosity that the command line tells as a whole (the  *)
(* first two if atoll and sscanf can read the numbers of its images), or   *)
(* ends the program as its first bad option tells.                         *)
THEOREM StartIsTold == Spec => StartsAsTold
<1>1. [](TypeOK /\ StartInv) /\ [][Next]_vars => StartsAsTold
  <2>1. TypeOK /\ StartInv /\ [Next]_vars
          => [/\ phase # "model" /\ phase' = "model" => Started
              /\ phase = "arguments" /\ phase' = "exited" => Refused]_vars
    BY StartStep
  <2> QED
    BY <2>1, PTL DEF StartsAsTold
<1> QED
  BY <1>1, StartInit, StartNext, TypeCorrect, PTL DEF Spec
-----------------------------------------------------------------------------
(* Symbols.  What was looked up last was looked up in a file of the        *)
(* command line.                                                           *)
LookupInv ==
    lookup # NoLookup =>
        /\ IsElfFile(lookup.elf)
        /\ lookup.found \in lookupSymbol(Encode(lookup.elf), lookup.symname)

LEMMA LookupNext ==
    ASSUME TypeOK, LookupInv, [Next]_vars
    PROVE  LookupInv'
<1>1. CASE lookup_sym
  <2>1. PICK k \in Of(argv, "e"), symname \in Names :
          /\ argv[k].elf # NoFile
          /\ \E found \in lookupSymbol(Encode(argv[k].elf), symname) :
               lookup' = [elf |-> argv[k].elf, symname |-> symname, found |-> found]
    BY <1>1 DEF lookup_sym
  <2>2. argv[k] \in Options /\ argv[k].opt = "e"
    <3>1. PICK n \in 0..MaxOptions : argv \in [1..n -> Options]
      BY DEF TypeOK
    <3> QED
      BY <3>1 DEF Of
  <2>3. IsElfFile(argv[k].elf)
    BY <2>1, <2>2, FileAssumption
  <2>4. PICK found \in lookupSymbol(Encode(argv[k].elf), symname) :
          lookup' = [elf |-> argv[k].elf, symname |-> symname, found |-> found]
    BY <2>1
  <2>5. lookup'.elf = argv[k].elf /\ lookup'.symname = symname /\ lookup'.found = found
    BY <2>4
  <2> QED
    BY <2>3, <2>4, <2>5 DEF LookupInv
<1>2. CASE model_init
  BY <1>2 DEF model_init, LookupInv
<1>3. CASE Loads \/ Sets \/ EndOfOptions \/ Works \/ UNCHANGED vars
  <2>1. UNCHANGED lookup
    BY <1>3
       DEF Loads, OptBinary, OptImage, OptElf, LoadProgHdr, LoadElfEnd,
           Sets, OptEntry, OptLimit, OptVerbosity, OptConfig, OptHelp, EndOfOptions,
           Works, Call, Return, Throw, Unwind, Catch, enable_tracing, disable_tracing,
           sleep_request, wakeup_request, cycle_limit_reached, cycle_count, Builtin,
           Exit, model_fini, Idle, vars
  <2> QED
    BY <2>1 DEF LookupInv
<1> QED
  BY <1>1, <1>2, <1>3, NextCases

LEMMA LookupFinds == ASSUME LookupInv PROVE LookupFindsFirst
<1> SUFFICES ASSUME lookup # NoLookup, lookup.elf.le, Simple(lookup.elf)
             PROVE  lookup.found = SymbolTold(lookup.elf, lookup.symname)
  BY DEF LookupFindsFirst
<1>1. IsElfFile(lookup.elf)
      /\ lookup.found \in lookupSymbol(Encode(lookup.elf), lookup.symname)
  BY DEF LookupInv
<1>2. lookup.elf.le = TRUE
  BY <1>1 DEF IsElfFile
<1>3. lookupSymbol(Encode(lookup.elf), lookup.symname) = {SymbolTold(lookup.elf, lookup.symname)}
  BY <1>1, <1>2, SimpleLookup
<1> QED
  BY <1>1, <1>3

(* lookup_sym gives, in any simple file of the command line of the order   *)
(* of the host, the value of the first symbol of the name, or says that    *)
(* there is none, whatever the order and number of the other sections.     *)
THEOREM LookupIsFirst == Spec => []LookupFindsFirst
<1>1. Init => LookupInv
  BY DEF Init, LookupInv
<1> QED
  BY <1>1, LookupNext, LookupFinds, TypeCorrect, PTL DEF Spec
=============================================================================
