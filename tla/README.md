# A verification project for Sail

Sail is a language for instruction set architectures.  The tool type checks a
specification and turns it into an interpreter, C, OCaml, Lem, Coq and LaTeX.
This directory holds TLA+ models of parts of the tool and of the code it
generates, what TLC checks of them on small instances, and what TLAPS proves of
them for all.

## The system

| part | code | state | operations | what makes it correct |
|---|---|---|---|---|
| C back end | `src/c_backend.ml`, `src/bytecode_util.ml`, `src/anf.ml` | the compilation context; counters for fresh names and labels | `compile_aexp`, `compile_match`, `compile_funcall`, `compile_def`; the passes `fix_early_return`, `fix_exception` and the optimisations; `codegen_instr` | the C function does what the Sail function does; every heap variable is created once, killed once and used in between, wherever control goes |
| generated C | printed by `c_backend.ml` | local variables, `have_exception`, `current_exception`, registers | the statements of the functions | as above |
| interpreter | `src/interpreter.ml` | locals, registers, letbinds, a stack of frames | `step`, `eval_frame'` and its requests (call, early return, exception, get, put) | it is the meaning of Sail the other back ends are tested against |
| C runtime: memory | `lib/rts.c` | the lists of memory and tag blocks | `write_ram`, `read_ram`, tags, `load_raw`, `load_image`, `kill_mem` | memory is an array of bytes; a word access is one operation; files are loaded where they say |
| C runtime: control | `lib/rts.c`, `model_main` of `c_backend.ml` | the entry point, the cycle counter and its limit, the depth of the trace, the flags for sleeping and verbosity, `optind` and the locals of `process_arguments` | set up, the options, calls with their tracing, `cycle_count`, `cycle_limit_reached`, `sleep_request`, the exits | the model starts as the command line says; a limit is kept, and ends a model that counts; a trace is nested |
| ELF loader | `lib/elf.c` | the file and the next program header | `load_elf`, `lookup_sym` | every segment is in memory, or the program ends; a symbol has the value the file gives it |
| C library | `lib/sail.c`, `lib/sail.h` | the variables of the caller, behind pointers; temporaries | functions on bitvectors (`lbits`, `sbits`, `fbits`), integers, strings and reals | a call gives what the OCaml library gives, changes one variable, and leaves bitvectors in normal form |
| OCaml library | `src/sail_lib.ml`, `src/value.ml` | none, for these functions | the same builtins, for the interpreter and the OCaml back end | it is the meaning of the builtins |
| constraint solver interface | `src/constraint.ml` | `known_problems`, a map from digests of problems to answers, kept in the file `z3_problems` between runs | `call_z3`, `solve_z3`, `load_digests`, `save_digests` | an answer that is remembered is one the solver would give |
| interactive shell | `src/isail.ml`, `src/process_file.ml`, `src/initial_check.ml` | the AST, environment and interpreter state; the mode; the symbols and operators defined so far | `:load`, `:unload`, `:spec`, evaluation step by step | `:unload` forgets; a failed command changes nothing; an evaluation sees one environment |
| Lem library | `src/gen_lib/*.lem` | the prompt monad and the state monad | `read_reg`, `write_mem_ea`, `write_memv`, `try_catch`, `early_return`, ... | running a prompt program as a state program keeps its outcomes |
| optimiser of the IR | `c_backend.ml`, sections 5 and 6 | counters for hoisted and flattened names | `hoist_allocations`, `flatten_instrs`, `remove_alias`, `unique_names`, `combine_variables`, `hoist_alias` | each pass keeps what the code does |
| type checker, rewrites, monomorphisation, parser, printers | `type_check.ml`, `rewrites.ml`, ... | functional environments | functions from trees to trees | typing and semantics preservation over the full syntax |

How the parts interact: the parser, type checker and rewrites hand a typed
syntax tree to one back end; the type checker asks the constraint solver
interface, whose answers are kept in a file between runs.  The C back end
converts a function to A-normal form, compiles that to an IR, rewrites the IR
and prints C, which calls the runtime.  The interpreter takes the tree directly.
All of it is sequential.  What is hard is not concurrency: it is control that
leaves from the middle of nested constructs (early returns, exceptions, failed
guards) in a target language that has neither exceptions nor destructors; state
that outlives the operation it was meant for (the exception flag, the digest
file, the symbols of the shell); and machine arithmetic at its limits.
`PROJECT.json` lists these as hazards, at the line where they bite.

## The modules

| module | models | role |
|---|---|---|
| `Answers` | | what functions answer, in Sail and in C |
| `SailAnf` | `anf.ml`, `interpreter.ml` | the ANF expressions and their meaning |
| `Bytecode` | `bytecode.ott`, `bytecode_util.ml` | the instructions between ANF and C |
| `CompileIR` | `c_backend.ml`, section 4 | the compiler: ANF to IR, the passes over the IR, IR to C statements |
| `OptimizeIR` | `c_backend.ml`, section 5 | the passes over the IR that `-O` turns on |
| `GeneratedC` | `codegen_instr` and the generated C | the C function as a state machine, one action per kind of statement |
| `CBackend` | `compile_def` | that machine on what the compiler generates, beside the meaning of the Sail function |
| `CodeFlow` | | a check of the C statements of a function over all its paths, without running them |
| `MCCBackend` | | the programs TLC compiles and runs |
| `MCCBackendFlow` | | the same, with the points that their code reaches |
| `CodeFlowProofs` | | the theorems about code that passes the check |
| `RtsMemory` | `rts.c`, memory builtins | the lists of blocks and the byte loops, one action per iteration |
| `FlatMemory` | | abstract: an array of bytes and an array of tags |
| `Bytes`, `Words` | masks and shifts of `elf.c` and `rts.c` | numbers as bytes; what words and files write to memory that wraps around |
| `WordMemory` | | abstract: calls that take effect at once on little endian words |
| `RtsAtomic` | | the refinement of `RtsMemory` to `WordMemory` |
| `MCRtsMemory` | | a memory of four addresses |
| `BytesProofs` | | induction and recursive functions on naturals; a word is its bytes |
| `RtsMemoryProofs` | | the theorems about the lists of blocks, and about calls that take effect at once |
| `Constraint` | `constraint.ml`, `load_files` of `sail.ml` | the answers of Z3, in memory and in the file, with several processes |
| `MCConstraint` | | the problems of an instance |
| `ConstraintProofs` | | the theorems about `Constraint` |
| `Gmp` | GMP, external | the functions of it that `sail.c` calls, on integers and rationals |
| `SailLib` | `sail_lib.ml` | the OCaml library, on lists of bits |
| `SailBits`, `SailNumbers` | `sail.c`; expressions of `c_backend.ml` | the C library on bitvectors; on integers, strings and reals |
| `Library` | `sail.c` and its callers | a call on the variables of a program, one action per iteration of a loop |
| `SailValues` | | abstract: a call returns what `SailLib` computes, at once |
| `MCLibrary` | | the operands, and which of them may be destinations |
| `GmpProofs` | | powers of two, the bits of numbers, fractions in lowest terms |
| `LibraryProofs` | | the theorems about bitvectors in normal form and about `real_power` |
| `ElfLoader` | `elf.c` | what loading a file does, header by header, and what `lookup_sym` finds |
| `CommandLine` | `doc/usage.tex` | abstract: what a whole command line tells, from what files mean |
| `RtsControl` | `rts.c`, `model_main` | the program from its start to its exit |
| `MCRtsControl` | | options, ELF files and a machine of bytes with three values |
| `ElfProofs` | | what `ElfLoader` does with a file that `CommandLine` describes |
| `RtsControlProofs` | | the theorems about `RtsControl`: option by option, whole command lines, symbols |

### The C back end

`SailAnf` has a constructor for each ANF expression of `anf.ml` that changes
control or memory, and an evaluator, `Eval`, which follows the rules of `step`
in `interpreter.ml`: the order in which subexpressions are evaluated, which
ones are skipped, what a `throw`, a `return` and a failed match do.  Values are
0 and 1.  A call of another function is an event; what it answers (a value, or
an exception if the function has the `escape` effect) comes from a list.

`CompileIR` is the compiler, function by function and under the same names:
each case of `compile_aexp` returns, as in the code, the setup before the value
is there, the instruction that stores it and the cleanup after it.  The passes
`fix_early_return`, `fix_early_stack_return` (both are `rewrite_return`, which
differ only in `HeapReturn` and `StackReturn`), `map_try_block` and
`fix_exception_block` then insert the cleanup for control that leaves early.
The difference between types that matters is whether they live on the heap:
`int` stands for the heap types, `int64`, `bool` and `unit` for the stack types.
Conversions between `int` and `int64` are the variables they introduce.  Fresh
names carry the path of the expression they are made for, in place of a counter.
Functions have an argument of type `int` and one of type `unit`.

`OptimizeIR` is `optimize`.  With `"alias"`, `unique_names` renames the
declarations of a name that was seen before, `remove_alias` removes a variable
that is a copy of another and is copied back, and `combine_variables` replaces a
variable by the one it is copied to.  With `"hoist"`, `hoist_allocations` makes
the heap variables of a function those of the whole model: a startup function
creates them, and a declaration only gives them their initial value again
(`Recreate`).  `-O` turns both on; a recursive function is not hoisted.  So each
program is run with no pass, with `"alias"`, and with both.  A hoisted variable
is live when the function is called and holds what an earlier call left there,
any value.  `instr_ids`, as in the code, does not look into blocks and branches.

`GeneratedC` runs C statements, of any origin, and `CBackend` gives it those the
compiler makes.  The state is the position in the C statements, the
heap variables that are between their `CREATE` and their `KILL` (`live`), the
values of the initialised variables, the two globals of the exception mechanism,
the value returned and the calls made.  `Call` chooses what the callee answers.
A callee that throws leaves `have_exception` set, and a dummy value if its type
is a stack type.

Properties of the run `c_backend`:

- `UsesLiveVariables`: nothing is used before its `CREATE` or after its `KILL`;
  this includes killing twice.
- `CreatesDeadVariables`: nothing is created while it is live, for instance by
  the second iteration of a loop.
- `NoLeak`: when the function comes back to its caller, all it created is
  killed, and the hoisted variables, and no others, are there for the next call.  A match failure exits the process and is not a return.
- `SailOutcome`: the calls made, their arguments, and the value or exception at
  the end are those of `Eval` on the same expression with the same answers.
  A run that reaches the bound on calls is compared up to there.
- `CompiledCodeIsChecked`: the code passes the check of `CodeFlow`, below.
- `Terminates`: the gotos make no loop without a call.

`CodeFlow` looks at code without running it.  A point is a statement, the heap
variables that are live there, which variables have a value and whether it is a
number or an exception, and the exception flag; `After` says which points a
statement leads to when values and answers may be anything.  Code is checked if
the points that can be reached from its start are all as they should be: no
statement uses what is dead or has no value, or creates what is live, and only
what is hoisted is live at the end.  This is more than the runs of TLC show: it
takes every branch, with no bound on calls, where two tests in a row may agree in
every run.  `MCCBackendFlow` computes the points of each program.  The check is
sharp enough: all programs of the run pass it, and so do those of three constructs
without optimisation (under three minutes), while the programs of `return_in_try`,
`heap_try` and `alias` do not.

The programs are all nestings of two constructs out of seventeen around the
leaves, at every type, in functions that return `int` or `unit`, with each
choice of passes and at most four calls in a run: 420,000 states.  Three of the
constructs are there for the optimiser, whose patterns are made of copies
between variables of one type: `update` and `store` have a mutable variable that
the expression inside may assign to, or copy, change and copy back (`Rebind`),
and `keep` has one that is the value of a block.  Two constructs are what the
passes of section 4 need to go wrong: each looks at one enclosing construct at a
time.  With three constructs and no optimisation (1.5 million states, two and a
half minutes) the properties hold too; with the optimiser they hold on the two
selections of constructs that were tried at that depth (885,000 and 713,000
states).  Four calls let a loop run twice and then leave by each of its exits.
A loop's bound on its calls is the only reason a run does not end, so the
fairness is that of the machine: `WF_vars(Next)`, the C program goes on
executing.

Left out of these programs are combinations for which the code is wrong.  Five
have a run of their own that shows it:

- `handler`: a call that may throw, or another `try`, inside a handler.
  `have_exception` is reset only after the handler, so a call in the handler
  that returns normally is taken for one that threw.  The interpreter goes on.
  (The same happens with a `return` in a handler, which leaves the flag set for
  the caller.)
- `return_in_try`: the early return passes do not enter `try` blocks.  The
  function leaks what it had created.
- `heap_try`: the variable that holds the value of a `try` of a heap type is
  never killed.
- `combine`: in `x = { let y = f(a); g(x); y }`, `combine_variables` makes `y`
  the variable `x`, since it does not look for the use of `x` in nested blocks.
- `alias`: when `remove_alias` has found an alias, it removes the clears of all
  variables that are declared after it, not only those of the alias.  In a
  recursive function they leak; in others, hoisting has made them global.

The sixth is like `combine`: in `match a { y if g(y) => m = y, _ => h(m) }` the
pattern variable `y` is made the variable `m`, which then has changed when the
guard is false.  With `guarded_store` in `Constructs`, `SailOutcome` is violated
that way.

Also left out: `hoist_alias` (behind `-Oexperimental`), `flatten_instrs` (for the
bytecode interpreter), `specialize_variants`, calls as activations of the model's
own functions; several effectful bounds in one `foreach` (C evaluates from, to,
step; the interpreter step, to, from), nested patterns, a guard after a pattern
that binds in a handler, records, tuples, lists and vectors.

### The memory of the C runtime

`RtsMemory` has the two linked lists as sequences, their head first.
`write_block` is the search and the allocation of `write_mem` and
`write_tag_bool`, which are the same code at two types.  A call of `write_ram`,
`read_ram`, `fast_read_ram`, `load_raw` or `load_image` is an action that sets
up the loop, an action per iteration, and an action for the return; `call` holds
the arguments and variables of the loop.  Addresses wrap around at
`AddressSpace` (2^64 in the code); `MASK + 1` is `BlockSize`, and masking is
subtraction of a remainder and remainder.  The numbers in an image file are
unbounded, as the ELF loader prints them, and are parsed with `atoll` and
`sscanf`, which saturate in glibc.  A file that cannot be opened exits the
process before the memory changes, and is left out, as is the last line of an
image with an odd number of lines, which the code ignores.  An `elf_entry` that is
no number ends the process in the middle of the image (`rts.c:317`); that is left
out here and is part of `OptImage` of `RtsControl`.

Properties of the run `rts_memory`:

- `UniqueBlocks`: no two blocks are for the same addresses.
- `ListIsFlat`: the lists implement `FlatMemory`: a step changes one address,
  what was never written is zero, and `kill_mem` makes everything zero.
- `CallsAreAtomic`: the loops implement `WordMemory`.  A write takes effect when
  it is called: the refinement mapping, `Pending`, is the memory as it will be
  when the loop has finished; a read takes effect when it returns, with the word
  at the address it was called for, and nothing else changes between the call and
  the return.  This is
  where the order of the bytes, the boundary of blocks, the wrap around and the
  width of the accumulator matter.

The instance has four addresses in blocks of two, bytes of one bit, words of one
and three bytes, so that words cross a block and the end of the address space;
machine words of two bits, so that a fast read of three bytes loses one; a raw
file with a value that is not a byte; images in which a line sets the entry
point, and lines for two blocks.  723,000 states.

The run `image_address` shows that an address above an int64 does not survive
`atoll`; the ELF loader writes such addresses, and the manual promises that the
contents are the same.

### The C library

`SailBits` and `SailNumbers` have 108 functions of `sail.c` under their own
names, and the expressions that `analyze_primop'` of the compiler writes instead
of some of them (`inline_...`).  The state of a call is what makes the C code
differ from its OCaml counterpart.  An `lbits` is passed as a structure that is
copied, with its length, but its bits are behind a pointer.  So a function that
writes its destination in several steps is an operator `f(m, d)` on the memory,
and reads each operand where the C code reads it; and the destination `d` may be
one of the operands, because the compiler writes `f(&x, x)` for `x = f(x)`.
Functions that return their result are operators on values.  Words are cut to
`WordBits` and shifts by a whole word are what the code does about them.  `Gmp`
says what the operations of GMP do with the digits of a number in base two, and
the loops of the C code are recursive functions on the value of their counter
(`For`), so that what TLC evaluates is what the proofs are about.

`SailValues` says what a call promises: the destination gets what `SailLib`
computes from the operands as they were at the call, in the OCaml library's own
terms (lists of bits), and nothing else changes.  Results that are reals are
specified by their equation.

Properties of the run `library`:

- `NormalForm`: the bits of a vector are below two to its length, after every
  step.  The functions that compare, append and print rely on it.
- `RefinesSailLib`: each function implements `SailValues`, on any contents of
  the destination, and in place where that is safe.
- `PowerInvariant`: the comment in the loop of `real_power`, at each iteration.
- `EveryCallReturns`: `sqrt_real` and `real_power` end.  The fairness is
  `WF_vars(Next)`: one process that keeps executing.

The operands are all vectors of at most four bits, with more lengths where bytes
count (two to eight bits, ten, sixteen); a byte has two bits and a word sixteen,
so that four-bit slices, full words and both ends of the machine integers occur;
integers are -5 to 6, reals the fractions with denominators up to three and
numerators -3 to 4, strings up to three characters of two; a root has one
decimal.  They are within what the types of `lib/*.sail` allow: a slice is inside
its vector, vectors that are added have one length.  Left out is `string_of_lbits`
of the empty vector, for which C gives `0x0` and OCaml `0x`.  81,000 states.

What TLC found outside of these operands:

- In place, a function that writes too early gives a wrong result.  Of the pairs
  that Sail's types allow, these are `shift_bits_right_arith` with `x`,
  `reverse_endianness` with `x` when it does not have one, two, four or eight
  bytes, and `real_power` with `p` (with `InPlace <- PowerInPlace`,
  `PowerInvariant` is violated at the first iteration).  Others would need an
  assignment that changes the length of a variable (`append` with `y`,
  `replicate_bits`, `slice`).  The string functions free or move the buffer they
  go on reading, and are never called in place here.
- `sub_nat` compares the result of `mpz_cmp_ui` with `0ul` (`sail.c:340`): the
  comparison is one of unsigned numbers, is never true, and the result goes below
  zero where the OCaml one stops.  With `sub_nat` among the `Operands`,
  `RefinesSailLib` is violated.

### The control of the runtime, and ELF files

`RtsControl` is the program that a user starts.  `phase` is `"platform"`, where
C code around the model may call `lookup_sym`; then `"arguments"`, after
`model_init`; then `"model"`, when `process_arguments` is done; then `"exited"`.
There is an action for each option, and for each program header of an ELF file,
since loading stops at a bad one with the segments before it in memory; memory
is the array that the run `rts_memory` justifies.  The model is any program: at
any time it may call a function, return, throw, catch, ask to sleep, enable and
disable tracing, call `cycle_count` or `cycle_limit_reached`, exit or end.
`OptImage` reads the numbers of an image as `atoll` and `sscanf` do (`LinesRead`),
so one that is too large becomes the largest, and it stops at an entry point that is
no number, with the lines before it in memory, and exits.
`trace_start` and `trace_end` are where the compiler puts them, around every
call, builtins and `enable_tracing` itself included.  Two variables are history:
`level`, the calls in progress when tracing was enabled, and `reported`, that
`cycle_limit_reached` has been true.

`ElfLoader` is what `elf.c` does with a file as the host reads it: words of a
big endian file are reversed one by one, sums wrap around in the class of the
file, sizes are cut to a word.  `CommandLine` says what ought to be in memory
from what a file means, and what `doc/usage.tex` says of the options; `Encode`
relates the two descriptions of a file.

Properties of the run `rts_control`:

- `StartsAsTold`: the model starts with the memory, entry point, limit and flags
  that the command line as a whole tells, later options over earlier ones, byte
  by byte; or the program ends before it, with the status of the first option
  that ends it.  Memory and entry point are those told under `ImagesFit`: the
  numbers in the images are numbers for `atoll` and `sscanf`.  The run
  `image_address` is about others.  The limit, the flags and the way the program
  ends have no such condition.
- `ExplicitEntryWins`: the entry point of the last `-n` is the one the model
  sees, in whatever order images and files come.
- `LookupFindsFirst`: `lookup_sym` gives the first symbol of its name in a file
  with one symbol table and two string tables, in any order of the sections.
- `CycleLimit`: a model is never past its limit, unless `cycle_limit_reached`
  told it so; also when the counter is incremented by both functions.
- `TraceDepth`: the depth of the trace is the number of calls in progress, less
  those in progress when tracing was enabled, less one, since the end of
  `enable_tracing` is traced and its beginning is not; whether calls end by a
  return or an exception, and whatever was enabled or disabled in the middle of
  them.
- `TimesOut`: with a limit, the model exits.  This needs fairness: the program
  is executed (`WF` of `model_init` and `process_arguments`, and of what passes
  an exception on), and the main loop calls `cycle_count` (`SF_vars(cycle_count)`),
  which the manual asks for (`doc/usage.tex:147`): a model may be in an exception
  in between, so it is strong fairness.  The rest of the model has none.

The instance: bytes of three values, half words and words of two bytes, double
words of three, 27 addresses, the largest `int64` 13; command lines of two options
out of 37, among them images with an address and an entry point that are too large
and with an entry point that is no number, raw files with an argument that is none,
good files of both classes and both byte orders with overlapping segments, tails
of zeros and a segment that is not loaded, and files that are refused at the
header, at a program header and at a segment; two calls in progress; a counter
that wraps around at five, with limits of two and three, so that it wraps in a
run; three cycles counted by `cycle_limit_reached` alone.  466,000 states.

What the code does otherwise than its comments say: `-e` passes no place for the
entry point of the ELF file (`load_elf(optarg, NULL, NULL)`, `rts.c:542`), and
the comment at `rts.c:577` says that `-n` overrides `the address read from the
ELF file`.  No address is read.  `ElfEntryIsRead` states it; with it as an
INVARIANT of `MCRtsControl.cfg`, TLC finds a command line with `-e` alone that
starts at zero.  Known and modelled: `sscanf` returns EOF for an argument that
ends too soon (`-n 0`), which counts as a number, so that `elf_entry` is whatever
was on the stack (`IsEntryTold` says nothing there); `e_shoff` of a big endian
file is not reversed where the section table is read, so a lookup in one may end
in any way.  Left out: `z__SetConfig`, which a model may define; `-b` without a
file name; a segment that starts behind the end of its file, which is undefined;
reading and unpacking a file with zlib is one step.

### The answers of the constraint solver

`Constraint` has, for each process, `known` (`known_problems`) and where
`load_files` is (`pc`), and the file `z3_problems`, byte by byte: a record is a
digest of `RecordCells - 1` bytes and a byte for the answer.  `Load` is
`load_digests`, `call_z3` and `solve_z3` are the functions of those names with
their look up, question and update, and `save_digests` is `Open`, which truncates
the file, a `Flush` for each full buffer of `ChunkCells` bytes, and `Close`.
`Exit` ends a process anywhere, so that a file can be torn; it also is how a
process ends after `load_files`, and the next `Load` is a new run.  Z3 is
external: it says what is so, or `unknown`, or something that is neither.  A
problem is the set of its solutions.  Digests are assumed to be those of one
problem only, and their order, which is that of `DigestMap.iter`, is any order.
A file that cannot be opened for writing, and a Z3 that is not installed, are
left out.  `Load` reads the file in one step, where OCaml refills its buffer of
65,536 bytes and may see part of what another process writes in between.

Properties:

- `Sound`: an `Unsat` of `call_z3` is of a problem with no solution, and the
  value of `solve_z3` is the only solution, wherever the answer was found.
- `NeverAsserts`: `load_digests` does not stop at its `assert false`.
- `Durable`: with one process, an answer that was saved is neither forgotten nor
  changed, unless the process is killed while it saves.

The run `z3_memory` has one process, three problems and a buffer of one byte: the
file is torn after every byte.  In `z3_parallel` two processes share the file, a
record has three bytes and the buffer four, which ends in the middle of a digest:
a process that opens the file truncates it while the other writes, which then
leaves a hole of zeros, and each may read what the other has half written.

Two processes are safe only up to a bound.  A buffer of OCaml has 65,536 bytes
and a record 17, so the first fifteen buffers end inside a digest, and the
sixteenth between a digest and its answer.  From there, with more than 61,680
answers, a hole may end with an answer of zero for a digest that is there, or
a digest of one process be followed by the answer of another.  With
`ChunkCells = 2` TLC finds `Sound` violated that way.

## What is proved

`RtsMemoryProofs` proves, for every address space, block size, byte width and
file, from `MemoryAssumption` alone (the sizes are positive naturals, and files
and data hold naturals):

- `TypeCorrect`: `Spec => []TypeOK`.
- `BlocksAreUnique`: `Spec => []UniqueBlocks`.
- `MemoryIsFlat`: `Spec => ListIsFlat`, that the lists of blocks refine
  `FlatMemory`.

The inductive invariant is `TypeOK /\ UniqueBlocks`.  Uniqueness is what makes
the refinement go through: `write_block` writes the first block that holds an
address and `read_block` reads the first, and a step that puts a block in front
of the list may not hide one behind it.  `WriteBlockCases` splits a write into
an update and an extension of the list; `ReadAfterWrite` says what a read
returns after either; `AddressSplit` that two addresses with the same block and
offset are equal.  The three theorems rest on these, and on one step per action.

It also proves, from `MemoryAssumption` and for images that satisfy
`ImagesFit`:

- `CallsTakeEffectAtOnce`: `Spec => CallsAreAtomic`, that `RtsMemory` refines
  `WordMemory` under the mapping of `RtsAtomic`.

`ImagesFit` says that the numbers in images are numbers for the functions that
parse them: addresses and bytes below 2^63 for `atoll`, an entry point below 2^64
for `sscanf`.  Without it the theorem is false, as the run `image_address` shows.
The invariant is `AInv`: that of the lists, and, for a call in progress,
what its loop has done (`CallInv`).  A read has in its buffer the word of the
bytes behind its counter (`ReadSoFar`), cut to a machine word in a fast read.  A
write needs no more, since the mapping puts into memory what is left to write:
writing the next byte moves it from the one to the other (`WordStep` takes a byte
off a word, and the place of a byte in memory that wraps around is that of the
last byte written there).

`ConstraintProofs` proves, for all problems, sizes of a record and sizes of the
buffer, from `ProblemAssumption` (there are finitely many problems, and removing
a value from one gives another) and `SizeAssumption` (a record has a digest):

- `TypeCorrect`: `Spec => []TypeOK`.
- `SoundInBuffer`: `Spec => [](Sound /\ NeverAsserts)` for any number of
  processes, if all there is to save fits in one buffer.
- `SoundAlone`: the same for one process, without the condition on the buffer.
- `LoadNeverFails`: the part of it that is about `load_digests`,
  `Spec => []NeverAsserts`.
- `AnswersAreDurable`: `Spec => Durable`, for one process.

The invariant `Inv` says that all answers known are right and that the file, and
what is about to be written, is `Coherent`: a record with the digest of a problem
has an answer that is right, and right means that `Unsat` is of a problem with no
solution.  `NextInv` shows
all of it but the coherence of the file after a `Flush`, which needs more.  If all
there is to save fits in the buffer, a process has written all of it or nothing, and
it is a number of records (`Whole`): a flush leaves records of one process followed
by records of another.  With one process the file is, while it saves, a prefix of
what it saves (`Begun`), and a prefix of coherent records is coherent since a
record that is not complete is not read.  For durability, the process that saves
also knows all that the file said when it was loaded (`Knows`).

`RtsControlProofs` proves, for every set of options, files, limits and sizes, and
every command line however long, from `ControlAssumption` (numbers are naturals
below `CycleSpace`, and options have the fields of their kind):

- `TypeCorrect`: `Spec => []TypeOK`.  What `sscanf` did not read never reaches a
  variable.
- `TraceIsNested`: `Spec => []TraceDepth`.  `TypeOK /\ TraceDepth` is inductive:
  `trace_end` brings the depth of `enable_tracing` to -1, which is
  `calls - level - 1` there, and each of the pending returns takes one from both
  sides.
- `LimitIsKept`: `Spec => []CycleLimit`.  The strengthening, `NothingCounted`, is
  that nothing is counted before the model starts: the limit may then be set to
  any number.
- `EntryIsExplicit`: `Spec => []ExplicitEntryWins`.  While the options are read
  the address of the last `-n` so far is in a local variable (`EntrySoFar`), which
  no other option touches, and there is none before the model or after an option
  that is yet to come (`InOrder`).

`ElfProofs` and the second part of `RtsControlProofs` prove the rest of it, for every command line,
image and ELF file of both classes and byte orders, from `ElfAssumption` (the
widths and sizes of the format are naturals) and `FileAssumption` (raw files and
images hold numbers, except that an address after `-b` and an entry point in an image
may be no number, and ELF files satisfy `IsElfFile`, which is what linkers
write: numbers that fit in their fields, segments and tables that do not wrap
around, a first section that is no table):

- `StartIsTold`: `Spec => StartsAsTold`, for memory and entry point under the
  condition `ImagesFit` on the command line, as in `CallsTakeEffectAtOnce`.
- `LookupIsFirst`: `Spec => []LookupFindsFirst`, for the files that are `Simple`:
  one symbol table, two string tables, and the tables in the file.

`ElfProofs` relates the two descriptions of a file.  `Reading`: a word of a file of
either byte order, read by the host and reversed by `rd`, is the number the linker
wrote.  `HeaderChecked`, `SegmentFits` and `SegmentLoads` are then what
`checkELFHdr`, `ProgHdrFits` and `loadProgHdr` do in terms of the numbers of the
file, and `SimpleLookup` what `lookupSymbol` does.  The invariant of the start is
`StartInv`.  An image that fits is read as it is (`LinesFit`), and whether the images
of a command line fit does not change (`FitKept`).  Between two options, what the options so far tell is what the program
has: memory (`RamBefore`), limit and verbosity (`ValueBefore`), the entry point of
images (`ImageBefore`), and in its locals that of `-n`; none of these options ends
the program.  Within an ELF file, the header has been accepted, so have the segments
before the next program header, and memory is that of the options before with these
segments on top, in order (`PutSegments`).  At the end of the options these are
`Started`, at an option that fails they give `Refused`: no earlier option ends the
program, so it is the first that does.  That a file refused half way exits with the
status of a file refused at its header is why `Within` has to say that the file has
passed so far.  For symbols the invariant, `LookupInv`, is what `lookup_sym` found
in which file.

`BytesProofs` is below all this.  The induction theorems of the library take a
predicate as parameter, which the provers cannot instantiate; the lemmas here are
about sets instead.  A set of naturals that is not empty has a smallest number
(`SmallestNumber`, from the well-foundedness of `<`), so a set that has zero, and the
successor of each of its members, is all of them (`Induction`).  The same gives a
recursive function by the union of its finite tables (`TableExists`, `TablesAgree`,
`PowerDef`), and then that a word is determined by its bytes (`WordUnique`) and that
there is one for any bytes (`WordExists`), so that the `CHOOSE` in `WordOf` is a
value (`WordOfIsWord`).

`CodeFlowProofs` proves that the check of `CodeFlow` is right, for any programs, any
code for them and any bound on calls.  From `CodeIsChecked`, that for the code of
every program there is a set of points that contains its start and what its points
lead to, all as they should be:

- `CheckedCodeIsTyped`: `Spec => []TypeOK`.
- `CheckedCodeUsesLiveVariables`: `Spec => []UsesLiveVariables`.
- `CheckedCodeCreatesDeadVariables`: `Spec => []CreatesDeadVariables`.
- `CheckedCodeLeaksNothing`: `Spec => []NoLeak`.

The hypothesis is what `CompiledCodeIsChecked` says of every program of the run
`c_backend`, with the points that are reachable.  None of the four properties is
inductive: what may be used at a statement depends on how control came there.  The
inductive invariant, `FlowInv`, is that the run is on one of the points, for kinds
that fit the values in the store (`OnPoint`).  Each action leads from a point to one
of those after it (`DeclLeads` to `EndLeads`); `ValueFits` and `TruthFits` say
that a cval has a value of its kind, and that a condition has one of its truth values:
that the flag is known is what makes the jump over the rest of a function, and not
the fall through it, the one that is taken after a throw.  That the compiler's
code passes the check for every program, and not only for the ones of the run, is not
proved.

`GmpProofs` and `LibraryProofs` prove, for every size of a word and of a byte, and for
operands of any size and number, from `WordAssumption` (a word is eight
bytes, and a byte is not empty) and `OperandAssumption`:

- `BitsAreNormal`: `Spec => []NormalForm`, for the 52 functions and expressions of the
  model whose result is a bitvector, and also in place.
- `PowerIsKept`: `PowerApart => (Spec => []PowerInvariant)`.

`OperandAssumption` is what the C code is called with (`Typed`): bitvectors in normal
form, integers, and what the asserts of `sail.c`, the types of `lib/*.sail` and those of
the compiler's own calls say: vectors of one length for `and_bits`, a slice inside its
vector, no more than the length in `sail_truncate`, whole bytes for
`reverse_endianness`.  These are needed: `or_bits` of vectors of different lengths
leaves a number above its length, and `set_slice` outside of its vector sets a bit
there.  One is not the type's: `shift_bits_right_arith` (`sail.c:974`) is left out for
a shift by more than the length, where a negative vector has bits set at an index that
wraps around.  A result goes to a variable of its type, and
`append_64` only to the vector it reads, as in the compiler.  `PowerApart` says that the
destination of `real_power` is not an operand of it: without it the theorem is false,
since the function sets its result to one before it copies the base.

The lemmas come in three layers.  `GmpProofs` has the arithmetic: `exp2` grows and is a
homomorphism (`Exp2Sum`), a number has a `size`, `&`, `|` and `^^` are sums of bits
(`NumberBelow`), and setting or clearing a bit below two to the `len` stays below it
(`BitBelow`).  The second layer is one lemma for each group of functions that work the
same way, that they store a number below two to the length they store
(`NormalizedFunctions`, those that call `normalize_bv` at their end; `SliceStores`,
`SetBitsBelow` and others, those with a loop over bits, from `LoopInvariant`; the byte
swaps of `reverse_endianness` and the doubling of `replicate_bits` one by one).  The
third is the system.  The invariant is `IInv`, `NormalForm` with `CallInv`: while a call
is in progress, memory has the operands of the call, but for the result of a loop that
has begun; so what was assumed of the operands holds of the memory that the function
reads (`TypedNow`), also where the result goes to one of them.

For `real_power` the invariant is `PowerIInv`: with `PowerInvariant`, that the local
variables are a rational number and a natural, and that the result is in lowest terms
(`IsReduced`), which is why multiplying it by one leaves it alone.  `LowestTerms` says
that the fraction with the least denominator is the reduced one, whatever fraction one
starts from (`SameFraction`), hence that products associate (`ProductAssociates`);
`PowerStep` and `PowerOfSquare` are then the two branches of the loop, and `ExponentKept`
says that the exponent survives `mpz_get_si` and `llabs`, if its absolute value fits in a
signed word.

What stays with TLC:

- `Terminates`, `TimesOut` and `EveryCallReturns` are liveness.
- `CompiledCodeIsChecked` and `SailOutcome`, what the compiler makes of a program and that
  it means the same: compiler and meaning are recursive functions over a tree, for which
  `SailAnf`, `CompileIR` and `OptimizeIR` use `RECURSIVE` operators that the prover does
  not accept, and the claim is an induction over the tree.
- `RefinesSailLib`, that each function of the library gives the value of the OCaml one: a
  claim for each function about all lists of bits, where the theorems above say only which
  numbers are stored at what length.  The real loop `sqrt_real` is part of it.

With these exceptions, all safety properties that a passing run checks are proved.

## Plan

In this order:

1. The C back end and its meaning, the memory of the runtime, the answers of the
   constraint solver (done).
2. The optimiser: the passes of `optimize` over the IR of `CompileIR`, run on the
   machine of `GeneratedC`, with the same properties (done).
3. The control part of the runtime: arguments, ELF files, cycle limit, tracing,
   sleeping; the C library against the OCaml one (done).
4. The interpreter as a machine: frames, requests, registers, `break`; shown to
   implement `Eval`.
5. The interactive shell on top of it: modes, `:load`, `:unload`, `:spec`.
6. The prompt and state monads of the Lem library.
7. Nested patterns, tuples and records in `CompileIR`.

Theorems worth proving next: `RefinesSailLib` for the bitwise functions, where a list of
bits and a number correspond bit by bit; an invariant of the stack of frames (4).

## Not modelled

The type checker, the rewrites and monomorphisation are functions on trees over
the whole syntax of Sail with dependent types: their correctness is a theorem
about a calculus, and small instances of it say little.  The parser is
generated.  The printers for Lem, Coq, OCaml and LaTeX print.  The bytecode
interpreter is an unfinished prototype.  Of the C library: `CREATE`, `KILL` and
`COPY` of integers, strings and reals, whose memory GMP and `malloc` manage;
`fdiv_int` and `fmod_int`; `string_take`; decimal and hexadecimal strings;
random numbers, time, printing, `arm_align`.  The interpreter's frames, the
shell and the Lem monads are planned.  `PROJECT.json` gives the status of each
part.

## Running

    tlc -workers 2 -config MCCBackendFlow.cfg MCCBackendFlow
    tlc -workers 2 -config MCRtsMemory.cfg MCRtsMemory
    tlc -workers 2 -config MCConstraint.cfg MCConstraint
    tlc -workers 2 -config MCConstraintParallel.cfg MCConstraint
    tlc -workers 2 -config MCLibrary.cfg MCLibrary
    tlc -workers 2 -config MCRtsControl.cfg MCRtsControl
    tlapm BytesProofs.tla
    tlapm RtsMemoryProofs.tla
    tlapm ElfProofs.tla
    tlapm RtsControlProofs.tla
    tlapm ConstraintProofs.tla
    tlapm CodeFlowProofs.tla
    tlapm GmpProofs.tla
    tlapm LibraryProofs.tla

The configurations `MCCBackendHandler.cfg`, `MCCBackendReturnInTry.cfg`,
`MCCBackendHeapTry.cfg`, `MCCBackendCombine.cfg`, `MCCBackendAlias.cfg` and
`MCRtsMemoryImage.cfg` end with a counterexample.
