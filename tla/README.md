# Verification of tactyk

tactyk is a small virtual machine and toolkit. A *tactyk-PL* document is loaded
line by line, each command is expanded through the *Virtual ISA* (`rsc/*.visa`)
into assembly, the pieces are shuffled and assembled with nasm, and the result
runs natively inside a sandboxed *context* that keeps its own call stacks and
bounds checks. Programs linked to one VM can call each other; the host (a C
program) calls into a context, gets control back at `exit`, `break` or an error,
and calls again. This directory holds TLA+ models of the parts of that system
that keep state or make decisions in sequence, TLC configurations that check
them on small instances, and TLAPS proofs for every value of the constants.

Paths below are relative to the repository.

## 1. Inventory

| Component | Source | State | Operations |
|---|---|---|---|
| VM context: control flow and calls | `rsc/tactyk_core*.visa`, `rsc/tactyk_asmvm_header.asm`, `libtactyk/tactyk_asmvm.c` | status, instruction index, `rLWCSI`/`rMCSI`, floors, lwcall stack, microcontext stack, tvm call stack | goto, lwcall, lwreturn, mctxpush/pop/jump, tvmpush/jump/return, ccall, tcall, exit, break; host: call, invoke, resume, add_program |
| VM memory | `rsc/tactyk_core_memory.visa`, `tactyk_asmvm.c`, `tactyk_pl.c` (bounds) | address registers, active memblocks, memblock tables of programs | bind, unbind, swap, assign, push, pop, load, store; host: bind, unbind, update_declared_memblock |
| Hash table | `libtactyk/tactyk_dblock.c` | fields, count, capacity | new_table, put, delete, get, rebuild, reset |
| DBlock pool and strings | `libtactyk/tactyk_dblock.c` | pool of 2^20 blocks, stack of free ones, persistence codes, containers | new, dispose, cull, containers, tokenize, remove_blanks, stratify |
| Program loader | `libtactyk/tactyk_pl.c` | current line, stack of open lines, tables of names | load, directives (mem, struct, data, text, const, ...), bus notation, build |
| Code emitter | `libtactyk/tactyk_emit.c` | commands, pending labels, code blocks, symbol tables | add label/command, push/pop code block, compile, shuffle, link |
| Emitter service | `libtactyk/tactyk_emit_svc.c` | current command and its last token (static), the emitter's draft | emit-new, emit-label, emit-cmd, emit-build, ... called by scripts |
| Virtual-ISA loader, assembler driver | `tactyk_visa.c`, `tactyk_assembler.c` | instruction table; none | load specifications; run nasm |
| Allocator | `libtactyk/tactyk_alloc.c` | table of mappings | allocate, free |
| Test shell | `tactyktest/ttest.c`, `tactyk_test__TestIt.c` | a shared slot per job, counters, child processes | fork, poll, account, kill, wait; child: initialise, run, report, exit |
| Test language | `tactyktest/tactyk_test__*.c` | the active command, the list a callback continues with, a shadow copy of the context and its memory | PROGRAM, ALLOC, EXEC, RESUME, TEST, CONTINUE, RETURN, EXIT, ERROR, ...; eight callbacks; the error handler |
| Runtime, resource packs | `runtime/*.c` | files, modules of a pack | start-up, file access |
| Reporting, utilities, auxiliaries, examples | `tactyk_report.c`, `tactyk_debug.c`, `tactyk_util.c`, `aux/`, `examples/`, `extras/` | - | - |

How they interact: the loader calls the emitter for each line; the emitter uses
hash tables for every name and the assembler for the result; `add_program` puts
the built program into the VM's program list, from which `tvmjump` takes code
addresses and memory tables; host functions called by `ccall` may rebind memory
or build further programs while a script waits; the test shell drives all of
this from forked children that share one page per job with the parent.

What is hard to get right and hard to test:

* *Legal operations in unusual orders.* Three stacks (lwcall, microcontext, tvm)
  are moved by different instructions, checked with comparisons of different
  width and sign, and survive errors: a failing `tvmpush` leaves the lock set,
  the host calls again with the floors of whatever ran last. Returns index the
  program's table without a bound.
* *Bounds split over instructions.* An access is inside its block only because
  the register bound, the element bound and the word size add up, after any
  sequence of assignments, pushes, copies and rebindings.
* *Slots reused after deletion* in the hash table, and its rebuild in the middle
  of a put.
* *Parent and children without a lock* in the test shell: results, signals,
  timeouts and reaping in any order, `waitpid(-1)` among them.
* *Symbols that arrive before the code they name*: labels and blocks wait for a
  command, skipped commands hand theirs on, and pieces are moved after that.

* *Commands inside of commands*: while an EXEC of a test script runs, callbacks
  run the lines below it, errors longjmp out of any depth of this, and every TEST
  on the way compares with, and updates, the same shadow context.
* *Blocks without owners*: tables, keys, lists and commands are blocks of one pool,
  freed wholesale by persistence code at the end of every build.

`PROJECT.json` lists these one by one under `hazards`, at the line where they bite.

## 2. Modules

| Module | Models | Composition |
|---|---|---|
| `TvmContext` | one context: every instruction that changes call state, errors, host entry | - |
| `NestedCalls` | what calls between programs promise: a stack of activations | abstract specification |
| `TvmCallRefinement` | the activations read off the context's stacks | `TvmContext` implements `NestedCalls` |
| `MemoryBinding` | address registers, bindings, checks, host rebinding, program switches | - |
| `DBlockTable` | linear probing, deletion marks, rebuild one slot at a time | implements `KeyValueMap` |
| `KeyValueMap` | a map | abstract specification |
| `TestScheduler` | the shell's polling loop, its children, and the kernel's part | - |
| `ProgramBuild` | loader, emitter, shuffle, linking, and running the result | implements `ScriptFlow` |
| `ScriptFlow` | which command follows which according to the document | abstract specification |
| `StructuredText` | remove_blanks and stratify; what a tree of lines is | used by `TestLanguage` |
| `ShadowContext` | the locations of the machine a test can see, the items of TEST, the comparison | used by `TestLanguage` |
| `TestLanguage` | the interpreter of test scripts: commands, callbacks, errors | `StructuredText`, `ShadowContext` |
| `TestExpectations` | what a script means, stated over its lines; the properties | `TestLanguage` |
| `DBlockPool` | blocks, the free stack, persistence codes, culls; put and new_object on blocks | used by `EmitService` |
| `EmitService` | every function of the emitter service, over blocks | implements `EmittedPrograms` |
| `EmittedPrograms` | one draft at a time, built programs that stay as they are | abstract specification |
| `MC*` | instances for TLC | - |
| `TvmContextProofs`, `MemoryBindingProofs`, `DBlockTableProofs`, `TestSchedulerProofs`, `ProgramBuildProofs`, `DBlockPoolProofs`, `EmitServiceProofs`, `TestLanguageProofs` | theorems, and the lemmas they rest on | each extends the module it is named for; `TvmContextProofs` also `TvmCallRefinement`, `EmitServiceProofs` also `DBlockPoolProofs`, `TestLanguageProofs` also `TestExpectations` |

### TvmContext

`status`, `rLWCSI`, `rMCSI`, `lwcall_floor`, `mctx_floor`, `stack_lock`,
`stack_position` and `entry` are the fields of the same name in
`tactyk_asmvm_header.asm` (607-660). `lwcall_stack` additionally records which
program pushed an index (a history field, `owner`, read by properties only);
`window` is the microcontext entry that the gs segment addresses, which the code
derives from `rMCSI` at some instructions and from a field that stays zero at
others. An action is a whole instruction in the order of its stores: `TvmPush`
sets the lock, moves the position and fills half of the entry before it can
fail, `TvmJump` writes the floors before it looks at the lock. The error macros
are `Raise`. Index registers keep their width: `SignedWord` is the comparison
`errorle` makes of 16-bit aliases, `DecrementWord` is `dec` on such an alias.
Data registers, arithmetic and the contents of stash entries are left out; a
script is any sequence of instructions.

A command that runs on jumps to the symbol of the next one, so the last command of
a program that assembles is a terminal one (`HasNext`). lwcall and tvmjump are
terminal and take the index to return to as a number (`tactyk_emit.c:280`): the
programs of `EndsInCall` have one of them at the end, and the index it leaves is
the length of the program. `Dispatch` is the jump of lwreturn and tvmreturn through
`program_map`, which they do not bound. The map has `program_size` entries: of what
follows them nothing is known but that no command is there, and the model stops
(`CRASH`). Two kinds of program are outside the model: those that end in
commands without code (skip), whose entries in the map are empty, and unshuffled
ones whose last command is not terminal (section 4).

`HostWindsUp` distinguishes two hosts: one that calls whenever control came back
to it (also after an error in the middle of a call), and one that only calls
into a context whose stacks are empty. The comment at `tests/tvmcall-const-const:75-83`
leaves it to the host to deal with what an abandoned call left behind;
`ReturnsOwned`, `InsideProgram` and the refinement are claimed for the second
host, `TypeOK` and `FrameInv` for both. `InsideProgram` also says that the return of
a call at the end of a program is the one way to lose control; that there is such a way
contradicts the readme (section 4).

### MemoryBinding

`active` is `context.active_memblocks`, `memblocks` the low-level layouts of each
program, `reg` the address registers. Addresses and bounds are numbers; bounds
are 32 bits wide (`Mod`), and each check is computed as the instruction does it:
`InArray` compares low words as signed numbers, `OffsetBound` subtracts in the
low word, `TransferBound` (block-load, block-store) in the whole register, `StackBound` is the quadword at `array_bound` that `push` compares
with. Declared objects do not overlap and are smaller than half the word range
(`MemoryAssumption`).

### DBlockTable

The slots, counters and the arithmetic of probing are the code's; a key is its
hash and the bytes `tactyk_dblock__equals` looks at. Because `equals` skips some
bytes of long keys, that distinct keys are told apart is an assumption of its
own (`KeysDistinguished`). A rebuild is an action per slot, with the interrupted
put in `pending`: put calls rebuild, which calls put.

### TestScheduler

The parent's control points are `pc`; reading a slot (`ReadResult`) and acting on
what was read are separate steps, since the child may write between them. A
child goes through forked, initializing, running, reported and exited, or is
killed; the stores to the shared page are single steps. `PromptKill` tells
whether a signalled child may execute on before the signal takes effect. When fork
fails (`ForkFails`), the shell ends itself with whatever children it has (`pc` is
"failed"); malformed arguments and missing files, found before any test is started, are
left out.

### ProgramBuild

One action per turn of a loop of the code: `HandleLine`, `Move` and `Unwind` are
the passes of `tactyk_pl__load_dblock` with the calls into the emitter they make
(`add_script_label`, `add_script_command`, `push_codeblock`, `pop_codeblock`),
`CompileCommand` a turn of `tactyk_emit__compile`, `Shuffle` a turn of the
shuffle with any random number, `Link` the assembler's verdict and the command
map, and `CallByName`, `CallByIndex`, `Jump`, `FallThrough` and `Leave` run the
result. Instructions are reduced to the places control may go to next: plain,
goto, if, exit, skip. Symbols are pairs of a prefix and a label or number; nasm takes
one twice where it has one address (`Assembles`). The function table has as many
entries as there are names and is filled from the first objects of the store
(`InFunctionMap`), which the callers by number see.
`ScriptFlow` says what the author of a document may expect, in terms of lines
and indentation alone, and knows of no symbol, block or layout.

### StructuredText

The lines of a document are pairs of an indentation and its tokens. `Stratify` is
one `Place` per line, with the array `stack` of the code: `Unwound` the loop that
clears the levels above the current one, `Peer` the search below it. Entries that
the loop never writes are `Garbage` until then, as they are in C. The documents
have two lines or more: of one line, stratify reads a second one that is not there.
`WellIndented` and `IsTreeOf` (in `TestExpectations`) state the result without a
stack.

### ShadowContext, TestLanguage, TestExpectations

The machine is a function from *locations* (a register, a lane of a vector
register, a byte of a program's block, a half of a stash entry, a field of a tvm
stack entry, ...) to small numbers. `real` and `shadow` are two such functions:
the vmctx and the shadow_vmctx with shadow_memblocks. A token is a text with a
meaning as an integer, a double or a string (`IntOf`, `DoubleOf`, `StringOf`), or
none. Each item of TEST is an operator that writes the values it declares into
the shadow copy, at the width the code writes them, or reports an error (or, like `mem`
without values, dereferences NULL and is `CRASH`); `Compare`
then runs the comparisons in the order of `tactyk_test__TEST`, each over the locations
that the code loops over, and the shadow is brought up to date.

The control of the interpreter is `frames`, the active calls of
`tactyk_test__exec_test_commands`; a frame that is `running` is inside of the
program its EXEC called. `active` is `*active_test_spec`, which callbacks save and restore,
`continuation` is `test_continuation`. While a program runs, it may change what
the script's `changes` allow, call back (`Callback` pushes a frame at the
continuation, `ReturnToProgram` pops it), move to another program, raise an error
(`ProgramError`: the handler looks at the line after the active one) or come back. `done`, `begun`,
`raised` and `seen` are history, read by properties only. `TestExpectations` then
says what a verdict means in terms of the document: `Met(n)` compares the machine
with the declarations below line n and with what was last seen, and knows of no
shadow context.

### DBlockPool, EmitService, EmittedPrograms

A pool is a value, `[db, stack]`: an array of records with the links and the
persistence code of a block, and the stack of free ones. `Take` is
`tactyk_dblock__alloc` for several blocks in a row, `SetPersistenceCode` the
recursive walk that stops at a block which has the code, `WithKey` the three
branches of put that choose a block for a key. Whether tables probe correctly is
the business of `DBlockTable`: here a table is its list of fields.

`EmitService` has an action per function of the service. `ctx` holds the lists
and tables of the draft by the number of their block, `cmd` and `cmd_lasttoken`
are the static pointers. Blocks are taken and linked in the order of the code, so
that `AddScriptLabel` is the seven calls of `tactyk_emit__add_script_label`; blocks of
`init_program` that nothing here reads are `ScratchBlocks`. A script
is assumed to use the service as documented (`Drafting`, and the guard of
`Build`): emit-new first, labels before a command, emit-cmd-end before
emit-build. The code takes that on trust: after a build with an open command,
`cmd` points to a block that was culled. `FunctionCapacity` stops short of the
growth of the store of functions, which leaves the values of its table dangling
(a warning at `tactyk_dblock.c:31`). The tables of labels
and memory names (`tactyk_emit.c:123-127`) are taken to be large enough: with more names
a put would rebuild them and copy every key again, into blocks the pool here
does not have.

What nasm and the instruction handlers object to is `Rejected` and `Assembles`. Since
2.15 nasm takes a label that is defined again with the same value (a warning of
class label-redef, off by default) and refuses it where the values differ; tactyk runs
`nasm -Ox -f bin` and makes no warning an error (`tactyk_assembler.c:48`). `Assembles`
therefore lets a name label one command twice, or commands with only skips between
them, whose labels pass to the next command with code. An older nasm refuses these
programs too, which is one of the outcomes of `Rejected`. The version, and that the two
values are the same to nasm, is taken from its documentation and not from a run.
`Label` has no such check: the service finds nothing wrong with a name used before.

## 3. Runs

| Run | Instance | Shows |
|---|---|---|
| `TvmNested` | two programs of 2 and 3 commands, the second ending in a call, lwcall stack 3, microcontexts 2, tvm stack 2, host winds up | calls behave as nested calls; return indices stay with their owner; no dispatch leaves the program but the return to a call at its end |
| `TvmAnyHost` | lwcall stack 1, microcontexts 2, tvm stack 1, any host | indices stay in their stacks, activations off each other's frames, after errors too |
| `Sched` | 3 tests, 2 jobs, prompt signals, tests end, fork may fail | each test is accounted once, passed only if it passed, one writer per slot; the shell ends, in order or at a failed fork |
| `SchedLateResult` | 3 tests, 1 job, signals take effect later | *violated*: a late result is accounted again |
| `SchedHungTest` | 2 tests, 2 jobs, a test may hang | *violated*: `waitpid(-1)` waits for the wrong child |
| `TestLang` | one script per item of TEST, well-formed and malformed, per pair of items, and per sequence of commands around an EXEC; documents of up to 5 lines with any indentation up to 3; 1 change and 2 callbacks per script | commands run in document order, none is missed except at the end; errors pass a script exactly where it expects them; a TEST passes iff the machine is as declared |
| `EmitService` | a pool of 34 blocks, 2 names, 2 instructions (one a skip), 2 functions, 3 memory blocks, 2 programs, 10 calls | built programs are what was emitted and survive later culls; no block is lost, freed twice or handed out live; layouts agree, and so do handles up to the first repeated name |
| `Table` | 4 keys with colliding hashes, capacity 2 to 8 | the table is a map; probes find what is stored; a rebuild never rebuilds |
| `MemBounds` | 2 registers, two programs with one block each (one external), a host object, words of 1 and 2 bytes, transfers of 2 to 4, 16-value words | accesses stay in the block; unbinding reaches copies |
| `MemPushBound` | a second block | *violated*: push is not bounded for a block with a nonzero index |
| `BuildScript` | every well-formed document of up to 4 lines over a vocabulary of 33 lines, and longer ones for nesting, skips and limits; both layouts | the program does what the document says |
| `BuildBlockClose` | up to 3 lines, with labels that have indented lines | *violated*: such a label takes over the block of an `if` |

Why the bounds are enough. An error of `TvmContext` needs a caller, a callee and
one more call: two tvm entries and three lwcall slots give each activation a
frame of its own and let every limit be reached, with the word half so small
that signed comparison and the wrap of `dec` occur. A tvm stack of one entry
suffices for a host that calls again at any moment, since `FrameInv` relates
adjacent activations; the proofs then cover every size. Three tests over two
slots are the least at which a slot is reused while another child lives. Four
keys in a table of two to eight slots wrap around the end, run over deleted
entries, and part or stay together when the table doubles. Words of 16 values,
elements of 2 and 3 bytes, transfers longer than an element, and offsets from -1 to 5 put every bound next to a
wrap. In four lines a document has an `if` with a block, a label or a skip
inside or after it, and a command outside; `MCProgramBuild` adds two blocks that
close together, a nesting past the limit (2), and a document without a command.

An item of TEST writes to one place and the comparison reads all of them, so one
deviation at a time shows whether the two agree on where that place is; pairs of
items show that one does not undo another. Two callbacks reach a CONTINUE that
is followed by another callback, and an error inside a callback inside an EXEC.
Five lines and four depths give stratify every drop and jump past a level that
it had and one that it had not. Ten calls are two programs (emit-new, label,
command, end, build), the second built while the blocks of the first, and of
abandoned drafts, are in the pool; 34 blocks run out for some of these and not for others.
Two functions are the same name twice, before one command or before two, or one name each;
with three memory blocks a name used twice meets the assertion on the third, and other
programs the limit.

`MCEmitService` uses a `VIEW` that leaves out which block holds what: no operator
looks at the number of a block, and the view keeps the count of free blocks, that
of the blocks a cull would free, and whether `TypeOK` and `KeptSurvives` hold. Its two
names are symmetric: nothing compares a name but with another, and all that is
checked is a safety property.

`TvmNested` uses `VIEW Live`: when the host winds the context up, nothing reads
`window`, frames above `rLWCSI` or entries above `stack_position` before writing
them, so states that differ only there have the same futures and the properties
checked do not read them.

`CHECK_DEADLOCK FALSE` is set where the system may really stop: a crashed
context, a shell that is done, a rejected document, a script that ended. `Table` and the memory runs
check for deadlock: put always finds a slot.

Fairness. `TestScheduler` alone has liveness. `FairSpec` assumes that the parent
keeps running, that a forked child reaches its first store, that a child which
has reported exits, that signals are delivered and that time passes: what the
operating system's scheduler gives and no more, since a test may hang, which is
what the age limit is for. `EndingSpec` adds that tests end by themselves;
`Terminates` holds there (`Sched`) and fails without it (`SchedHungTest`). A fork may fail whenever
there is one to do; the shell then ends at once. Weak fairness
is enough, none of these steps is disabled again by another process except by
being overtaken.

Every property of a passing run is shown to depend on the code by a mutant: the
definitions commented `Mutant:` are plausible slips (a limit compared one too
late, a missing reset, a swap in place) under which TLC finds that property
violated.

## 4. Disagreements between code and documentation

With a run (`findings` in `PROJECT.json`):

* `tactyk_core_memory.visa:312` push compares eight bytes with a four-byte bound.
* `ttest.c:292` a test killed for its age can be accounted twice.
* `ttest.c:294` the wait after a kill can block the shell for ever.
* `tactyk_emit.c:1063` a code block is attached to the last command, not to the
  line it is subordinate to.

Seen in the models, without a run of their own:

* `tactyk_core.visa:667` a program may end in lwcall or tvmjump. The index
  they leave is the length of the program; lwreturn, whose bound is commented
  out, and tvmreturn jump through the slot behind `program_map`, while `readme.md:151` has
  every instruction end with the VM in a valid state, however control flows.
  `status # "CRASH"` fails in `TvmNested`; `InsideProgram` says that it fails in this way only.
* `tactyk_emit_svc.c:133` emit-label returns the number of names as the handle, while
  `tactyk_asmvm.c:64-80` fills a table of that many entries from the first objects of the
  store. Once a name labels one command twice, which builds with nasm 2.15
  and later, there are more objects than names: the handles from there on miss their
  labels or the table (`doc/tactyk-emit.txt:150`: "function handle for use in tvmcalls").
  `HandleReachesLabel` without its premise `NamesDiffer` fails in `EmitService`.
* `tactyk_core_stash.visa:744` mctxjump compares with errorgt where mctxpush has
  errorge: a script may select the entry one past the microcontext stack
  (`tests/mctxstack:3`: "are bounds-checked, and correctly affect stash operations").
  `window < McSize` fails in `TvmContext`.
* `tactyk_core.visa:660` lwreturn compares 16-bit indices as signed numbers: past
  32767 frames it reports an underflow of a stack that is not empty (`devlog:1194`
  says lwcall "now uses the whole register and uses proper bounds checking").
* `tactyk_core_memory.visa:139` the element bound less the word size wraps for an
  element shorter than the word, so any offset passes ("must be lower than
  element_bound", `tests/load-data:4`).
* `tactyk_core_memory.visa:333` assign compares the low 32 bits of an offset and
  adds all 64: `RegisterInArray` is claimed for offsets that fit in 32 bits.
* `tactyk_asmvm_header.asm:743` after a ccall, a tvmreturn or a new call the stash
  window is not the entry `rMCSI` selects.
* `tactyk_core_tvmcall.visa:335` with a host that does not wind up, tvmreturn can
  use an entry that an abandoned call left.
* `tactyk_pl.c:536` an external block that nobody provided has bounds: an assign
  to an offset makes its register nonzero and load no longer sees it as unbound.
* `tactyk_asmvm.c:79` a label after the last command is a function one past the
  command map. An unshuffled program whose last command is not terminal runs off
  its end, an empty program divides by zero in the shuffle, and a label that only
  skips follow is never defined. `BuildScript` therefore uses documents that end
  in `exit`, `goto` or a line that is rejected; `NoCommand` keeps the empty one.

* The test language (`TestLanguage`, `ShadowContext`):
  * `tactyk_test__TestIt.c:326` a callback that was expected and did not come is
    noticed only when another command follows the EXEC; a script whose last EXEC
    never calls back passes (`doc/tactyk-test.txt:6`, `:54`: all expected
    transitions). `MissedOnlyAtEnd` says what is left.
  * `platform_functions.c:488` TEST compares only the memory of the program in the
    context, while a `mem` item writes into the shadow set of the program it names
    (`var_functions.c:322-329`, `doc/tactyk-test.txt:79`): such an item for another
    program is never checked. After a tvm transfer the memory of one program is
    compared with the shadow of another. `Unobserved` names these cases.
  * `var_functions.c:483` a malformed addr item returns false, the value of PASS
    as an exit code, and ends the script; declared bounds of addr items are parsed
    and not used; `:283` the loop that repeats a stack entry starts at 1.
  * `var_functions.c:850-920` `xA i64 v` without all lanes dereferences NULL
    (`Missing`); `platform_functions.c:74` reports an unknown function with a name
    that was never set; an EXEC without a function does not copy the shadow.
  * ERROR is not in `test_functions`: reached, it ends in TEST_ERROR, where the
    comment at `platform_functions.c:661` says it always fails.
* `tactyk_dblock.c:1422` reset_table steps by two over an array of twice as many
  pointers and disposes the keys of the first half of the slots only: the others leak
  until the next cull.
* `tactyk_dblock.c:932` stratify reads the second line of a document of one line;
  `:833` a token after nothing but separators is a byte long.
* The emitter service: emit-mem-copy (`tactyk_emit_svc.c:114-129`) copies memory and
  assigns it to nothing (`doc/tactyk-emit.txt:134`); disconfigure leaves emit-cmd
  registered (`:43-62`); a memory name used
  before makes the next declaration fail its assertion (`:258`). Abandoned drafts
  keep blocks of code 10 for good, and each build leaves one of code 100.
* `tactyk_pl.c:112-115`, `:161-190` strip and rewrite tokens in place, which a text
  shared by two programs shows.

## 5. Proofs

Each proof module proves an inductive invariant: it holds initially, every
action keeps it (one lemma per action or group of actions), and it implies the
theorems.

**`TvmContextProofs`** (assumption `ConstantsAssumption`): `TypeCorrect`
(`[]TypeOK`) and `FramesSeparate` (`[]FrameInv`), for any programs, stack sizes
and host. Neither part is inductive alone: `TvmReturn` restores positions that an
entry saved, which are in range because `FrameInv` puts them below the floors
above; and `FrameInv` survives a pop only because the 16-bit comparisons agree
with the plain ones on the ranges `TypeOK` gives (`LwPopStaysAbove`,
`McPopStaysAbove`).

Second part (premise `HostWindsUp`): `ReturnsStayOwned`
(`ReturnsOwned`) and `NeverOutside` (`InsideProgram`). `FrameInv` relates an
activation to the one above it; here the indices of *every* suspended activation
must still be its own when the tvm stack is popped to it, so the invariant orders
all saved floors (`FramesOrdered`) and says that the entry a transfer goes to
names a command of its program (`TargetStarts`). The premise is inside the box:
the same specification with the other host does not have the property. Both are about
programs with a call at their end too: what a return can reach is then
`ReturnIndexOf`, a command or the index after the last, and `NeverOutside` shows that
control is lost only there, which for a VM without such programs (`EndsInCall` empty) is
nowhere.

Third part (premise `HostWindsUp`): `CallsNest`, the refinement that
`TvmNested` checks. The initial context maps to an empty stack of activations,
and each instruction to one step of `NestedCalls` or to none: a return of `lwreturn`
shortens the list of the activation on top, `TvmJump` puts a new activation on the
one that suspends, `TvmReturn` takes it off and finds the one below as it was
left. What lies below the top does not change because the frames are separate
(`FrameInv`, `FramesOrdered`). `PushedReady` is what the two invariants above do not
have: between a `tvmpush` and its `tvmjump` the entry on top is half of a call, with the
floor of the caller and a function of its target. The lemmas on sequences say
what cutting off, appending and replacing a last element leave.

**`MemoryBindingProofs`** (assumption `MemoryAssumption`, premise `ChecksApply`):
`BindingsTyped` needs no premise; `RegistersStayInArray`, `TransfersStayInBlock` and
`StackStaysInBlock` are proved where the checks mean what they say: at most one
block per program, since push reads the index of a block as the upper half of a
bound, and offsets below 2^32, which assign does not truncate. `AccessesStayInBlock`
needs `WordsFit` too, words no longer than an element: load and store take the size off
in the low word, block-load and block-store in the whole register. `ShapeInv` gives the tables and registers their shape;
`BoundsInv` says that every block or register with memory has the layout of an
object, with index 0 or that of a dynamic binding, and `RegisterInArray`, which an
`assign` or a `push` keeps only because the low word of an in-range value is the value
itself. `MemBounds` satisfies the premise; `MemPushBound` shows what happens without it.
`UnbindingIsComplete` (`UnbindReachesCopies`) has one more premise, `ObjectsAreHigh`: an
external block that nobody provided has bounds and the base 0, so registers hold small
numbers through it, and an object at a small address would be reached by those.

**`DBlockTableProofs`** (assumptions `TableAssumption`, `KeysDistinguished`):
`TableTyped`, `SearchesComplete`, `CountKept`, `RebuildsFit` and `TableIsMap`, for
any keys, hash codes and table size. `table_find` is the nearest slot at which a
search stops; that there is one follows from `CountIsExact` (a table that is not
full has a slot never used), and that the nearest is well defined from
distances along the probe being different. `ProbesComplete` is what makes that slot the
entry of the key, and is kept because only a slot that was never used changes its
key. `RebuildFits` counts: the keys moved so far are keys of distinct slots
behind `i`. `TableIsMap` is the refinement that `Table` checks: every step is one of
`KeyValueMap` or leaves `Lookup` of every key as it is.

**`TestSchedulerProofs`** (assumption `SchedulerAssumption`, premise `PromptKill`):
`SchedulerTyped`, `NoTwoWriters` (`OneWriterPerSlot`), `AllAccounted`
(`EachTestAccountedOnce`) and the action property `PassesEarned`, for any number
of tests, slots and any age limit. The invariant says who may still write to
a slot (`WritersPending`, `PendingInSlot`), that what the parent has read and not
yet acted on still holds (`SeenHolds`), and that every finished test has exactly one
verdict and is counted (`OneVerdictEach`, `Counted`). `SchedLateResult` is the
counterexample without the premise.

**`ProgramBuildProofs`** (assumption `InputsAssumption`): `ShapeKept`
(`[]TypeOK`) and `AllEmitted` (`[]EveryCommandEmittedOnce`), for any documents
and any limit on nesting. The invariant adds that every command has been
compiled when the layout begins (`AllGenerated`) and that a linked program
defines every symbol its jumps use (`JumpsDefined`): without the second, `Jump`
could go to no position at all and `pc` would leave the executable. A goto has a
known label because `Accepted` rejects it otherwise (`CodeType`).

Second part (assumption `InputsAssumption`, by which a line is at most one
level below the line before it, as `stratify` leaves it): `IndexReaches`
(`IndexReachesCommand`) and `FunctionsReach` (`FunctionsBegin`), for any documents and
any layout. `FunctionsBegin` has the premise `CommandLast`: the last line of the document
is a command with code; otherwise a label at the end has no command, and `tvmjump`
reads past the table. The argument follows the program through the phases. `Walk`
says that the loader's stack is the open line of each level and that everything after
it so far is deeper, so that the line it continues with, `Peer`, is where the block
ends (`PeerIsEnd`) and no line is met twice or left out; `Collected` that the commands
are exactly the command lines so far, in order; `Compiled` that a piece takes exactly
the indices since the last piece (`IndicesTaken`, which needs `PlainLabels`: no label
is mistaken for an index); `Onto` that the shuffle loses no piece; `Dispatch` that the
table has an address for each index that some piece took. Where a block ends, and
which command is first, is a least number: `LeastNumber` gets it from the well-founded
order of the naturals.

Third part: `ProgramImplementsScript`, the refinement that `BuildScript` checks, for any
documents and any layout. It has the premise `OwnBlocks`: a line that is only a label
has no block of its own where the last command before it is an `if` (`BuildBlockClose` is
the counterexample without it: the `if` gets that block), and directives carry no label
(the loader takes none from them). Every document of `BuildScript` satisfies it, but for some
with an unknown command, which the loader rejects. The invariant gives each symbol the line it marks (`Marks`): a label its own line, `First` of a
block the line below the `if`, `Close` the line where the block ends. Through the
phases:
`Waiting`, a symbol not taken yet marks a line after the last command; `Taken`, the
command that has a symbol is the first one from the marked line on; `OpenBlocks`, the
blocks on the emitter's stack belong to the innermost open lines and end with
them; `LabelTable`, the names that a branch is tried against are exactly the labels so
far; `Coded`, a piece has the symbols of its command and of those without code before
it, and leads where the command does; `Straight`, without the shuffle the pieces are in
order, so that a plain command may run on into the next one; `Running`, control is only
ever at a command with code. A jump then ends at the piece that holds the symbol
(`JumpLands`), which is the first command from the marked line (`LandsOn`), the line that
`ScriptFlow` names.

**`DBlockPoolProofs`** (assumption `CapacityAssumption`) has lemmas only: each
operation on blocks keeps a pool `Sound`, and what it changes. `Sound` says of a pool
that every block has the shape of its type; that the free stack holds the disposed
blocks and no other, each once; that what a live block refers to (child, next, token,
store, keys of a table) is live; that what a block with a persistence code refers to has
a code at least as high; and that lists of blocks end. The parts need each other: a cull
keeps links live only because kept blocks refer to kept ones, and taking blocks keeps
that only because a free block is nobody's link. Where operations recurse or loop
(`Raised` along the links, `Pushed` over the blocks that a cull frees, `Chain` along a list), the lemmas first show that the
recursion is well-defined, by a least counterexample (`LeastNumber`), and then what it
gives: a set closed under the links (`RaisedResult`), a stack with all of the culled
blocks (`FreedResult`), a list (`ChainStep`).

**`EmitServiceProofs`** (also `KindsAssumption`, `CountsAssumption`): `ServiceStaysSound`, and from it
`StackStaysExact` (`TypeOK`), `LinksOfKeptSurvive` (`KeptSurvives`) and
`LayoutsStayInStep` (`LayoutsInStep`), for any size of the pool, any vocabulary, any number of
calls in any order that the scripts allow. `ServiceSound` says which blocks a draft and
a built program have, of which type and with which code, and that no table or store of a draft is
that of a program. Each function of the service has a lemma that says what it
leaves and which blocks it touches (`Touches`), so that everything else follows
from what it does not touch: built programs in particular (`ProgramStays`). The code of a
table matters: `emit-end` culls code 0, the names that `put` copied have
the code of their table, and the lists of a draft are given code 10 when it begins.

Second part: `HandlesReachLabels` (`HandleReachesLabel`). `HandlesSound` numbers the
labels of a draft in the order they were added: the k-th has the k-th object in the function
store, and its symbol is on the list of the command whose index the object has, or on the
list of labels that wait for the next command, whose index that will be. As long as no
name was added twice, the table of functions has an entry per label, so that the handle,
which is the size of the table, is the place of the object in the store; names repeated
later add objects behind it and take no entry away. Nothing is assumed of the
assembler.
`emit-end` hands the whole waiting list to its command by the first block, so the proof
speaks of what is on a list (`OnChain`). `emit-build` makes the function map of the store.

Third part: `ServiceImplementsEmitted` (`ImplementsEmitted`), that each call is a step of
`EmittedPrograms` or none. The mapping reads texts off lists, and maps off tables whose
values are places in stores; `TextsIn`, `FunctionsIn` and `MemoryIn` say what it reads of any
pool, and `MappingRead` that this is `Draft`, `Open` and `Built`. For each there is a lemma that
it stays (`TextsStay`, `MapsStay`), and one for what the service adds (`TextsJoin`,
`FunctionAdded`, `MemoryAdded`, `CodeAdded`). `ServiceSound` is not enough for that: if the list of waiting labels
shared a block with that of an earlier command, a label would be added to both. So the
invariant is `EmittedSound`, which adds `ListsKept`: the lists of finished commands and the one
that still grows are apart (`ListsApart`), labels and tokens alike, and the open one
ends where `active_labels_last` or `cmd_lasttoken` says. It holds because only blocks from the free stack
are linked, and only to that end. `Emitted<Call>` has what a call does to all of this, and `EmittedNext`
puts the calls together.

**`TestLanguageProofs`** (assumptions `SizesAssumption`, `IndentAssumption`,
`ScriptsAssumption`, `CallbacksAssumption`: a script is a list of lines indented by at most
255, with a line that is more than a comment, and the programs it names are programs):
`ShadowKeepsItsShape` (`TypeOK`), `LinksFollowIndentation` (`TreeFollowsIndentation`), `PassAnswersErrors`
(`ErrorsAnswered`), `ScriptRunsInOrder` (`CommandsInOrder`) and `NothingMissed`
(`MissedOnlyAtEnd`), for any scripts, any nesting of callbacks and any programs. All rest on
one invariant, `InterpreterInvariant`, in four steps.

1. *Folds.* `remove_blanks`, `stratify`, TEST and `stack-entry` go through a list by
   `FoldLeft`, which the library defines by a recursion over sets of indices. `FoldKept`, `FoldPlace`,
   `FoldApply` and `FoldEntryLine` show, by a least counterexample, that such a fold has a
   value after each line.
2. *Links.* `Placed` says of the state of `stratify` after k lines that slot l of
   `db_stack` holds the line of level l that is still open, that two lines are linked
   exactly when they are of one level with only deeper lines between (`Peers`), and that each line so
   far continued an open level or went deeper. A document is refused exactly at the first
   line that does not (`StratifyLinks`), and `PeersAreSiblings` takes that to the words of `TreeFollowsIndentation`.
3. *Control.* Seen from the lists of commands, the eighteen actions amount to eight steps
   (`ControlStep`, `NextControls`). `CommandInv` is inductive for these: everything begun lies before the line that
   a list has reached, is below it or encloses it (`Ready`, `Latest`, `Inside`), for the line awaited by `continuation` and
   the first one left below a running EXEC as for the innermost list itself. The callbacks take lines off
   `child`, so the links below a line are those of `stratify` only until it has begun.
   `ErrorInv` adds that after a command before an ERROR line nothing but that line is reached, and
   `MissingInv` that what is left below an EXEC has a place where it waits (`Waits`): in the list, in
   `continuation`, or after a command that still runs a program; when that place is lost, nothing
   outside of the EXEC can begin.
4. *Machine.* How a TEST ends decides the step, so each item has a lemma: it comes to one of six
   outcomes and leaves the copy its locations (`Sound`), whatever its tokens are.
   Lists of lines end because the next line is a later one (`SiblingsEnd`).

Only model-checked: liveness under fairness and everything about ENABLED (out of
the prover's reach); and `PassMeansMet` and `FailMeansUnmet`, which compare what each kind of
item writes, location by location, with the meaning of its line. Those two are facts about the
scripts of the run and not about every script: with a larger stack, `stack-entry 2 1` tests and
writes entries that its line does not speak of in `EntryMeaning`, and a memory item compares with the
block that an earlier item selected last, whichever that was.

## 6. Not modelled

* Contents of memory, stash entries and data registers in the VM modules;
  arithmetic, vector and bulk-transfer instructions: data without control state,
  save their bounds checks. `TestLanguage` has their values only as far as a test
  compares them.
* The interpreter of operand specifications in the emitter (`pick`, `select`,
  `composite`, ...): a tree walk over static data; what it decides is in `Code`.
* Strings byte by byte (tokenize, interpolation, number formats) and growing
  buffers: the pool's model has what is taken and freed, not how large it is.
  The recursive `tactyk_dblock__dispose` is reached by none of the code that is
  modelled over blocks: put and get dispose of keys they made from C strings, and
  there keys are dblocks.
* The growth of a table of functions past 1024 entries, and scripts that use the
  emitter service out of order: undefined behaviour by the code's own comments.
* Reports, debugging output, number parsing, SDL and terminal auxiliaries, the
  example programs, resource packs and file access: input and output.
* nasm and the operating system, except for what the code relies on (`Assembles`,
  `DieOfSignal`, `Zombie`, ...), marked external in the map.
* Programs whose map has empty entries or no last terminal command, under `TvmContext`; rebuilds
  of the label tables of a program, under `EmitService` (section 2).
* A second source loaded into the same program, and the directives get, set and
  bus, which add or change commands.

## 7. Plan

Done, in this order: the context, memory, the table, the shell, the path from a
document to running code; then the test language with the structure of documents,
and the emitter service over the pool of blocks. Next:

1. `Scramble`: immediate values split into parts; the parts add up modulo 2^w.
2. `AllocTable`, bus notation, several sources per program.
3. Proofs: for which scripts a TEST passes only if the machine is as declared, item by item.
