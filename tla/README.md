# Specifications of klang

klang is a systems language. The repository holds two compilers for it and a
standard library:

- `src/src/`, the bootstrap compiler in C (29,000 lines): it reads a program, checks it,
  lowers it to an intermediate representation (IR), optimises that, allocates
  registers and writes assembly for fasm and gcc to turn into a program.
- `src/selfhost/`, the compiler written in klang (54,000 lines), which repeats the
  bootstrap compiler pass for pass and is compiled by it.
- `src/lib/std/`, the standard library (7,000 lines), directly over Linux system
  calls.

This directory specifies the parts of them that are hard to get right and hard to
test, checks the specifications with TLC on small instances, and proves the most
important results with TLAPS for all values of the parameters. `PROJECT.json`
lists components, runs, mutants, findings, hazards and theorems, and maps each
definition to the lines it models.

## 1. The system

### Components and how they interact

The bootstrap compiler (`src/src/`):

| Component | Source | State it keeps | Modelled in |
|---|---|---|---|
| Driver | `main.c`, `driver.c`, `process.c` | temporary files, a child process and its pipe | `Driver`, `Compilation`; the order of the passes in `Pipeline` |
| Front end | `lexer.c`, `parser.c`, `sema.c`, `type.c`, ... | token cursor, scopes, trees | no; `Ast` has the typed trees it hands on |
| IR | `ir.c`, `ir.h` | functions, blocks, instructions, virtual registers, stack slots | `KIR` |
| Lowering | `ir_lower.c` | current block, loops, scopes of deferred statements, inlined calls | `Lower`, against `Source` |
| Promotion to SSA | `sroa.c`, `mem2reg.c` | pointer facts, dominators, rename stacks | `Sroa`, `Mem2Reg`, `Cfg` |
| Value optimisations | `sccp.c`, `gvn.c`, `licm.c`, `ir_opt.c` | lattice, value numbers, known memory, loops | `Sccp`, `Gvn`, `Licm`, `IrOpt` |
| Control flow, out of SSA | `cfg_opt.c`, `out_of_ssa.c` | predecessor counts; pending copies | `KCfgOpt`, `KOutOfSSA`, `ParallelCopy` |
| Registers and stack slots | `regalloc.c`, `stack_color.c` | liveness, interference graph, worklists, colours | `RegAlloc`, `Allocation`, `StackColor` |
| Peephole | `peephole.c` | what each register and slot holds | `Peephole` |
| Code generation | `codegen.c` | frame | `Codegen`, `X86` |
| Containers | `arena.c`, `vec.h`, `hash_map.c`, ... | buffers | no |

The selfhost compiler and the library:

| Component | Source | State it keeps | Modelled in |
|---|---|---|---|
| IR, interpreter | `selfhost/ir/` | functions; memory image and frames | `IR` (partly) |
| Control-flow optimiser | `selfhost/opt/cfg_opt.kl` | predecessor counts, reachability, block cursor | `CfgOpt` |
| All other phases | `selfhost/` | as in the bootstrap compiler | not by themselves |
| Child processes | `lib/std/process.kl` | command, pipes, handle | `Spawn`, `Output`, `ChildHandle`, `Command` |
| System calls | `lib/std/sys/linux.kl` | none (the kernel's tables) | `Spawn` |
| Arena allocator | `lib/std/mem/arena.kl`, `policies/bump.kl`, `source/page.kl` | chunk chain, offset | `Arena` |
| io, fs, path, collections, strings | `lib/std/` | buffers, descriptors | `ChildHandle` has `File.close` |

A compiler is one thread and a pipeline: each phase hands a data structure to the
next, and the passes transform a function in place. Nothing in it is concurrent, save
for the driver, whose assembler and linker run beside it and which shares its
directory with other runs. What makes a pass hard is that it computes facts
(predecessor counts, liveness, what a register holds), then changes the function those
facts are about while still using them, and that it must cope with every shape the
passes before it can leave behind. A mistake shows only in what the program computes,
for some inputs, after other passes have had their turn.

The library's process module is concurrent: parent and child run after `fork`
and talk over pipes; programs write while the parent drains; signals come at any
time; descriptor numbers and process ids are reused as soon as they are released.
Every system call may fail. Its memory modules give out pieces of memory whose
owners the compiler does not track.

### What makes each modelled part correct

- *Lowering*: the function makes the calls its source makes, in that order and with
  those arguments, and returns the same: operands evaluated once and in order, deferred
  statements run in reverse at every way out of their scope, short-circuits and
  inlined calls included.
- *Each pass, and code generation*: a run of the function, and at last of the machine code,
  makes the same calls with the same arguments and returns the same value, for every
  parameter and input. Beside that: one definition per register that dominates its
  uses while in SSA form; blocks, layout and frame in step.
- *Register allocation*: nothing that is needed later is where something is written;
  coalescing never makes a graph harder to colour; reducing the graph ends.
- *Parallel copies*: the MOVs emitted one after the other do what the PHIs of an
  edge do at once, whatever cycles and shared sources the copies form.
- *Driver*: status 0 only with a whole output made from the source that was read, no
  temporary file left on any way out, no waiting for a program that waits to be read.
- *Spawning*: the caller is told the truth about exec, the child has exactly the
  streams asked for, no descriptor is left behind on any way out, nobody waits for ever.
- *Output*: a result that claims success is complete; no read blocks while the child
  blocks on the other pipe; the call returns.
- *Child handle*: no descriptor or process that is not the child's is ever closed or
  signalled, whatever the order of calls.
- *Command*: each string has one owner and is released once, but for what section 5 says
  of `deinit` and of empty paths; the child is given what the calls asked for, in whatever
  order they came, unless the command has failed.
- *Arena*: memory in use is never handed out twice and is aligned; blocks of the
  source are each held once and given back once; alloc never takes a block it then
  cannot serve the request from.

The hazards behind these, line by line, are in `PROJECT.json`.

## 2. Modules

```
Ast ─┬─ Lower ───────────────┐     KIR ── KRun ── Source (with Ast)
     └─ Source               │     KIR ── Cfg
KIR ─┬─ Sroa, Mem2Reg, Sccp  │
     ├─ Gvn, Licm, KCfgOpt   ├─ Pipeline ── MCPipeline ── Programs
     ├─ IrOpt, KOutOfSSA     │
     ├─ RegAlloc, StackColor │     RegAlloc ── Allocation ── MCAllocation
     ├─ Peephole             │     ParallelCopy ─┬─ MCParallelCopy
     └─ X86 ── Codegen ──────┘                   └─ ParallelCopy_proofs
IR ── CfgOpt ── MCCfgOpt           Driver (Compilation) ─┬─ MCDriver
Spawn ─┬─ MCSpawn                                        └─ Driver_proofs
       └─ Spawn_proofs             Output ── Output_proofs
Command ── Command_proofs          ChildHandle ── ChildHandle_proofs
Arena ── Arena_proofs              Allocation ── Allocation_proofs
```

An MC module defines the constants of an instance where a configuration file cannot
write them down; `Output`, `ChildHandle`, `Command` and `Arena` are checked without one.

### Pipeline: the bootstrap compiler on one procedure

`Pipeline` has a variable for the function and an action per pass, in the order of
`main.c`: `Lower`, `SplitSlots` (sroa), `Promote` (mem2reg), `PropagateConstants` (sccp),
`NumberValues` (gvn), `HoistInvariants` (licm), `CleanControlFlow` (cfg_opt), `SimplifyCode`
(ir_opt), `ReplacePhis` (out_of_ssa), `AllocateRegisters`, `ColorStack`, `CleanMachineCode`
(peephole), `EmitCode` (codegen). Each pass is a module with an operator
`..._run_on_function` from functions to functions, whose operators have the names
and the order of the C functions; loops over blocks and instructions are folds or
recursive operators, and a worklist whose order does not matter is a fixed point.

- `KIR` is `ir.h`: operands with kind, number, size and sign; instructions; a function with
  the code of each block, the order of the blocks, the slots and the frame. `Cfg` has
  successors, dominators, frontiers.
- `Ast` has the typed trees the lowering reads, and `Programs` 179 procedures made of
  them: defers at every way out, short-circuits, all loops and switches, arithmetic in
  all widths, pointers, structs and their copies, arrays, calls with up to twelve
  arguments, and functions with more values than registers. Two procedures are
  inlined.
- `Source` says what a tree means without looking at the lowering. `KRun` says what a
  function means, before and after registers are allocated: values are
  as wide as their type, memory is bytes, a register that was not written holds garbage,
  a call overwrites what the calling convention lets it. `X86` is the processor the
  assembly runs on, with the stack, the flags, partial registers, alignment of the stack at
  calls and the registers that belong to the caller; it is not in the repository.
- External procedures return the next of a list of inputs. `peek`, `poke` and `bump` read
  and write through a pointer and write a global, so that memory is observed.

What is observed of a run is the list of calls with their arguments, the returned value,
and a fault. `meaning` keeps what the lowered function does for each case; every pass must
keep it. `flawed` is a history variable. A module whose code can go wrong says there when
it does, by its own test of the cause (section 5), so that `BehaviourPreserved` can
say that everything else is right; 152 of the 179 procedures reach the end with nothing
on record.

The emitted functions and assembly of all 179 procedures, after lowering, after each
pass, and for various selections of passes, were compared with what the compiler built
from `src/src/` prints (`--dump-ir` and `-S`): 4,833 listings, no difference.

### Allocation

The loop of `regalloc_run_on_function` with an action per step of iterated register
coalescing (`Simplify`, `Coalesce`, `Freeze`, `SelectSpill`, `AssignColors`, `Rewrite`), over the
operators of `RegAlloc`. Here a step can be looked at, which in `Pipeline` is one pass.

`WellFormed` is what the allocator assumes of a function: no operand is a register of the
machine, PHIs are gone, jumps go to blocks that are laid out, and the registers are among
those the function has made. Lowering makes no register operand and the passes up to
out_of_ssa make none; `TypeOK` of `pipeline` has `WellFormed` as a conjunct where out_of_ssa
hands over, so the assumption is checked on every procedure there is.

Liveness is one simultaneous iteration where `compute_liveness` keeps a worklist;
`LivenessSettles` shows the result to be the least solution, which any order finds.

### ParallelCopy

`ParallelCopy` is `emit_parallel_copies`: `EmitReady` is a loop turn that emits a copy
whose destination no pending copy reads, `BreakCycle` one that saves a register
and redirects its readers. The registers' contents `env` are a history variable
that executes each MOV as it is emitted, so the correctness statement is about the
emitted sequence. Both compilers have this loop; `KOutOfSSA` is the pass around it.

### Driver and Compilation

`Driver` is `driver_run_pipeline` and `process_exec` for several runs in one directory: a
step is one system call of a run or of the program it has started. Calls fail, the disk
is full for some, runs are killed and their programs go on writing, a killed run has left
files under the names of this one, and the programs print more than a pipe holds.
`Compilation` is the promise, with neither files nor processes in it; `Compilations` is
the refinement mapping and `KeepsPromise` says that every behaviour of `Driver` is one of
`Compilation`. The selfhost driver makes the same calls, except that it notices when
writing the assembly fails and then leaves the file (`driver.kl:174`).

### IR, CfgOpt

`IR` has the function as the selfhost pass sees it, and what it does when run: given
parameters, each call returns the next of a sequence of inputs, and what is observed is
the calls and the returned value. It follows the compile-time interpreter, and the code
generator where that differs: a block without a terminator runs into the block behind it.

`CfgOpt` has one action per procedure of `CFGContext`, block by block where the procedure
walks the list: `simplify_branch_targets`, `simplify_trampolines`, the analysis,
`merge_sequential_blocks`, `fold_selects` with its three forms, `rotate_loops`, and the
final clean-up; rounds and pipeline iterations are as in the source, with its limits
of 16 and 8. A round merges one pair of blocks, so a long chain of blocks that do something
may be half done when the rounds are cut off: `CutOffIsResumed` says that a later pass
takes it up, and `RoundsMakeProgress` that the limit cuts off such functions only, never
rewrites that undo each other. `info` is what `analyze` found, and the handlers read it after the
function has changed, as in the code. `misfolded` is a history variable that records
the three ways in which `fold_selects` and `merge_into` go wrong. The bootstrap compiler's
pass of that name has no `fold_selects` of these forms; it is `KCfgOpt`.

### Spawn, Output, ChildHandle, Command

`Spawn` is `spawn_child` and the child's half of it: four pipes, fork, closing,
reading the exec result, reaping; in the child, three redirections, chdir, exec, and
the error report. It begins with what the kernel does to a descriptor table on open,
close, dup2 and exec. Each step is a system call, or several on a process's own table
that nobody else can tell apart; each may fail where the call can. A call that is
interrupted (EINTR) is repeated by the library and so is a stuttering step.

`Output` starts when the child runs: `drain_pair`'s poll loop, `drain_chunk`, closing
the pipes, `wait`. The programs that write are external: the child, and one it has
started in the background that still holds the pipes. `ChildHandle` is the `Child`
structure under any order of `wait`, `try_wait`, `kill`, handing out of pipe ends as
`File`s and closing those, in a program that meanwhile opens files and starts
processes that get the numbers just released.

`Command` is the builder: argument, environment and redirection mutators, each with
its allocation succeeding or failing at every point, and `deinit`, which may be called again.
Memory is a set of addresses with a first-fit allocator, so that an address is reused at
once and a stale one shows. `empties` is a history variable: the memory that was allocated
for empty paths. The two properties about memory say exactly when the code departs from what
`deinit` documents (section 5), and hence that it does so in no other order of calls.

### Arena

`ArenaAllocator` over the bump policy and the page source. `chunks` is the linked list of
blocks, `buffer` and `offset` the policy's fields, `mapped` what the source has handed
out. `live` is what callers may still use, each slice with its alignment and the number
of checkpoints it was made under. Addresses are numbers below `MaxU64`, so the overflow
guards of `push_chunk`, `alloc`, `resize` and `acquire` have their cases. A source that
refuses leaves the arena as it was and is a stuttering step. `exposed` is a history
variable: a rollback has put the offset below its checkpoint.

Assumed of callers: they use a slice with the alignment and size they got, do not use
it after releasing it or after ending a checkpoint that is older, end checkpoints
innermost first, and keep nothing across `reset` and `deinit`.

## 3. Runs

`distinct` is the number of distinct states TLC finds. "pass" runs must hold; the
two others show a place where the code does not do what it says.

| Run | Properties | Instance | distinct |
|---|---|---|---|
| `pipeline` | `TypeOK`, `BehaviourPreserved`, `LoweringFaithful`, `SSAForm` | 179 procedures, each with 12 pairs of parameters and 2 lists of inputs, through 13 stages | 2,508 |
| `allocation` | `ApartWhenLive`, `CoalescingSafe`, `EveryStepCounts` | 2,048 functions: a loop over any two of 32 instructions on 4 registers, 2 machine registers | 75,866 |
| `driver` | `KeepsPromise` (refinement), `MadeFromOwnSource`, `Terminates` | 2 runs in 5 pairs of configurations, files of a killed run, a pipe of 1 chunk | 267,620 |
| `parallel_copy` | `TypeOK`, `SequentialEqualsParallel`, `BystandersUntouched`, `FinishedCopyStable`, `LoopTerminates` | all assignments of sources (4 of 5 registers, or a constant) to 4 destinations | 673,920 |
| `cfg_opt` | `PreservedUnlessMisfolded`, `PhiInputsKnown`, `CutOffIsResumed`, `RoundsMakeProgress`, `Terminates` | four-block graphs, pairs of ifs, switches, loops, chains of 17 and 18 | 73,769 |
| `spawn` | `ExecReported`, `StreamsConnected`, `ParentKeepsOnlyHandle`, `Returns` | 27 redirections, 6 descriptor limits, 2 parents | 10,914 |
| `output` | `TypeOK`, `CapturedAll`, `ReadsNeverBlock`, `Returns` | 2 programs of 3 writes, pipes and buffer of 2 bytes, 4 captures | 271,341 |
| `child_handle` | `TypeOK`, `ClosesOnlyItsOwn`, `SignalsOnlyTheChildUnlessAutoReap`, `OwnsNothingOnceReaped`, `WaitReturns` | all sets of pipes, 2 kinds of child, with and without auto-reaping | 5,656 |
| `command` | `LeaksOnlyEmptyPaths`, `DoubleFreeOnlyByDeinit`, `BuildsWhatWasAsked` | 4 addresses, 2 arguments, 2 variables, 2 values, 1 stream, paths that are empty and not, `deinit` twice | 339,849 |
| `arena` | `SlicesSoundUnlessExposed`, `Aligned`, `Accounting`, `NewChunkServes` | 2 pages of 8, header 4, u64 of 6 bits, sizes 2, 4, 59, alignments 0, 8, 63 | 135,417 |
| `spawn_report` | `ExecReported` violated | parents with closed standard streams | |
| `arena_rollback` | `SlicesSound` violated | as `arena` | |

Why the bounds are enough:

- *pipeline*: a byte has one bit (`ByteBits`), so that types of 1, 2, 4 and 8 bytes are
  words of 1, 2, 4 and 8 bits: they overflow, wrap and lose their upper part within
  the parameters -8 to 3, while sizes, offsets and overlaps in memory are the program's.
  Each procedure is there for a shape some pass treats on its own; together they take
  every arm of every module but for a few for operands that no pass produces. `Fuel` (60
  blocks) is more than any of them runs. Registers are the sixteen of the machine, nine of
  them to give; what has more values at once spills.
- *allocation*: two registers for four values have every step happen, spilling and
  coalescing with machine registers included; one register is lost in a call, the other is
  not. Deadlock is checked: the loop never gives up at its limit of 32 turns there.
- *driver*: two runs are enough for one to spoil a file of the other. The pairs share a
  stem, a source, an output, or nothing; one of them prints, may be killed and may find the
  disk full.
- *parallel_copy*: four copies make every permutation, two disjoint cycles, a cycle
  with a chain hanging off it, and shared sources; one register is always only a
  source or not involved.
- *cfg_opt*: every rewrite looks at a block, its successors and their
  predecessors. Four blocks have the diamond, the triangle, the critical edge, a self
  loop, a loop with two exits and a block reached three ways; the larger shapes
  (seven or eight blocks for two ifs, five for loops and switches) are there for what needs
  them: a fold after a merge and a merge after a fold, rotation in several layouts. A chain of
  17 blocks that each do something, laid out backwards, takes all of the 16 rounds and is done;
  one of 18 is cut off and needs a second pass, as do 17 conditionals one inside the other. In
  order, a block that was emptied counts as a predecessor of the block behind it until the
  clean-up, so that a pass merges every other pair: of 18 blocks it leaves 9, with rounds to
  spare, and the next passes do the rest. More than 8 times 16 merges would meet the limit on passes, which no function of the
  run does. Each
  function is run on every input for three times as many blocks as it has.
- *spawn*: limits from 4, where no pipe fits, to 12, where all do, put the limit
  between any two of the calls that take descriptors.
- *output*: a pipe that holds two of the three bytes a program writes gets full, and a
  read may find less than, as much as, or more than a buffer.
- *command*: four addresses are fewer than the strings a command may have, so
  allocation fails at every place it can; a third name or value would not be told
  apart from the two. A third `deinit` finds what the second did.
- *arena*: two pages make a chain of two, in either address order, or one block of two
  pages. Size 4 fills a payload exactly; 59 with header and alignment reaches past
  2^6; 8 needs padding because payloads begin at 4 modulo 8; 63 is no power of two.
  Two slices and two checkpoints are what a wrong order or an overlap takes.

`MaxWrites`, `MaxLive`, `MaxTemps`, `Fuel`, `MaxDeinits` and `ByteBits` bound the models; the
other limits are the program's own. `CHECK_DEADLOCK FALSE` is in the configurations of
systems that stop when their work is done or, in `Arena` and `Command`, when a bound
is reached.

Fairness: the passes are straight-line code of one thread, so weak fairness of `Next`
says only that the compiler keeps running; `pipeline` and `allocation` need none. In
`Driver` a run is scheduled and so is the program it has started (weak fairness of `Run` and
`Tool`); nothing says that a call succeeds. In `Spawn` the kernel runs both
processes (weak fairness of `ParentStep` and `ChildStep`), and nothing is assumed of
the program in the child. In `Output` a program that can write does, and one that
has nothing left to write ends; no other fairness. In `ChildHandle` the child ends
once it can, and a `wait` that can return does.

Each property of a passing run has a mutant in `PROJECT.json`: a faulty variant of a
definition, written next to it and marked `Faulty`, with which the run fails.

## 4. What is proved

TLAPS checks these for every value of the constants that the assumptions of the modules
allow:

| Module | Assumed of its constants |
|---|---|
| `ParallelCopy` | registers and counts are natural numbers; constant operands and register contents are values |
| `Output` | `Main` is one of the programs; sizes and the number of writes are natural numbers, what must hold a byte is positive |
| `ChildHandle` | `Reaping` has Boolean values |
| `Arena` | the header is smaller than a page and than half of the largest u64; a u64 has a power of two of values; sizes are positive; no page is mapped at address 0 |
| `Driver` | no process has id 0; configurations have the fields and phases of `DriverConfig`, and users do not name temporary files; a pipe holds something |
| `Command` | memory is a finite set of addresses; no value is one of the two words the model uses for variables that are not set |
| `Spawn` | limits are natural numbers; a stream is inherited, a pipe or a file |
| `Allocation` | functions are `WellFormed`; what may be allocated is among the 16 machine registers, one list from those a call changes, one from those it keeps, neither with a register twice |

One hypothesis is stated with the theorems that need it, because the code goes wrong
without it (section 5): `StreamsOpen` for two of the theorems about `Spawn` (the parent's own
standard streams are open).

**ParallelCopy_proofs.** `TypeCorrect`, `ParallelCopyCorrect`, `BystandersSafe`,
`DeliveredForGood`. `SequentialEqualsParallel` speaks of the end of the loop only, so
the invariant says what the pending array means on the way: finished copies have
delivered, pending ones would deliver if executed now (`Deliverable`), the next register
to allocate is read by nobody (`NextIsFresh`), and the counter counts the pending copies.
Emitting a ready copy keeps `Deliverable` because nobody pending reads its destination;
breaking a cycle keeps it because readers are redirected to the saved value.

**Output_proofs.** `OutputTypeCorrect`, `OutputIsComplete`, `DrainNeverBlocks`, for any
number of programs and any sizes. The invariant relates four things: what was written is
what was read plus what is in the pipe; a stream that is no longer polled is at its
end and empty, unless the drain has failed; what poll reported stays readable, as only
the parent reads; and while the parent holds the read end nobody is refused.

**ChildHandle_proofs.** `HandleTypeCorrect`, `HandleClosesOnlyItsOwn`, `KillReachesTheChild`,
`ReapedOwnsNothing`. The invariant is ownership: a pipe end is open exactly if the
handle or one `File` names it, never both, and a handle that has a pid has one nobody
has reaped.

**Arena_proofs.** `ArenaSlicesSound`, `ArenaAligned`, `ArenaNewChunkServes` and
`ArenaAccounting`. That slices do not overlap is far
from inductive. The invariant has, beside it: the chain is of mapped, disjoint blocks
longer than a header (`Chain`); the policy's buffer is the payload of the last block and
the offset lies within it (`Bound`); each slice lies in a payload, in the last one below
the offset (`Placed`); and each open checkpoint names a block of the chain, inner ones
later blocks, with everything older than the checkpoint below its offset (`Marked`).
A slice carved at the offset is then apart from all others (`CarvedApart`); taking back
the last one leaves the rest below the new offset (`TakenBack`), because two slices
that do not overlap cannot both end there; ending a checkpoint leaves what is
older than it in the blocks that stay (`MarkedEnded`). The lemma `Padding` is the
arithmetic of alignment.

That a new chunk serves its request (`ArenaNewChunkServes`, an action property) is
arithmetic: `push_chunk` adds size, alignment and header, and its guard leaves out one
overflow, that of alignment and header. An alignment that is a power of two is at most
half of 2^64 (`PowersApart`: between a power of two and its double there is no other), so
for such an alignment the sum does not wrap (`NeedNotWrapped`), and then there is room for any
padding (`NeedSuffices`).

`ArenaAccounting` is proved for the whole chain and the whole sum. What is handed out is
exactly what is in the chain, and no block is in it twice, since two blocks of a chain share no
byte (`InChainCounts`). The capacity is a sum over a set, which the community module
defines as a fold whose order is a choice: the function it chooses is shown to exist (`SumsExist`) and
not to depend on the choice (`SumsAgree`), by inductions on a smallest set that is an
exception. Then a block adds its size (`CapacityAdds`), and what is given back takes off its
own (`CapacitySplits`).

**Driver_proofs.** `DriverMadeFromOwnSource` and `DriverKeepsPromise`, for any number of runs.
The invariant follows each run by itself: which files it must have made by the time it is
where it is, what its program has read and written, and how many temporary files it still
has to remove (`JobInv`). A step of one run changes the files of another only if both
name them (`Frame`); temporary files carry the process id, which no other run has and which
no user's path contains, so what an undisturbed run has made stays (`Undisturbed`), from
source to assembly to object to output (`Chain`). `DriverKeepsPromise` is a refinement: every
step of any run is a step of `Compilation` for that run or changes nothing it sees
(`StepRefines`), and the files a promise is about are gone when a run exits (`Tidy`).

**Command_proofs.** `CommandDoubleFreeOnlyByDeinit`, `CommandOwnsItsMemory` and
`CommandBuildsWhatWasAsked`, for any number of calls of `deinit` and paths of any length.
`DoubleFreeOnlyByDeinit` says nothing about who owns what, so the invariant does: each piece of
memory has one holder, a vector or a path field, and is allocated (`OneOwner`), and nothing
else is (`Owned`) but the memory of empty paths. A mutator takes away what one
holder held and gives what is new to one or, for an empty path, to none (`Handed`). After
`deinit` only the memory of empty paths is left, and none of the paths still there is in it
(`AfterDeinit`): a second call releases each of them again. For `BuildsWhatWasAsked` the vectors
are related to the history of calls: each name is set or removed once (`Keyed`), and what
is in no vector is inherited or, after `env_clear`, absent.

**Spawn_proofs.** `SpawnLeaksNothing`, `SpawnReportsExec` and `SpawnConnectsStreams`, for every
descriptor limit. There are two invariants. `ParentInv` is about the parent alone and needs
nothing of the child: its table is the one it had, with some ends of pipes added under
numbers of their own that were free (`Numbered`, `Holds`), and which ends these are follows
from how far it has come (`ParentOpen`). Closing gives back exactly the free numbers
(`Closes`), so `SpawnLeaksNothing` holds for every parent, a daemon without streams included.
`Inv` adds the child, and here the hypothesis is needed: in a parent with open streams
no end has the number of a stream. The child's table is then the parent's with the streams
below `step` redirected, dup2 onto a stream never destroys an end somebody still
needs, and the end an error is reported on is the one the parent reads. `ChildControl`
relates the two programs: what can have become of the child, given how far the parent is.

**Allocation_proofs.** `AllocationKeepsApart` is `Spec => []ApartWhenLive`: whatever the function
and however long the allocator goes on, when it has coloured a function and spilled nothing,
no instruction destroys a value that is needed behind it. The argument is in five parts.

- *Liveness.* The sets the iteration ends in are the least that flow back into every block
  (`LivenessSettles`). That it ends is well-foundedness of inclusion: what may still become live
  is a finite set, and gets smaller.
- *The graph.* `irc_build_graph` makes an edge for every clash: between what an
  instruction writes and what is live behind it, and between what is live across a call and
  what the call may change (`GraphSound`). Building never drops an edge (`Later`).
- *Reducing.* The invariant is `Sound`. Two nodes that clash are `Held` apart: what they
  stand for by now has an edge, in the adjacency lists that colouring reads; and each virtual
  node that stands for itself is on the stack or on the worklist its state names.
  `irc_simplify`, `irc_freeze` and `irc_select_spill` keep it, because an entry they drop is
  stale. `irc_coalesce` keeps it (`CoalesceSound`), and here is the difficulty: when `u` comes to
  stand for `v`, the edges of all nodes `v` stood for have to become edges of `u`, though
  `irc_combine_nodes` only walks the list of `v`. They do, because by then that list has
  them.
- *Colouring.* With no worklist left, every node that stands for itself is on the stack.
  Taken off in any order, each gets a colour none of its coloured neighbours has, and an
  alias that of the node it stands for (`ColorsApart`).
- *Spilling.* What a rewriting makes of the function is `WellFormed` again
  (`RewritingKeepsForm`), so that the next turn starts where the first did.

`AllocationStepsCount` is `Spec => EveryStepCounts`: reducing a graph comes to an end. That is
not plain, because refreshing a degree moves nodes back from `spill` to the other worklists
and enables copies again, and the lists keep stale entries. The measure has six numbers: nodes
left, copies not settled, copies to try, nodes to spill, nodes to freeze, entries of the lists.
All but coalescing and the push make a `Later` graph, and in that no node is left that was not
before and no settled copy is open again (`LaterShrunk`); for this the invariant also has
`Tidy`, that pushed and coalesced nodes keep their states. What is left to show is small: a
step that pushes no node and settles no copy has tried one or, with none to try, has
frozen a node without enabling any (`FreezeMovesFreed`) or dropped stale entries.

`AllocationCoalescesSafely` is `Spec => CoalescingSafe`: trying a copy never makes a graph that
could be taken apart one that cannot, so no node is spilled for the sake of a copy. Briggs and
George proved this of their tests for a graph given as such; here the tests read what the
allocator stores of it, adjacency lists whose entries go stale and degrees that are computed
anew only now and then. The argument is in three parts.

- *What is stored.* The invariant also has `Even`, that two nodes that stand for themselves are
  in each other's lists, the registers always being neighbours with a degree above all others,
  and `Rated`, that no degree is below the number of neighbours. A degree may be too high, which
  costs only a copy. Both hold of the graph that is built (`GraphEven`). A step that pushes a
  node takes neighbours away; most others leave edges and degrees alone (`Still`) or compute a
  degree anew (`Steady`). Coalescing `v` into `u` gives `u` more neighbours, and computes its
  degree; each other node has no more than before, as it loses `v` where it gets `u`
  (`CombinedFewer`, `CombineEven`).
- *What is stuck.* A set of nodes is stuck if each has `K` or more neighbours among the set and
  the registers. What `Core` leaves is the greatest stuck set (`CoreStuck`), so it does not
  matter in which order nodes are taken away. `Core` is a recursive function over subsets: that
  there is one is proved as well (`PeelingExists`).
- *The tests.* A set that is stuck once `v` is `u` was stuck before (`CombinedStuck`). Its nodes
  other than `u` had a degree of `K` or more, because they have that many neighbours now. If `u`
  is one of its nodes, it has `K` neighbours of that kind, which were neighbours of `u` or of
  `v`: the test of Briggs found fewer. If `u` is a register, a node with a neighbour more
  had `v` for one, and a degree for which the test of George asked that it had `u` too.

The proof needs `K` to be less than the degree of the registers, hence that the arrays of
registers list none twice.

Loops are folds, and a fold takes an operator, which a lemma cannot. So for each loop a lemma
says that there is a sequence of states, one per turn, that ends in what the fold gives
(`BuildUnfolds`, `EnabledUnfolds`, ...), and the induction is over that sequence.

`SmallestSet` and `MinOfNaturals`, in the modules that use them, say that a family of subsets of
a finite set has a smallest one, and a set of natural numbers a least element, from the
well-foundedness of inclusion on finite sets. Descriptors and addresses are given lowest first;
`PowersApart` and the lemmas on `Capacity` are inductions by these two: a smallest
counterexample could be made smaller.

Only model-checked, and why:

- liveness (`LoopTerminates`, `Terminates`, `Returns`, `WaitReturns`) needs `ENABLED`, which
  the provers do not handle;
- the passes of `Pipeline` and `CfgOpt` are recursive operators and folds over
  code, and their properties run a function; neither recursive operators nor
  induction over data are in reach.

## 5. What the runs show about the code

Two runs are violations, each confirmed by compiling and running a program:

1. `spawn_report`: in a process whose standard streams are closed, the child's dup2
   replaces the end of `err_pipe` it would report on, and a program that could not be
   executed counts as started.
2. `arena_rollback`: `ArenaTemp.end` sets the offset to zero and then asks the policy to
   restore a larger one, which it refuses; what was allocated before the checkpoint
   is handed out again. With a restore that sets the offset, `SlicesSound` holds on the same
   instance.

Two properties of the run `command` contradict what `process.kl:364` says of `deinit`,
"Releases every owned buffer; safe to call more than once.", and are equivalences, so that the
run shows the code doing the one thing and no other. They are findings too, and are
proved for all parameters:

3. `DoubleFreeOnlyByDeinit`: `deinit` leaves `cwd` and the redirections' paths in place; called
   again, it releases them again (`process.kl:370`), if any is set and not empty.
4. `LeaksOnlyEmptyPaths`: an empty working directory or path is allocated and never released
   (`process.kl:508`, 370, 724); that memory is all `deinit` leaves.

The bootstrap compiler documents no behaviour of its passes to compare with, so what goes
wrong in them is on record in `flawed`, and `BehaviourPreserved` and `LoweringFaithful` speak
of everything else. Each entry was seen in a compiled program or in its listing:

| In `flawed` | Where | What happens |
|---|---|---|
| `defers run twice` | `ir_lower.c:344` | a `break` of a switch in a loop runs what the loop's body has deferred, and the end of the body runs it again |
| `conditional defer` | `ir_lower.c:310` | a `defer` that is the arm of an `if` runs whether the arm is taken or not |
| `target evaluated twice` | `ir_lower.c:2095` | a compound assignment evaluates a target with calls in it twice |
| `assignment widens without extension` | `ir_lower.c:2053` | a narrow value is stored in a wider place as it is |
| `crash` | `ir_lower.c`, `regalloc.c:1811` | a call behind a `return` is a null pointer; ten computed arguments and no register is left: the allocator aborts |
| `split field used as part of a whole` | `sroa.c:195` | a field gets a slot of its own although the whole is passed on |
| `PHIs of two blocks taken for one` | `gvn.c:1119` | the key of a PHI has its operands and not its block |
| `conversion forgotten` | `gvn.c:1531` | a value that was converted on the way stands for the one it was made of |
| `store through a pointer forgotten` | `gvn.c:1241` | what a slot or global is known to hold outlives a store through a pointer |
| `narrow value read wide` | `ir_opt.c`, `mem2reg.c` | a register is read with more bytes than it was written with |
| `global read before its loop` | `licm.c:379` | globals are loop-invariant even if the loop writes them |
| `frame given up while its address is passed on` | `ir_opt.c:42` | a tail call with a pointer into the frame that comes from a PHI or a load |
| `register of a parameter taken before it is stored` | `regalloc.c:732` | a parameter kept in memory does not hold its register |
| `value cut to its lower part in place` | `regalloc.c:721` | a truncating copy shares a register with its source, which is still read |
| `result moved although it is read again` | `peephole.c:745` | `op r; mov s, r` becomes `op s`, and `r` is read in another block |
| `address folded from narrower arithmetic` | `peephole.c:299` | a sum of four bytes becomes an address of eight: `b[k]` faults for a negative `k` |
| `narrow operand read in full` | `codegen.c:515` | `lea` reads all of a register of which four bytes count |
| `value changed in memory is not in its register` | `codegen.c:968` | load, operation and store become one instruction, and another block reads the register |
| `flag of a branch is not in its register` | `codegen.c:1119` | comparison and branch become one, and the flag is read again |

Others came up while modelling and have no run of their own:

- In the selfhost `cfg_opt`, `try_fold_select_merge` looks at the second of an arm's two
  instructions only, and removes the arm with whatever the first one did:
  `if (c) { *p = 5; v = 1; } else { v = 0; }` loses the store (`cfg_opt.kl:639`); and
  `fold_selects` turns the branch of a block into a fall-through after a merge has moved
  that block away (`cfg_opt.kl:731`); and the other way round, `merge_into` moves a block whose
  branch an earlier fold made a fall-through (`cfg_opt.kl:403`). `misfolded` records the three.
- In the selfhost `out_of_ssa`, copies for an edge that comes from a jump-table switch are
  put behind the switch and never run. Two jump-table switches can have one default
  block, whose label is then defined twice (`codegen/inst.kl:1874`).
- With the parent's standard streams closed, a stream's file may be opened under the
  very number it is for and is closed again (`process.kl:1335`), and a pipe end that
  already has its number keeps O_CLOEXEC and is gone after exec (`process.kl:1283`).
- `output` closes a descriptor that its drain has closed already (`process.kl:1465`, 601).
- With SIGCHLD ignored, `wait` fails and keeps the pid, which `kill` then signals
  although another process may have it (`process.kl:224`): that is why the
  property is `SignalsOnlyTheChildUnlessAutoReap`.
- The selfhost `cfg_opt` merges one pair of blocks in a round and has 16 rounds (`cfg_opt.kl:444`, 896):
  a chain of 18 blocks laid out backwards is left half done by one pass, and
  a chain that needs more than 8 passes by the whole pipeline. The code that is left is correct, and slower.
- An arena request whose alignment is no power of two fails only after a chunk was taken
  for it (`arena.kl:109`).

## 6. What is not modelled, and the plan

Not modelled:

- lexer, parser and type checker of both compilers, module loading and generics: recursion
  over unbounded text and trees that tests reach well. `Programs` has trees as the
  type checker leaves them.
- Of the language: slices, tuples, literals of structs and arrays, results that are structs,
  variadic procedures, indirect calls, strings, initialised globals, inline assembly. Of code
  generation besides: parameters that arrive on the stack, sections and data, and the
  count of vector registers a variadic callee is told.
- The phases of the selfhost compiler that repeat those of the bootstrap compiler; what
  was found in the one has to be looked for in the other.
- Formatting, strings, paths and containers; spawning from several threads, as the library
  has none.
- Within the modelled parts: source locations, names, and the contents of bytes where no
  property is about them.

Proofs planned: the lemmas on blocks, successors and PHIs that `PhiInputsKnown` of `CfgOpt` would
need, once the operators of `IR` that run a function are kept apart from those that
describe one.
