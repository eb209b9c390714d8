# A verification of wasm2go

wasm2go compiles a WebAssembly module ahead of time to Go source (and, for hot
functions, Go assembly). Two halves can go wrong in ways tests hardly reach.
The *runtime* it emits is concurrent: goroutines that share one linear memory,
a parking lot for `memory.atomic.wait`, atomic helpers with a fast path, a
memory that grows under a host goroutine, a WASI host with a descriptor table
and an in-memory file system, copy-on-write memory images. The *compiler* is a
chain of rewritings, each of which must keep what a function does on every
input: lowering with inlining, twelve passes, loop outlining, two emitters of Go and
an assembler for amd64 and arm64.
Below both lie the *helpers*, functions that must mean exactly what
WebAssembly says an instruction means.

Paths below are relative to `src/internal/codegen/` unless they start with
`src/`.

## Inventory

| component | state | operations | who it interacts with | hard behaviour | what makes it correct |
|---|---|---|---|---|---|
| threads runtime (`helpers/helpers.go`: `threadPool`, `atomicWait`, `wake`, `threadLaunch`, `spinAgentsAdd`, `ThreadsWait`) | `nextTID`, `wg`, `parkMu`, `parked`, one channel per wait, the spin gauge and its flag | wait, notify, launch, exit, trap, join | guest code, Go scheduler and timers, the host that calls `ThreadsWait` | compare and park against store and notify; timeout against notify; traps that unwind; agents that launch agents | no wakeup lost, queues exact and first-in first-out, join only at quiescence, every wait with a reason to end ends |
| atomic helpers (`helpers.go`: `atomicRmw*`, `atomicSubword32`, `atomicCmpxchgSubword`) | the word, `nextTID` (read only) | load, add, exchange, logic, compare-exchange on a word or a lane | threads runtime (0 → 1 agents) | the switch from plain to locked accesses; neighbours of a lane | linearizable; the fast path is never concurrent |
| linear memory (`helpers.go`: `memoryGrow`, `accessMemory`, `atomicEA`; `translate.go`: `New`) | `memory` (slice), `M` (cached pointer), `memSize`, `maxMem`, `memMu`, `memShared` | access, grow, host access, WASI slice | every generated function, the WASI host, host goroutines | grow against access in three forms; relocation; two notions of length | sizes agree, accesses stay inside, exposed pages are zero, linearizable, grow returns |
| WASI descriptors (`wasip1_native.go`: `fdTable`, `wasiOpen`) | table, `nextFD`, per entry `f`, `conn`, `refs` | open, pipe, socket, dup, dup2, renumber, close, connect | host files and sockets; all guest threads | work outside the lock between two critical sections; shared entries | a handle lives exactly as long as an fd names it |
| in-memory file system (`wasip1_native.go`: `MemFS`, `memFile`, `readDirCached`) | tree of nodes, open files with offsets, directory snapshots | open, read, write, seek, truncate, list, rename, remove, `WriteFile` | WASI descriptors, the embedder | removal and renaming under open handles; truncation that leaves bytes behind; listings page by page | open files behave as handles on byte sequences; nothing is lost but what a call names |
| shared image (`sharedimage/*.go.txt`) | the image file, its size, the mappings | build (copied or in place), `Memory`, `UnmapMemory` | linear memory of each instance, the OS page cache | `Stat` then `Truncate` without a lock; private and shared mappings of one file | mappings are backed, instances are isolated, nothing above the kept part |
| lowering (`src/internal/lower`) | SSA under construction, control frames, the operand stack | one case per opcode; inlining | SSA | phis at merges and loop headers, dead code, a callee inside its caller's frames | the function means what its body means |
| SSA and its passes (`src/internal/ssa`) | functions, blocks, values | build, verify, rewrite, outline | lowering, emitters | forwarding across memory effects, merged bounds checks, edges that go away, loops that become functions | well-formed, meaning kept, the fixpoint ends |
| Go emitter (`emit_ssa.go`, `emit_structured.go`, `src/internal/emit/hoist.go`) | what has a variable, what is staged; the statement tree | goto form, structured form | the Go toolchain | phi copies of one edge, a data pointer kept in a local, breaks from inside a switch | the statements do what the SSA function does |
| assembler (`src/internal/asmgen`, `src/internal/regalloc`) | the frame, the home of each value, the text | plan slots and registers, emit, five text passes | the Go assembler, generated Go | slots and registers handed on, registers that carry a loop's phi, copies dropped on what a linear scan knows | the instructions do what the function does |
| numeric and SIMD helpers (`helpers/*.go`) | a memory for the accesses and bulk instructions | one per instruction | emitted code | edges of conversions, lanes, addresses that wrap | each means its instruction |
| exception analysis (`src/internal/lower/eh.go`), transformed compiler output (`src/internal/gcasm`), WASI processes, wasm parser, command line | see `PROJECT.json` | | | | not modelled (see *Not modelled*) |

Plain guest loads and stores are deliberately unchecked in generated Go
(`emit_memops.go`: "We deliberately drop the runtime bounds check"); the checked
accesses modelled in `LinearMemory` are the ones that do check.

## Modules

| module | models | checked by |
|---|---|---|
| `ThreadPool` | the threads runtime | `MCThreadPool` |
| `ThreadPoolProofs` | theorems about it | tlapm |
| `AtomicOps` | the arithmetic of the atomic helpers | (extended by the next two) |
| `AtomicMemory` | *abstract*: an atomic cell | |
| `AtomicRmw` | the atomic helpers, step by step | `MCAtomicRmw` |
| `AtomicRmwProofs` | theorems about them | tlapm |
| `WasmMemory` | *abstract*: a linearizable memory that grows by zero pages | |
| `LinearMemory` | grow, checked access, WASI slice, host access | `MCLinearMemory` |
| `LinearMemoryProofs` | theorems about it | tlapm |
| `WasiFd` | the descriptor table | `MCWasiFd` |
| `WasiFdProofs` | theorems about it | tlapm |
| `FileStore` | *abstract*: handles on byte sequences and a name space | |
| `MemFS` | the tree, open files, directory snapshots | `MCMemFS` |
| `MemFSProofs` | theorems about it: the tree, listings, the store | tlapm |
| `SharedImage` | building and mapping memory images | `MCSharedImage` |
| `SharedImageProofs` | theorems about it | tlapm |
| `Wasm` | the machine instructions run on: words, bytes, memory, traps; *reference*: what a structured body does on it | |
| `Ssa` | functions, blocks, values; what they do; the verifier; dominators; what gets a variable (`hoist.go`, staged phis) | |
| `Lower` | lowering and inlining, an instruction a step | `Compiler` |
| `Passes` | the passes of the fixpoint and the late ones | `Compiler` |
| `Outline` | loop outlining | `Compiler` |
| `Structure`, `Execute` | the structured statement tree; both emitted forms run | `Compiler` |
| `Allocation` | liveness, interference and first fit: the slots of values that are never live together; *what it may assume* of a function | `Compiler` |
| `Frame` | those slots as the assembled function runs, along every path | `Compiler` |
| `AllocationProofs` | theorems about both | tlapm |
| `AsmPlan` | which functions are assembled; slots, registers, the split of critical edges, the frame | |
| `AsmEmit` | the amd64 instructions of each value and block; the five passes over the text | |
| `AsmRun` | the machine that runs the instructions | `Compiler` |
| `Compiler` | the pipeline: a program is lowered, rewritten, outlined, emitted, assembled | `MCCompiler` |
| `Numbers`, `WasmNumbers` | small integers and floats; *reference*: WebAssembly's numeric operations | |
| `Scalars`, `Lanes` | the numeric helpers; the lane helpers, addresses and accesses | `Helpers` |
| `ScalarProofs` | theorems about the scalar helpers | tlapm |
| `MachineCode` | the numeric and memory instructions, their lowering, the Go, amd64 and arm64 code written for them, and a processor that runs it; *reference*: what they mean | `Helpers` |
| `WasmInstance` | *abstract*: an instance with a memory and a data segment | |
| `Helpers` | calls of all of them | `MCHelpers` |

A definition marked "Mutant" stands before the definition it changes: a plausible mistake in
the code, one for every property, under which TLC must find that property violated. No specification uses them.

### ThreadPool

Every goroutine has a label `pc` and one operand record `frame`. One action is one step that
other goroutines can observe.

* `atomicWait`: `WaitCall`, `LockPark`, `CompareDiffers` or `CompareEqual`,
  `Park`, then `CheckAlone` (infinite) or the select: `Receive`,
  `SelectTimeout` + `Unpark`, `UnparkTrap`. The compare is a step of its own
  under `parkMu`, because it reads memory that `parkMu` does not protect. A
  channel has one receiver, so it is named by its thread; `closed` holds the
  threads whose channel is closed.
* `wake` is one critical section (`Wake`). A guest either stores and then notifies
  all (`StoreThenNotify`, then `Wake`; the futex protocol of wasi-libc), or notifies without
  having stored (`NotifyCall`, any count).
* `threadLaunch`: `LaunchTID`, `LaunchWgAdd`, `SpinAdd`, `SpinStore`,
  `LaunchGo`. The end of an agent runs the deferred calls in their order:
  `SpinAdd`, `SpinStore`, `WgDone`, and `Crash` for a panic, after which nothing moves.
* `HostJoins` and `ThreadsWait` are the host's.

The memory is shared (`atomicWait` on another memory returns at once). Fairness: the Go scheduler runs a goroutine that stays runnable
(weak, `RuntimeStep`); `sync.Mutex` hands the lock to a starving waiter
(strong, `LockStep`); a timer fires (weak, `SelectTimeout`). Nothing makes the
guest act: `GuestStep` has no fairness.

### AtomicRmw

The word is a number whose base-`Base` digits are its lanes; `SetLane` does what the shifts and masks
do. A helper asks once whether agents exist (`AskContended`), then either
loads and stores plainly or swaps in a loop; `IsLocked` operations are one instruction; `OnlyReads` ones
return after the load. Full-width loads, the `rmw32_u` forms and lane
compare-exchange never ask (`fast` is FALSE for them). `Abstract` maps the cell
to `word` and the pending operation to `op`: the plain store, the locked
instruction, the successful swap and the load that settles a miss are the
instants of effect.

### LinearMemory

The unit is a page that holds one value; `heap` keeps every backing array ever allocated,
so that an access through a stale pointer would hit a stale array. `base`, `len`, `cap` are the slice header, `M` the
cached pointer. `memoryGrow` is one critical section, split at the copy (`GrowCopy`, `GrowPublish`). A checked access is
split between check and access (`CheckPasses`, `Deref`), a WASI call likewise
(`MemSlice`, `WasiWrites`). In a memory that is not shared only `Main` runs the guest, as in the program; hosts
run in both. Bulk operations (`memory.fill`, `copy`, `init`) are accesses to one page: their check is the same comparison.

Discipline of the callers, stated in `Call`: a host keeps to the part of the memory the guest has
given it; with `TailPointers = FALSE` the guest passes WASI no pointer into the
reserved tail of a shared memory, above `memory.size` and below the ceiling.
With it TRUE `TailIsZero` fails: `memSlice` (`wasip1_native.go:1189`) compares with `len(m.memory)`, which
in a shared memory is the ceiling, where `memory.size` is meant, so a WASI call writes pages a later grow exposes.

### WasiFd

`table`, `nextFD` and entries with `refs` are the Go fields; `open` holds the OS handles that are open; `task` is the
call a thread has in flight between two critical sections (`pathOpen` between
the open and the registration; `Sock_connect` between lookup, test, dial and
attach). Everything under one hold of `w.mu` is one action. `Settle` stands for the garbage collector: an entry nothing
references may be reused. Dup's bare stdio aliases are entries without a handle. `Sock_accept` is left out: it needs a `listener`, and nothing in
the repository creates one.

Discipline: with `AnyTarget = FALSE` the guest names as the second fd of
dup2 and renumber only a number that has been handed out (with TRUE, run `last_fd_closes_file`, and `FreshFdIsFree` fails as well); with
`SharedDial = FALSE` two threads do not connect the same socket at a time (with TRUE the second attach overwrites the first
connection, which stays open without an owner).

### MemFS

The tree of nodes, the open files with their offsets and flags, and the directory snapshot a descriptor entry keeps
(`readDirCached`). A node is reused once nothing reaches it (`Settle`, the garbage collector), a buffer holds one byte, names are
numbers and paths sequences of them, with `.` and `..`. `Movers` open, close, rename and remove; `Users` read, write,
seek, truncate and list; the `Host` calls `MkdirAll` and then `WriteFile`, two steps. `Path_remove_directory` and
`Path_unlink_file` are the two critical sections they are. Modes and times are left out; a refused call is a stutter.

`FileStore` is what the guest may rely on: a file is a sequence of bytes, a handle a file and a position, every access one
step. `ImplementsFileStore` maps the arrays with their lengths and stale bytes to those sequences. `NothingLost` says that a
file disappears from the tree only by a step that names it. Constants that keep known differences out of the passing
run: `Careless` (a directory renamed into its own subtree, or something renamed or written over a directory that is not empty,
`wasip1_native.go:315-334`, drops what is below), `Rewinds` (run `rewind_lists_again`). Other differences seen while
modelling, none of them in a run: `O_APPEND` seeks once at open (277-279); a snapshot page shows names that are gone;
two threads that list one fd race on `dirCache` and `dirOff`; a negative seek is accepted and panics in the next read; a
directory's node accepts writes; `Fd_allocate` truncates a longer file (1996).

### SharedImage

The file system is modelled as the operating system specifies it: truncation drops pages, also private copies above the new
end; a page of a mapping above the end of the file faults (`InstanceWrites` is
guarded by it). `Publish` stands for what both builders leave in the file; nothing of it is visible earlier. `Memory` is split
where `mmapImage` makes its three system calls.

Discipline: with `OneCeiling = TRUE` calls of `Memory` that overlap in time ask for the
same length; calls that do not overlap ask for any. With FALSE `MappedIsBacked` fails: one call truncates on a size it read
before the other extended the file (`sharedimage_mmap.go.txt:27`).

### The compiler

Data are scaled: a word has `Byte * Byte` values, a vector two words, a page four bytes; an i64 is two words. A value is
`[op, type, aux, name, args]`, an edge `[to, at]` names the place of the argument in the target's phis, block 1 is the
entry. `Wasm` runs the body as the specification says and is the only reference; `Ssa` runs a function; `Execute` runs the
statements an emitter prints. A run ends with a status (`run` is out of fuel, `trap`, `wild` for an unchecked access outside the
memory, or the results), the memory and a log of calls; nothing is compared where the reference is wild, since plain accesses are unchecked
by design, or out of fuel. An array that has moved (`array`) makes an access through a data pointer kept in a local from before
visible.

`Compiler` takes a program from a family (`MCCompiler`: straight-line code, read-backs, conditionals, masks, loops, blocks,
tables, vectors, sizes, nests, extracts, payloads, callings, crowds, carries), lowers it an instruction at a time with `Lower` (inlining begins
and ends as steps of the same lowering), applies the passes of `Passes` one by one up to the fixpoint, the late passes, and
outlines. `MeaningKept` compares after every pass; `EmittedMeaning` compares both emitted forms; `Verified` is the verifier on the
result and on every outlined function; `FixpointBeforeCap` that the last round of the fixpoint changed nothing.

The assembler takes the functions it accepts (`AsmPlan`): each value gets a slot of the frame or, where a linear scan allows, a register; a
register may carry a loop's phi. Then, in a function without vectors, every critical edge gets an empty block of its own at the end of the function
(`SplitCriticalEdges`, the first thing `Allocate` does): phi copies of such an edge are emitted there, and a `br_table` whose labels carry values
can be assembled, because what it goes to has no phis any more (`Assembles` asks after the split, as `emitBlock` does). Slots whose ranges are disjoint are shared; the frame is compacted at the end. `AsmEmit` gives the instructions of each value, with
fused comparisons, constants folded into operands and phi copies on the edges; then the passes that drop dead stores, forward
slots, track mirrors of slots in registers, delete unused code and thread jumps. `AsmRun` runs them as the machine does: registers and slots begin
undefined, a result that depends on an undefined value is never equal to anything, addresses do not wrap to 32 bits unless an instruction does it, a call keeps no register
and may overwrite the argument area. Register pools are scaled (`ScanRegs`, `CarryRegs`), so that a handful of values already fills them; registers that become
free come back in the order of the values, where the code walks a map. `AssembledMeaning` compares the assembled function with the reference;
constant address offsets beyond the memory are left to the run `folded_address`.

After the text the frame is run once more, for itself (`DoAssemble`, `DoExecute`, `DoJump`, module `Frame`): not with numbers but along every
path, also those no input takes. `held` is the set of values whose slot still holds them; a value is written to its slot and takes from `held` whatever
shares bytes with it, and `ReadsHeld` says that nothing is read from a slot that is not held. Here the layout is the one `AllocateSlots` makes,
for functions without vectors; where it is no smaller than the first layout the compiler keeps that one (`ApplyNewStackalloc`), which only `AssembledMeaning` covers.
`Verified` also says of every function that is assembled that it is still well-formed when its edges are split, and that the allocator was given what the proof of `ReadsHeld` assumes (`HandedOver`, see *Proofs*).

The families leave out what the code is known to get wrong: `memory.size` across a `memory.grow` merged by CSE (run `memory_size`), moved by
`ComputeHoist` (`src/internal/emit/hoist.go:208-225` omits it from the loads) or rematerialised by outlining
(`src/internal/ssa/outline.go:520-535`); forwarding across a `v128.store` (`src/internal/ssa/pass/memopt.go:311-320`); coalesced bounds of addresses that
wrap (`src/internal/ssa/pass/simdbounds.go:151-189`); in the assembler a carried register that another value reads after the next one is computed
(`src/internal/asmgen/regalloc_coalesce.go:203-211` says that this value must be the phi's only user, the code only counts the phi's users), or that is read after a call behind the loop, against
`src/internal/asmgen/regalloc.go:36-44` ("any reg-resident value whose lifetime crosses a CALL would be clobbered"), a binary operation whose second operand lies in
the destination (`emit_archs.go:802`), the operands of a fused comparison, read at the branch (`emit_archs.go:51-79`) after their slot was given back or a call took their register, and a vector call
dropped as free of effects (`asmgen.go:3398` omits `OpSimdMemCall`); a `br` to the function's own label, which lowering rejects. `LateReads` in `MCCompiler` has a function whose carried register is
read after a call and one whose fused comparison is: in place of `MCPrograms` in `MCCompiler.cfg`, TLC finds `AssembledMeaning` violated. Left out as well:
exception handling, the outlining that packs its results into one word, SIMD unrolling, the half-float idioms; opcodes that only differ in their operator and memory64 are the subject of `MachineCode`.

### Helpers

`Scalars` and `Lanes` translate the helpers; `WasmNumbers` and `WasmInstance` say what WebAssembly asks. Widths are scaled:
a byte has 4 bits, a vector 8 byte lanes (so that shuffle and swizzle indices reach the first vector, the second and neither),
an f32 8 bits and an f64 16 bits with 4 of exponent; the rules of rounding, saturation and trapping do not depend on the widths. A trap is a
one-element negative sequence. Numeric calls and single accesses are made in the initial state; bulk instructions up to `MaxCalls` in a row.
Addresses lie at the ends of the memory, of the segment and of the 32- and 64-bit (`WideMod`) number ranges; the array is longer than the memory,
and every call is compared on all of it. `Atomic` is every atomic helper of both memories as one agent calls it, on the plain path and on the locked one:
bounds, alignment, lanes, what an i64 form extends (`AtomicRmw` has the interleavings). `mload`, `mstore` and `mcopy` are the accessors the
emitter inlines today; they remain in the helper file with their tests.

`MachineCode` takes every scalar instruction, load, store, conditional branch and `br_table` through the lowering and the three
back ends: Go expressions, amd64, arm64. `AsmEmit` has the same emitter on values without width, for whole functions; here one instruction is emitted for operands in a
register, in the frame or constant, and run bit by bit on a processor with flags, partial registers, sign and zero extension, traps and calls in Go's
stack layout. Numbers have bytes of two bits (an i32 has 8 bits, an i64 16); the conversions between integers and floats have a second instance with bytes of one bit,
where i32, i64 and the mantissas of f32 and f64 are in the order of the real ones. What a register or slot holds beside an operand is zeros or ones
(`rest`): code that reads the upper half of a 32-bit value is seen. A helper whose call has no frame must have an inline form on both targets (`NoInline`).
Rounded float arithmetic (`IEEE`) is a parameter: Go and both processors follow the same standard, so what is compared is which operation is applied to what.

With `Exceptional = FALSE` the calls known to differ from WebAssembly are left out: empty ranges out of bounds,
on which the bulk helpers return at once where WebAssembly traps (`helpers.go:1195`), `f32_copysign` of a signalling NaN
(`helpers.go:395-397` converts through float64), `simd_m64_v128_load_rng` near 2^64. On amd64 also: the minimum and maximum of zeros of different signs
(`MINSS` delivers the second operand, `emit_archs.go:2039`), `i32.trunc_sat` and `i64.trunc_sat` of NaN and numbers out of range, inlined as the bare `CVTTSS2SL`
(`emit_archs.go:2017-2024`, 2075), and a constant address from 2^31 on, which becomes a negative displacement (`emit_archs.go:981`). Left out: f16, the
pair forms, the assembly twins.

## Runs

| run | question | bounds | result |
|---|---|---|---|
| `thread_pool` | all invariants and liveness of the runtime | main + 2 agents, 1 cell, 2 values, notify 1 or all, GOMAXPROCS 2 | holds |
| `atomic_rmw` | atomic helpers implement an atomic cell | main + 1 agent, 2 one-bit lanes, 9 operations of every shape | holds, 60 123 states |
| `linear_memory` | memory implements `WasmMemory`; grow returns | 2 agents + 1 host; 1 page, capacity 2, ceiling 3; 8 operations | holds, 37 742 states |
| `wasi_fd` | handles, references and fresh descriptors | 2 threads, 3 entries, 2 files, 2 connections, fds up to 6 | holds, 140 747 states |
| `mem_fs` | the tree, listings, files as byte sequences | 1 mover, 1 user, 1 host; files of 1 byte, buffers of 1 | holds, 181 090 states |
| `shared_image` | backing, isolation, trimmed images | 2 callers, image of 2 pages, mappings of 3 and 4 | holds, 556 048 states |
| `compiler` | every step keeps meaning, on both emitted forms and in assembly; slots read are held | about 5 200 programs of 15 families, 5 inputs each, fuel 40 | holds, 252 249 states |
| `helpers` | every helper means its instruction, and so does the code of each back end | operands at their edges, 5 places for operands and result, 3 targets, 2 bulk calls in a row | holds, 209 338 states |
| `last_fd_closes_file` | `AnyTarget = TRUE` | as `wasi_fd` | violated |
| `memory_size` | CSE across a grow | one function with two sizes | violated |
| `rewind_lists_again` | `Rewinds = TRUE` | as `mem_fs` | violated |
| `folded_address` | a large constant added to an address, assembled | loads at an address plus a constant near 2^32 | violated |

Why the bounds are enough:

* `thread_pool`: a race needs a waiter, a notifier and a third thread that queues,
  stores or spawns; all three thread roles are taken by all threads, and one agent can launch the other. Two
  values make a cell differ or not. GOMAXPROCS 2 puts the flag's threshold inside the range of the gauge.
  Deadlock is not checked: the program ends (joined, crashed).
* `atomic_rmw`: a lost update needs two threads, a torn lane two lanes. The launch of
  the agent is inside the run, at any point of the main thread's work.
* `linear_memory`: one reslice and one reallocation are both reachable (capacity 2 of a limit of 3), and a shared
  memory can fill its reservation.
* `wasi_fd`: the first dynamic fd is 4, so three are handed out; fd 1 stands for stdio.
  Entries, handles and threads are interchangeable and declared symmetric. The run stops handing out at `MaxFD`, so deadlock is
  not checked.
* `mem_fs`: a shrink, a growth and a second handle on the same node fit in files of one byte; two names in a directory make a listing of two pages.
* `shared_image`: two lengths beyond the image suffice for one call to extend what
  another is about to truncate. The two callers are symmetric. `MaxLength` bounds the image file.
* `compiler`: each family exercises one mechanism with every small variation of its operands and nesting; inputs are zero, one, the
  largest word and values on either side of the memory's end. Fuel 40 is more than any program of the families needs outside an endless loop.
* `helpers`: operands are the edges of every conversion and lane (zero, ones, signs, NaNs, infinities, the first number beyond each range).

The violated runs are disagreements between the code and what it or its comments say:

1. **dup2/renumber beyond `nextFD`.** The table is extended but `nextFD`
   stays; the next open reuses the number and overwrites a live slot. The
   repository's own test uses such a target (`wasip1_fdio_test.go:253`).
2. **CSE merges `memory.size`.** `cseEligible` calls it pure, though a grow between two of them changes the second.
3. **A rewound directory lists less.** `memFile.Seek` leaves `dirOff`.
4. **A folded address does not wrap.** `FoldMemAddend` moves a constant addend into the offset because 32-bit addition wraps either way; `emitMemAddrAMD64` puts the
   offset into a 64-bit addressing mode, which does not.

Seen while modelling the threads runtime and kept out of the runs because they
follow from one comment each: a waiter whose timer fires before it takes `parkMu` again can be counted by
`atomicNotify` and still return a timeout, and an infinite wait of the last agent alive hangs, because `nextTID` never goes down
although the comment says it traps (`helpers.go:2008-2010`; `TrapsOnlyInDeadlock` is the half that holds: who traps could not have been woken).

## Proofs

tlapm proves, for every value of the constants the modules' assumptions allow:

* `ThreadPoolProofs` (from `ThreadPoolAssumption`: the main thread is no agent, agents are finitely many, 0 is an
  address and a value): all seven invariants the run checks, `ParkMuHeld` and `NoOvertaking`.
* `AtomicRmwProofs` (from `AtomicOpsAssumption` and `AtomicRmwAssumption`: the base
  is at least 2, powers of it are positive naturals, operations are operation records): the types, `FastPathIsRaceFree` and
  `Refinement`, that is `Spec => ImplementsAtomicMemory`.
* `LinearMemoryProofs`: the types, `SliceIsExact`, `ChecksHold` without a condition; `TailStaysZero` and `MemoryRefinement` under `~TailPointers`.
* `WasiFdProofs`: the types and `LiveHandlesOpen` without a condition; `RefsCountSlots` and `FreshFdIsFree` under `~AnyTarget`; `HandlesOwned` also needs `~SharedDial`.
* `SharedImageProofs`: the types and `NothingAboveKept`; `MappedPagesBacked` and `InstancesArePrivate` under `OneCeiling`.
* `MemFSProofs` (from `MemFSAssumption`: names are positive numbers, there is room for one node, one byte and one buffer, nil is
  no other value, the embedder no thread): the invariant `TreeInvariant` and `Refinement`, that is `Spec => ImplementsFileStore`, without a condition; `Trees` and
  `NothingIsLost` under `~Careless`; `ListingsAreWhole` under `~Rewinds`.
* `AllocationProofs`: `LivenessReached`, the passes over the blocks, cut off after as many as there are blocks and four, end with a solution of the
  liveness equations; `SlotsApart`, slots are aligned and inside the frame, are shared whole or not at all, and never by values that interfere;
  `SlotsHold`, that is `Spec => []ReadsHeld` of module `Frame`. All three are about functions of any size and shape; `SlotsHold` assumes `HandedOver` of the function.
* `ScalarProofs` (from `NumbersAssumption`: bytes and exponents have bits): every scalar helper of `Scalars` that the run `helpers` calls, on all operands of every width, is what `WasmNumbers` says:
  `DivisionMeansWasm`, `ShiftsMeanWasm`, `TruncationMeansWasm`, `ExtremesMeanWasm`, `ComparisonsAndSignsMeanWasm` (`ExtendS` is the reference itself). A float has a mantissa; a
  conversion assumes that its exponents reach the integer type (`Bits(i) <= 2^(ExpBits - 1)`: 64 and 128 for f32), and for the bounds of `i32.trunc_f32_s`, `i64.trunc_f32_s`
  and `i64.trunc_f64_s` that the mantissa is shorter than the integer. With `ByteBits = 8` these are the real f32 (`ExpBits = 8`) and f64 (11).

The conditions are those of the passing runs, and none can be dropped: with the constant the other way and the rest of
the run's bounds as they are, TLC finds each of these properties violated (`Careless`, `TailPointers`, `SharedDial` and `OneCeiling` have no
run of their own, for they follow from what *Modules* says of them; change the constant in the run's configuration to see it).

The argument for the threads runtime is the inductive invariant `IInv`: the
types, `ParkInv` (the mutex, the queues and `NoLostWakeup` together) and
`LaunchOwned`. The three parts of `ParkInv` need each other: a thread that is
about to park has not compared wrongly because it holds the mutex; a `Wake`
releases whoever it must because the queue holds exactly the unwoken waiters.
`LaunchOwned` says that the agent a launching thread is about to start belongs
to it alone and has not moved, so the go statement cannot pull a thread out of
a wait. `QuietStep` shows once that a step outside the parking lot preserves
`ParkInv`; each action of the parking lot has a lemma of its own. Queues are
handled by two lemmas, on removing an element of, and on splitting a prefix
off, a sequence without repetitions. `TrapsAreDeadlocks` has a small invariant of
its own: until the first TID is taken no agent has been launched, and a thread about to trap is the main thread at such a time (`LoneTrap`), so nobody is able to notify. The counters need another: `RolesInv` ties the agents a step may be
about to the labels of those that launch them, and the sets counted by `wg` and the gauge gain or lose one element in each step that changes the counter.

For the atomics, `IInv` says that until the first TID is taken the main thread is alone, that a thread has an operation exactly while it is
inside a helper, and that a plain store still finds what its load found. From it each step maps to `Call`, `TakeEffect` or a stutter of
`AtomicMemory`. `AfterIsWord` and `MissLeavesWord` are the arithmetic.

For the memory, `IInv` ties the slice header, the cached pointer and `memSize` to one array of the heap, says that a grow in flight owns the lock and
that its copy equals the array it replaces (no checked access moves between them), and that a passed check stays below a length that only grows. The refinement
names for each caller the instant of effect.

For the descriptors, `Books` is an invariant over four values (table, next fd, entries, handles) and the calls in flight: what a slot holds is
alive, `refs` is at least one less than the slots (exactly that while the guest names only fds it was given: a slot that a new fd overwrites is not
uncounted, so an entry may then stay open for ever but is never closed early), no two holders share a handle, holders' handles are open, and, where the calls are orderly, open handles have a holder.
Each lemma is about one transformation of those values (a slot gained, dropped, shared, moved, an entry collected), and every
step composes a few of them.

For the file system, `IInv` says that nodes, entries and calls are well formed, that a child is found under the name it carries and in one directory, that
the node of an open entry is alive, and that, unless the guest is careless, whatever has children is in the tree (a
directory that was removed while it is open is empty, and stays so because every call looks its path up from the root). It is stated of three values (`WorldOK`), since a call first edits the nodes, the
entries and the calls in flight and the collector then takes what nothing holds (`SettleOK`). What is reached is the least set that holds its children, so that a
node is shown to be in the tree, or lost, by a set and not by a path. `memSplit` and `Walked` are recursive functions over a path: that they
are functions, and where a walk ends, is proved by induction on the set of positions it has reached (`Recursion`, `Induction`, from the
library's theorem about least elements). `WalkInv` is the invariant of the listings: a thread's walk and its entry's snapshot agree (`Progress`), what
it has seen is the snapshot up to its cookie, and nobody else walks through the entry; `QuietWalks` shows once that a step that leaves the entry's
directory fields alone keeps it. For the refinement each of the store's actions has a lemma that says which edits of files and handles are such a
step (`Store...`), and each call one that says which of them it is (`...Stores`); the collector takes only files without handles.

For the slots, three things are put together. A visit of a block never takes a value away from what was live, so every pass that is not the last adds
a block to some value's, and a value that a pass adds nowhere is never added again: after as many passes as there are blocks nothing is left to add
(`LivenessReached`). First fit leaves no two values in one slot that interfere, and the two banks of slots do not meet (`SlotsApart`). What is live at a place was
written on every path to it (`LiveInAvailable`), and everything live is needed in the sense of the interference, where copies are looked through. So the inductive invariant `Inv` of
`Frame` holds: what is live is held (`HeldLater`), so is what the phis still to be copied read (`HeldForPhis`), and, past the last value, what
the branch or the return reads (`HeldAtEnd`). A write takes from `held` only what shares bytes with it, hence does not interfere with it, hence is not live.
The hypotheses (`HandedOver`) are what the compiler provides and the allocator does not check: every value stands at one place, phis come first and have an argument for each edge, what is read is defined on every
path (`ssa.Verify` checks as much); phis copied one after the other do not read each other (pass 3 of `planFunc` stages the others); the end of a block reads what
liveness says, or what the last value has just read. The last one the compiler does not guarantee for a comparison that is fused with a branch
(see *The compiler*). Copies are followed to any depth, the code follows sixteen.

For the helpers, a float is taken apart by dividing by powers of two (`FloatParts`), and its value is a multiple of one. An infinity
exceeds every integer (`Infinity`), and a quotient by 1.0 is below an integer exactly when the value is below that many times 1.0 (`WholeFits`), so a
bound is right when the floats below it are those. Where the bound is the float next to the least integer, no float lies between (`Spacing`): beyond that
integer the distance of two floats is at least 1. That floats of one value other than zero are the same, which the minimum relies on, is `ValueTells`. Division needs that the quotient
of two readings fits except for the least one by -1 (`QuotientFits`).

For the image, the lengths of file and mapping agree up to what a call in flight has read, and a page that belongs to an instance lies in its own copy.

Only model-checked: liveness (`TimedWaitReturns`, `ChangedCellWakes`, `ThreadsWaitReturns`, `GrowReturns`), which
is out of the prover's reach; everything about the compiler and its assembler but the slots, the lanes of vectors, the memory accesses and the machine code
of the instructions, whose definitions are recursive operators over bodies, blocks
and instructions or work on the bits of numbers, for which the prover has no backend. `PureMeansWasm` is stated of the run's calls, of which `ScalarProofs` covers the scalar ones. That `Compiler`'s `ReadsHeld` follows from `SlotsHold` rests on
`Verified`, which TLC checks: the theorem is about `Frame` alone.

## Not modelled

* Exception analysis and lowering of exceptions, packages and linking: the
  call graph fixpoint is small and the rest is printing.
* Register allocation: `Allocate` splits critical edges, which is modelled, and renames the registers the linear scan chose, which is not; the edge shuffle
  (`ComputeEdgeMoves`, `solveEdge`) has no caller outside its tests.
* The control part of the arm64 assembler (its instructions are modelled), and in both halves packed parameters and vector bodies; the
  transformation of the Go compiler's output (`gcasm`).
* WASI processes; clocks, random numbers, polls and the marshalling of
  arguments: calls of the host with no state of their own. Two `Proc_wait` of one pid both return its status (`wasip1_native.go:992`).
* A host write through `accessMemory` that meets the plain fast path of an atomic helper: the two modules are
  separate.
* Files used after a concurrent close fail in Go's `os.File`.
* The wasm parser and the command line.
