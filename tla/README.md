# A TLA+ verification project for the Torq compiler and runtime

The Torq compiler (IREE/MLIR based) turns machine-learning graphs into programs
for the Torq NPU; its runtime loads such a program into the accelerator and
drives it.  This directory models the parts of the repository that keep state
and make decisions over several steps, model-checks them with TLC on small
instances, and proves the main results with TLAPS for every value of the
constants.  Paths below are relative to the repository.

## 1. Inventory

| Component | Source | State it keeps | Operations | What is hard | What makes it correct | Module |
|---|---|---|---|---|---|---|
| `Pool` | `compiler/torq/Codegen/Pool.{h,cpp}` | bitmap of used words, active allocations, count of used words | `allocate`, `free`, `clear` | index arithmetic of two search loops, long sequences of calls | active buffers do not overlap; the count is exact; a hole that fits is found | `Pool`, `PoolScan` |
| Virtual memory | `compiler/torq/Codegen/VirtualMemory.cpp` | virtual buffers and their views, what is in LRAM and where, swap copies in XRAM, pins, eviction order, the rewritten IR | one step of the pass per IR operation: alias, alloc, dealloc, swap in, swap out, defragment, pin | buffers move while views of them and running programs refer to them; hash order; LRAM is full | contents are in one place; views follow their buffer; buffers of a running program stay; replaying the IR gives the same addresses | `VirtualMemory` |
| Start/wait lowering, slice scheduling, deallocation placement, address assignment, NSS outlining | `compiler/torq/Codegen/{LowerCallProgramToStartWait,OutlineSlicePrograms,AddDeallocation,AssignAddresses,OutlineNSSPrograms}Pass.cpp` | the function; invocations in flight; last users; pools and the XRAM counter; NSS programs | one pass over the function each | the passes depend on one another, and host, NSS, slices and CSS overlap in what they produce | the run computes what the source says; no use after dealloc; one program per slice; an NSS program is loaded before it is started | `TorqPipeline` |
| Copies, encodings, sizes | `compiler/torq/Codegen/BufferizationUtils.cpp`, `Utils/{Encoding,Memory}Utils.cpp` | none | choice of DMA, host copy, conversion, temporary buffer | strides of padded buffers, parts of them, a DMA with few strides | the destination is the source and nothing else changes | `TorqCopy` |
| Tiling and slicing | `compiler/torq/Codegen/TorqHlTilePass.cpp`, `SlicingPass.cpp`, `KernelSelectionPass.cpp` | the operations still to visit | nine patterns that split an operation over channels and rows | remainders, halos, strides, tiles of tiles | every element of the result is computed once from the right inputs; the pass ends | `TorqTiling` |
| Serialization | `compiler/torq/Serialization/Serialization.cpp` | segments, host actions | one pass over the program | order and sizes of segments | what is loaded is what was compiled | part of `TorqPipeline` |
| Conversions, dialects, kernels, transforms | `compiler/torq/{Conversions,Dialect,Transforms,Utils}` | IR | rewrite patterns | numeric semantics of tensors | the rewritten program computes the same | - |
| HAL semaphores and queue | `runtime/driver/torq_semaphore.c`, `torq_device.c` | a timeline value and a failure status per semaphore, one notification | `signal`, `multi_signal`, `fail`, `wait`, `multi_wait`, `queue_execute` | threads, a lost wakeup, list reads that are not atomic, failures | work starts after its waits; a wait whose condition holds returns | `TorqSemaphore` |
| Executable runner | `runtime/driver/native_executable.cc` | bindings, jobs started and completed, pending host copies | host action loop, loading of code and bindings | NSS and host programs overlap; error returns half way | results are read after the job; nothing is left behind | `TorqSession`, `TorqPipeline` |
| Hardware access | `runtime/torq_hw/src/TorqAstraMachina.cpp` | device node, dma heap node, network, mapping, session lock | `open`, `load`, `start`, `wait`, `release`, `close` | retries, cleanup after failure, killed processes | a session that has the device has it alone; every network destroyed | `TorqSession` |
| Kernel driver | `runtime/torq_hw/hal/SL2610/src/torq_core_linux.c` | open files, their networks and LRAM segments, the active network, the IOMMU domain, a completion | `open`, `release`, eight ioctls, interrupt handler | two levels of locks, a check outside the lock, a job that outlives its WAIT or its process, late interrupts | the device never uses a freed or stopped network; a job finds its own LRAM; WAIT means finished; no deadlock | `TorqKernelDriver`, `NpuDriver` |

How they interact.  `AssignAddressesPass` calls the virtual memory pass with a
`Pool`, clears the pool, and replays the rewritten IR on it.  The virtual memory
pass relies on the deallocs of `AddDeallocationPass` and on the start/wait pairs
of the lowering.  `OutlineNSSProgramsPass` cuts the resulting function into the
NSS programs and the host actions that the serializer writes and the executable
runner replays.  At run time IREE calls the HAL device; a batch waits for
semaphores, runs an executable, and signals.  The executable runner calls
`TorqHw`, whose implementation for the SoC makes the ioctls of the kernel driver.

```
   source function                              IREE device queue
     TorqTiling   (one operation too large)       TorqSemaphore
     TorqCopy     (one copy)                          | runs an executable
     TorqPipeline (the passes, and the run) .... TorqSession
        | LRAM too small                              | INSTANCE
     VirtualMemory                                 NpuDriver
        | EXTENDS                                     ^ implements
     Pool  --implements-->  AddressPool            TorqKernelDriver
        ^ implements
     PoolScan
```

## 2. Plan

Written, in this order: `AddressPool`, `Pool`, `PoolScan`;
`VirtualMemory`; `TorqSemaphore`; `TorqKernelDriver`; then `NpuDriver` and its
refinement, `TorqSession`, `TorqPipeline`, `TorqCopy`, `TorqTiling`; then the
proofs about them: `TorqKernelDriverProofs`, `TorqSessionProofs`,
`TorqSemaphoreProofs`, `TorqTilingProofs`, `TorqCopyProofs`, `MemoryProofs` (about
`Pool`, `PoolScan` and `VirtualMemory`), `TorqPipelineProofs` (its invariants are in
`TorqPipelineInv`) and `TorqAddressProofs` (about the addresses of `TorqPipeline`).

Left, in this order:

1. More theorems about `TorqPipeline`: `ProgramsAreLoaded`, which needs that the
   blocks of the pool and the XRAM buffers are disjoint from the areas and the
   sections of the NSS programs, and that what an operation writes is what its
   operands cover; then `ResultsMatch`, which rests on it and on `BufferInv`.
2. `NpuDriver` on its own: a network that is active exists, a file has its
   networks alone.

## 3. Modules

**`AddressPool`** is what `Pool` promises: blocks that are disjoint and outside
the reserved words, wherever they are.

**`Pool`** has the class's three members (`used`, `allocations`, `usedSizeWords`)
and one action per method.  The address a search returns is *defined* here by
`SmallFits`, `LargeFits` and `IsFirstFit`, which include what the loops never
try.  `free` of an unknown value is modelled (the map's `operator[]` makes an
empty allocation).  `PoolAssumption` asks for a word size above zero, reserved
bytes inside the memory, and small buffers not larger than the memory: the loop
bound is computed unsigned.  The size from which a buffer is large is above
zero, or a large buffer of no bytes would be searched for downwards.

**`PoolScan`** has the loops themselves, `i` and `j` included, one iteration a
step; its property `ImplementsPool` ties the definitions of `Pool` to the code.

**`VirtualMemory`** is `convertVirtualToPhysicalMemRefs`.  The function being
compiled is any sequence of `MaxOps` operations: alloc, dealloc, view, use,
start, wait, over any `MaxOperands` live operands.  `pc` follows the pass within
one operation: free space, swap operands in, add (with defragmenting), pin and
replace.  Iteration over `DenseSet`/`DenseMap` is in any order.  A failed
assertion stops the pass in a state of its own, so that a release build's
behaviour after it is never mistaken for correct.  `ir` and `calls` record the
LRAM allocs and deallocs of the current operation in the order of the IR and of
the calls of the pool.  `moves` and `derivedFrom` give every physical value of a
buffer an identity.  Contents of buffers and sizes of element types are left out.
`Lineage` of a view is the smallest set that contains it and is closed under
`Parent`, and `Root` the buffer in it; `VMAssumption` asks that no view be
derived from itself, however indirectly, as SSA form ensures.

**`TorqPipeline`** follows a function from the source to the device.  `Build`
adds a source step (load, kernel into a new or an existing buffer, view, CSS or
host program, parallel loop).  Then there is one action per pass: `LowerCalls`,
`OutlineSlices`, `UnrollForall`, `ScheduleSliceTasks`, `Canonicalize`,
`AddDeallocation`, `AssignAddresses`, `OutlineNSSPrograms`, `Serialize` (with
`compute_xram_footprint`).  The result runs: the host replays the actions, the
NSS executes its current program, and an invocation ends (`Complete`) at any
time after its start.  Contents are symbolic terms: a program that runs computes
the name of its operation applied to what it reads when it ends, so reading a
buffer too early, too late or at a wrong address gives another term.  A pass that
refuses the function (no free slice, no room, no way to cut it) ends in "failed".
So does a function for which a memory has no room: what `VirtualMemory` would
make of it is not followed further here.

**`TorqCopy`** is `createTorqCopy` for two parts of two buffers: it picks the
operations, with temporary buffers, from strides and offsets computed as in
`EncodingUtils.cpp` and `MemoryUtils.cpp`, and the operations run on a memory
whose cells say where their contents came from.  Copies to and from the memories of
the CSS are of whole dense buffers: what the raw copy, whose length is the encoded
size of its source (`Serialization.cpp:402-403`), would make of strides is left out.
`CopyAssumption` asks that a
shape have at least one dimension and every dimension an element (the code takes
the last natural stride of any shape), `AreaAssumption` that the places of the
model be large enough for its buffers.

**`TorqTiling`** takes an operation of one of nine kinds.  `Pattern` is the
decision of its tiling pattern (leave it, refuse it, how many channels per tile,
how many rows per stripe), `Tiled` the tiles it makes, `Slices` the division over
the slices.  An operation a pattern refuses (`emitError`) stays as it is, and the
pass goes on: the error fails the pattern, not the pass.  A fully connected
operation reckons in `size_t` and `int`, which wrap: `SizeRange` and `IntRange`.
A tiling that makes no progress runs for ever, as in the code.  Two runs end
early: the division by zero channels may trap (`Trap`), and when a tile is made
that reaches outside its tensor the run ends there ("outside").  An operation carries where its slices begin in the tensors of the
first operation, so a tile of a tile can be compared with it.  The pass begins with
`Whole(o)` for any `o` of `Operations`, whose dimensions `TilingAssumption` asks
to be positive.  `Faults` and
`SliceFaults` name the operations that the code splits wrongly; nothing is left out
on their account, but the ghost `met` remembers them, and the two invariants say
which of them they set apart.  The weights mode of a depth-wise operation of 32 by
32 (`KernelSelectionPass.cpp:100-102`) is left out of `ParallelOuts`.

**`TorqSemaphore`** has a step per critical section.  A thread is given one job
and goes through wait, work, signal, or fails semaphores, for which
`SemaphoreAssumption` gives it no wait list; `posted` is the epoch of the shared
notification (`iree_notification_await`: prepare, look again, sleep).

**`NpuDriver`** is the driver as a user program sees it: files, the networks they
own, the active network, the running job.

**`TorqKernelDriver`** has threads that make any system call at any time, the
two mutexes, the device, and the hardware.  START is three steps (attach, load
LRAM, reset), WAIT three, a WRITE to an active network three, and the interrupt
handler three (read STATUS, clear it, complete), since something can happen in
between.  The line is shared and the handler does not ask whose interrupt it is, so
it may run at any time, also while the clock is off; what it reads then is any
value.  Return codes are left out:
the client is arbitrary, so what it is told does not restrict it; `WaitSucceeds`
states when WAIT returns 0.  The kernel's services (memory, dma-buf, IOMMU) may
fail whenever they are called; clock and reset calls succeed, and `torq_open`
ignores a failing clock.  Three ghost variables record that RUN came before the
previous job of its network was over (`overrun`), that RUN came while the handler was
between reading STATUS and its `complete` (`late`), and that START found a job running
(`foreign`).  `IdleDomain` is where the IOMMU may leave a device without a network:
attaching the default domain can fail.  `MaxSegments` bounds the segments of a
network, `MaxCompletions` the completions that may be outstanding.
`ImplementsNpuDriver` is the refinement of `NpuDriver`.

**`TorqSession`** is `iree_hal_torq_native_executable_run` over `NpuDriver`:
threads, in one process or in two, take the session lock of their process, open
the nodes, create and map, load (with the retries of START), go through the host
actions, and close.  A step is a system call.  Every call that sets something up
may fail, WAIT may time out, and a process may be killed between any two steps,
after which the kernel closes its files.  `SessionAssumption` asks that a wait
follow every start in the program, as the lowering ensures.  The XRAM of an
executable begins at one of `XramStarts` and has `XramSize` bytes; `mapped` counts the
pages of it that the process has mapped, which `alignXram` and `munmap` reckon
differently.  `Constructed` leaves the descriptors
"unset" as the constructor does: closing such a descriptor may close the file of
another thread of the process.

The correspondence of every definition to lines of the source is in
`PROJECT.json` ("map").  Definitions under a comment `Mutant:` are the same code
with a plausible bug in it; each breaks one property in the run `PROJECT.json`
names, which shows that the property constrains the code.

## 4. Runs

All cfg files give constants only.

| Run | Shows | Bounds, and why they are enough |
|---|---|---|
| `pool_scan` | indices and reads in bounds, no overlap, exact count, refinement of `Pool` and of `AddressPool`, termination | 8 words of 2 bytes, 1 reserved byte (rounds up), an odd memory size; buffers of 1, 2 words (small) and 2, 3 (large): holes of every width against both searches |
| `vm` | contents in one place, views follow, pins are those in flight, IR order = pool order, buffers in flight stay, the pass ends | buffers of 3, 1, 2 and 2 bytes in 7, whose eviction leaves two holes that only defragmenting joins; a view of a view; one invocation; 6 operations: eviction with an invocation in flight needs five |
| `semaphore` | work after wait, no lost wakeup | two semaphores, three threads, payloads to 2, eleven jobs: chains of three batches and opposite wait orders |
| `driver_locks` | domain, freed networks, unlocked check of `torq_write_lram`, clock, every call returns, refinement of `NpuDriver` | two files, two threads, one network that either file may create; every command, RUN included; the default domain may fail to be attached; no completions (`MaxCompletions` = 0), so every WAIT times out, the worst case for those who wait for its locks, and LRAM, STATUS and the ghosts change nothing else: a `VIEW` leaves them out |
| `driver_jobs` | no foreign job, own LRAM, WAIT means finished | two files, one thread, as the commands concerned exclude one another by `device_lock`: the concurrency is with the job, the clock and the three steps of the handler, which may run for other devices too; two networks, of one file or of two, that write the same offset; one completion at a time (`MaxCompletions` = 1), which is what a WAIT consumes |
| `sessions` | a session has the device alone, results are those of ended jobs, nothing is left, run returns | two threads, in one process or in two; three runs in all, so that a session can meet another one after its lock was given away; the program copies, starts, waits, and runs a host program; two retries: the first and the last; an XRAM of one page that begins on a page or in the middle of one |
| `copies` | copies arrive, touch nothing else, suit the DMA, sizes reach | all pairs of parts of buffers of six shapes, 1 to 3 dimensions, padded rows and gaps; the DMA has two strides in place of four, so that three dimensions exceed it |
| `pipeline` | the run computes the meaning; live buffers, idle executors, loaded programs, mapped XRAM | all sources of up to four steps; loops of two iterations, as many as slices, and three; NSS programs of three tasks, so that a function needs several and both program areas are reused; memories of 20 units, in which most functions have room and some have none |
| `tiles` | tiles compute the result, slices are inside, only tiling without progress is endless | about 2200 operations around 3696 bytes: no, one and several channel tiles, with and without a rest, one to four stripes, kernels 1 to 7, strides 1 to 3, tiles of tiles, inputs larger than the memory; every fault is met; `IntRange` is small enough for the wrapped number of channels of some to be negative, zero or positive |

Deadlock is checked in all of them but `tiles`: the passes end there, in one of
three phases, and `OnlyNoProgressIsEndless` says when they do not.  The modules that end in an expected way
have a `Terminated` step.  Symmetry is used in `driver_jobs` only, which has no
liveness property.

### Disagreements found

Three runs have `expect: violation`; the quotations are in `PROJECT.json`.

| Run | The code | The text |
|---|---|---|
| `vm_assertions` | room is made for a part of a buffer, the whole buffer comes | assertion in `PhysicalMemory::add` (`VirtualMemory.cpp:398`) |
| `strided_loads` | a load with too many strides copies its temporary buffer over its source | comment at `BufferizationUtils.cpp:221` |
| `footprint` | the load of the last NSS program reads past the mapped footprint | comment in `compute_xram_footprint` (`native_executable.cc:1384`) |

`AssertionsHold` covers three assertions of the pass.  Checked one at a time the
other two fail as well: `VirtualBuffer::swapIn` when a view of the buffer has
already brought it in, and `VirtualAlias::physicalObject` when defragmenting for
one operand drops the view that is another.

More disagreements were met while modelling and have no run of their own.  What
the models do about them is in brackets.

* `Pool::allocate` fails with a hole that fits: the small search stops one word
  before the end (`Pool.cpp:39`).  `Pool::clear` leaves the words of active
  buffers marked, where `Pool.h:45` says "free all the allocations".  [both as in the code]
* Eviction is in order of arrival (`VirtualMemory.cpp:477`), not least recently
  used, as the comments at 707 and 918 say: `touch` is never called. [as in the code]
* `all_signaled` goes on waiting after one semaphore of the list failed
  (`torq_semaphore.c:345`); its comment at 333 says "(or any failed)". [as in the code]
* `torq_start_network` loads LRAM before the reset that ends a previous job
  (`torq_core_linux.c:380`), and `torq_release` frees the network of a running job
  but leaves the job ("Force stop active networks"). [as in the code; `foreign`
  records the first]
* `torq_release` of the last file turns the clock off with a job or its interrupt
  outstanding, and the handler then reads and writes STATUS unclocked
  (`torq_core_linux.c:44`, `830-832`). [as in the code; `CallsAreClocked` is about
  system calls only]
* The handler is not one step: a RUN, also of another network after a START, that
  falls between its `readl` and its `complete` gets the completion of the old job, and
  the next WAIT returns 0 while its own job runs. [as in the code; `late` records it, and
  `WaitMeansFinished` shows that it is one WAIT at most]
* The handler does not ask whose interrupt it is, though the line is `IRQF_SHARED`
  (`torq_core_linux.c:926`): run for another device it completes `job_completion`, which
  satisfies a WAIT for no bits and fails one for NSS with EIO; and its clear of STATUS
  can take away an NSS bit set after its read. [as in the code]
* `TorqAstraMachina::close` unmaps `_xramSize` bytes where `_xramSizeAligned` were mapped
  (`TorqAstraMachina.cpp:99`, `273`): when the start of XRAM is not on a page, the last
  page, and the dma-buf, may stay mapped.  The driver refuses such a start when the network
  is created (`torq_core_linux.c:253-256`), so it is `open` that fails and leaves it.
  [as in the code; `NothingIsLeft` allows that one page and nothing else]
* A part of a buffer with padded rows, whose type has strides, is addressed with
  the strides of the type (`MemoryUtils.cpp:81-85`). [left out of `copies` unless
  `Included` has "padded parts"]
* The code splits some operations wrongly: stripes of an operation with a stride
  whose input and output drift apart, as they do above stride 2 and for kernels over 4
  ("odd stripes"), a stripe with fewer rows than its halo ("short stripe"), a kernel of
  even height, or one not padded by half of it, which reads rows beyond the halo
  ("wide kernel"), depth-to-space in DCR order ("dcr"), a fully connected operation
  whose number of channels has wrapped to a negative one ("lost"), a number of channels
  the slices do not divide ("odd channels", the FIXME in `SlicingPass.cpp`), and the
  one-entry table of floats ("float table").  [as in the code; each breaks
  `TilesComputeTheResult`, which is stated for runs that met none; "short stripe"
  and "float table" break `SlicesAreInside` too, which is stated for runs
  that met neither]
* Some operations are tiled for ever: a tile, or a stripe with its halos, that is as large
  as the operation (`TorqHlTilePass.cpp:1363`). [as in the code; `OnlyNoProgressIsEndless`
  shows that nothing else is]
* Not even one block of channels fits: the number of channels is rounded to zero and
  divides (`TorqHlTilePass.cpp:868`). [traps, or goes on with the rest as its only tile]
* `--torq-nss-task-size=1`, which `doc/dev-manual/debug_tips.md:123` suggests, is
  refused by `OutlineNSSProgramsPass.cpp:102-107`. [`PipelineAssumption` asks for more than 1]
* `TorqHw::readLram` (`TorqHw.cpp:335`) is a `bool` function that returns 0 after
  success. [reads of LRAM are not modelled]

## 5. Fairness

`PoolScan`, `VirtualMemory`, `TorqTiling`: a function that was called goes on
(weak fairness of its steps; they are sequential code).  `TorqSemaphore`: the
operating system schedules every thread that can run; a deadline is not forced
to pass.  `TorqKernelDriver`: weak fairness of a thread inside the driver, the
timeout of WAIT included (the kernel's timer), and strong fairness of taking a
mutex, because Linux hands a mutex to a waiter that has been passed by.
`TorqSession`: weak fairness of the steps of a thread inside `run`; that its
system calls return is `CallReturns` of `TorqKernelDriver`.  A thread that waits
for the session lock gets it although fairness is weak, because the number of
runs is bounded.  Nothing is assumed of jobs, interrupts or user programs.
`TorqPipeline` and `TorqCopy` have no liveness property: the passes and the run
of a copy are straight-line, and that they do not stop half way is the deadlock
check.

## 6. Proofs

The theorems hold for every value of the constants that satisfies the
assumptions of section 3: any number of threads, files, networks, semaphores and
buffers, memories and operations of any size, functions and wait lists of any
length.  Each proof module EXTENDS the modules it is about; `TorqAddressProofs` rests
on the invariants and lemmas of `TorqPipelineProofs`.

| Module | Theorems | About |
|---|---|---|
| `MemoryProofs` | `PoolTypeCorrect`, `PoolNeverOverlaps`, `PoolUsedSizeExact`, `PoolImplementsAddressPool` | active buffers are disjoint, the count is exact, `Pool` refines `AddressPool` |
| | `ScanReadsInBounds`, `ScanImplementsPool`, `ScanNeverOverlaps`, `ScanUsedSizeExact`, `ScanImplementsAddressPool` | the loops stay in the bitmap and return the address that `Pool` defines, so what is proved of `Pool` holds of them |
| | `VMInvariant`, `VMContentsInOnePlace`, `VMAliasesFollowTheirRoot`, `VMPinsAreThoseInFlight`, `VMIRReplaysPoolCalls`, `VMInFlightBuffersStay` | the four invariants and the action property of `vm` |
| `TorqTilingProofs` | `TilingInvariant`, `TilingSlicesAreInside`, `TilingComputesTheResult` | tiles compute the result unless a fault was met, slices are inside unless one of the two that break it was |
| `TorqSemaphoreProofs` | `SemaphoreWorkAfterWait` | a batch starts after its waits |
| `TorqKernelDriverProofs` | `DriverDomainFollowsActive`, `DriverNoFreedNetworkInUse`, `DriverWritesReachTheirNetwork`, `DriverCallsAreClocked`, `DriverNoForeignJob`, `DriverJobFindsItsLram`, `DriverWaitMeansFinished`, `DriverImplementsNpuDriver` | all safety properties of the two driver runs, and the refinement of `NpuDriver` |
| `TorqSessionProofs` | `SessionInvariant`, `SessionDeviceIsTheSessions`, `SessionResultsAreFinished`, `SessionNothingIsLeft` | the three invariants of `sessions` |
| `TorqPipelineProofs` | `ExecutorsAreIdle` | a program is started on an executor whose previous program has been waited for |
| | `UsedBuffersStayLive` | no buffer is deallocated while an operation going on, or an invocation in flight, uses it |
| `TorqAddressProofs` | `XramStaysMapped` | what the NSS and the host reach in XRAM, NSS programs aside, is in the footprint |
| `TorqCopyProofs` | `CopyArrivesAlways`, `OnlyDestinationChangesAlways`, `DmaIsPossibleAlways`, `SizeCoversThePartAlways` | the four invariants of `copies` |

**The pool.**  The inductive invariant is `PoolInv == PoolTypeOK /\ NoOverlap /\
MarkedWords /\ UsedSizeIsExact`.  `NoOverlap` is not inductive: a search looks at
the bitmap, not at the allocations, so `MarkedWords` (every active block and the
reserved words are marked) is needed to conclude that unmarked words belong to
nobody.  The converse, that marked words belong to somebody, is not invariant:
`clear` breaks it.  `FitIsFree` is the only lemma that looks inside the searches;
the count follows from the cardinality of disjoint unions.

**The loops.**  `ScanInv` says what a loop has behind it.  Small buffers: no
position below `i` fits.  Large buffers: no block that ends above `i` fits; and
because a conflict makes the loop skip positions, also that if word `i` is in use
the block below it has a used word, or the loop would pass over a position that
fits.  At the return this is the definition of the first fit in `Pool`.

**Virtual memory.**  `VMInv` has one part per kind of state.  `HomeInv`: a live
buffer is in the pool or has its contents in XRAM, except the one that room is
being made for.  `EvictionInv`: the eviction order lists the buffers of the pool,
each once.  `PinInv`: pins are counted by the uses of invocations in flight, plus
those that freeing space holds for a moment.  `InFlightInv`: buffers in flight
are in the pool.  `TraceInv`: the IR is ahead of the pool's calls by exactly the
alloc that is already written when room is made for a swap-in.  `OperationInv`
and `ViewInv` tie the operation under way to what is live.  No buffer in flight
is ever evicted or defragmented because only unpinned ones are chosen, and
`PinInv` makes an unpinned buffer one that no invocation uses.

**Tiling.**  The three theorems have no hypothesis but `TilingAssumption`; the faults
are in the properties.  `TilingInv` says that operations have their types and are inside until a stripe was
short or a table was that of floats, and, until the first fault of any kind, that the
pending operations and the tiles split the whole.
Where tiling makes no progress the invariant holds for ever.
`PartOf(t, o)` says that `t` computes elements of `o`, each from what `o` computes
it from; `Splits(T, o)` that the operations of `T` do so for every element of `o`,
each once.  `Splits` composes (`SplitsOfParts`), so the last part of
`TilingInv` is inductive if the tiles of one operation split it.  That is arithmetic: `TileChannelsRead` for channels;
for rows, a stripe is sound if its halo rows are there (`StripeIsGood`) and
each row is kept by one stripe (`StripesPartition`); `EvenSlices` for slices.  The
attempt to prove it showed that three kinds of operations were
split wrongly that the bounds of the run had not reached: kernels of even height,
strides above 2, and stripes lower than the halo of a large kernel.

**Copies.**  The hypothesis of the first three theorems is `Included = {}`, as in
the run: parts of padded buffers, and loads through a temporary buffer, go wrong
(section 4).  `Wide` says of strides that each is at least the extent of the
dimensions inside it; strides of dense and of aligned buffers are, and for such
strides an element has an address of its own (`DotInjective`).  An index is an
index of the blocks of a DMA and a place in the block (`Assemble`,
`Disassemble`), from which each kind of operation moves exactly the elements of
its source to those of its destination (`StoreMoves`, `LoadMoves`, `HostMoves`,
`ConvertMoves`, `RawMoves`).  `Lowered` shows that `CreateTorqCopy` yields a `Route`:
operations that pass the data on through temporary buffers to the destination.
`CopyInv`, that the operations left are a route from a memref that holds the
source's elements, is then inductive.  Nothing is needed of where the two buffers
are.  `Included` does not matter for the sizes (`PartSize`).  Sums and products over
the dimensions are recursive functions; the facts about them are proved by
induction over sets of numbers (`SetInduction`), from the well-foundedness of
`<`, because the induction theorems of the library take a predicate.

**Semaphores.**  `WaitInv`: a thread that has gone over the list of a wait up to
`k` without finding an unsignaled or failed semaphore has seen the first
`k - 1` payloads reached.  Timelines only advance, so what was seen stays true
although the list is not read atomically.

**The driver.**  `DriverInv == LockInv /\ DeviceInv /\ JobInv`.  `LockInv` says which
mutexes a thread holds at which place of which call, and that `torq_release` is
the only call on its file.  From it follows that two threads in the middle of
calls are not on the same file, and not both at the device; with that, `DeviceInv`
(the active network exists and is attached, and a thread half way through START,
WAIT or a write still has its network active; the clock runs while a file is
open) is preserved by each command.  `JobInv` is about the hardware: START found
no job of another network unless `foreign`, the segments of the active network
stay loaded, and while a job runs, nothing of an earlier job's completion is left or
on its way through the three steps of the handler, unless `overrun` or `late`.  A
handler that began before the RUN and saw no NSS, for another device, satisfies no
WAIT for NSS; that is what reads `irqStatus` in the invariant.  `DriverStepRefines` maps every step to one of `NpuDriver` or to
a stutter.

**Sessions.**  The argument is one of rely and guarantee.  `ThreadInv(t)` is about
the file, the network, the mapping and the locals of one thread; `Undisturbed(t)` is
what the steps of other threads leave alone, *as long as the file of t stays
open*.  Every step of a thread keeps its own invariant and leaves the others
undisturbed; a close of an unset descriptor and a kill close files, which
`Undisturbed` allows, so the invariants are stated for threads whose file is open.

**The pipeline.**  That an executor is idle when a program is started on it is
decided by four passes and shows only when the result runs, so `ExecutorIsIdle`
alone is not inductive.  `TurnInv == PassInv /\ RunInv`.  `PassInv` says what each
pass leaves to the next.  The source has at most one program per operation and
only slice programs in a loop (`Source`).  `LowerCalls` and `OutlineSlices` leave
every start with one wait and every wait with one start, and CSS programs in
turn (`Looped`).  `UnrollForall` copies the body of a loop for every iteration, which
keeps this (`Lowered`).  `ScheduleSliceTasks` gives a start a slice that no start
still to be waited for has, or refuses, so between two starts on one executor
there is a wait for it (`Spaced`); the passes after it add and remove operations
that are neither starts nor waits (`Planned`).  `OutlineNSSPrograms` keeps it over
the tasks of its programs, taken in the order in which the host starts the
programs (`Outlined`).  `RunInv` says that an invocation in flight was started by
a task that has run, and that no wait for its executor has run since; with
`Outlined`, a task about to start another there is behind that wait.  The passes
rewrite sequences, many operations for one, and the lemmas that carry most of the
proof are about that: where in a flattened sequence of blocks a position comes
from, that the order of two blocks is the order of what they stand for, that an
unrolled loop is a map back to the loop, and that the cut into NSS programs
is a cut of the same sequence.

**Buffers.**  That a buffer in use is live is decided by `AddDeallocationPass`,
before the function is cut into programs, and shows when they run.
`BufferInv == TurnInv /\ PassLives` and, during the run, `LiveInv`.  `PassLives`
follows the buffers through the passes.  In a source every operand is covered by an
allocation, a binding or a call made before, from where control reaches it:
before the loop or in the same iteration, never from the loop to the code behind
it (`Declared`); a step of the source keeps this, and so do the copies
that `LowerCalls` and `OutlineSlices` put around a program.  `UnrollForall` gives every
iteration buffers of its own and moves nothing in front of what it needs
(`Allocated`).  With the match of starts and waits from `TurnInv` this is all
`AddDeallocation` needs (`Ready`): its deallocations come after the last user, and
the wait is a user of what its program was started with, through views of views
too, so nothing is freed between a start and its wait (`Lives`).
`AssignAddresses` changes no buffer's name.  `OutlineNSSPrograms` distributes the
operations over the tasks and the host's actions in their order, which gives the same of
the run's steps (`StepsLive`): `StepsLive` orders them as <<host action, task>>.
`LiveInv` says that what the steps that have run have allocated and not
deallocated is live.  `TurnInv` is needed once more for the invocations in
flight: one that is not waited for was started by a step whose wait has not run,
so no deallocation after that wait has run either.

**Addresses.**  What is mapped is computed by `Serialize` from the definitions it
finds in the function, after `OutlineNSSPrograms` has moved operations out of it; what is
reached is decided by the operands.  `XramInv` is `BufferInv` and, per stage, what
connects the two.  `Covered`: an operand is a part of a buffer, a binding or a code section
that some operation of the function defines (from `Allocated` and `Lives`, and kept
by `AddDeallocation`, because a dealloc defines nothing).  `Addressed`: `AssignAddresses`,
a fold over the operations with pools and a counter, has given every definition an
address, or has refused the function.  `Located` and `StepsCovered`: after the cut the
definitions are still in the function, not in a program, the sections of
programs have addresses too, and every operation of a program is one of the
function before the cut or one that the cut adds (`NssOwn`), which reaches only
NSS programs and LRAM.  `Serialize` folds the definitions of the function into one
interval; each step of the fold widens it (`Widens`), so it holds each of them
(`Reaching`), and with that the parts that operands cover.  During the run the
footprint and the programs do not change (`RunMapped`).  NSS programs are left out:
that a load of one may read past the footprint is `ProgramsAreMapped`, which the code
violates (section 4).

**Only model-checked.**  Liveness (`SearchEnds`, `OperationEnds`, `WaitReturns`,
`CallReturns`, `RunReturns`, `OnlyNoProgressIsEndless`), since the prover has no fairness.
Two invariants of `TorqPipeline`: `ProgramsAreLoaded`, which is about addresses
being disjoint where `XramIsMapped` only needs them bounded, and `ResultsMatch`,
which is about contents and rests on that; the plan has them next.  The three runs of section 4 that find a disagreement
are counterexamples, with nothing to prove.

## 7. Not modelled

Most lines of the compiler rewrite tensors: the conversions from TOSA and Linalg,
the transforms, the decomposition patterns, the verifiers and the kernel builder.
Their state is one MLIR operation, their control the question whether a pattern
matches, and what makes them right is the arithmetic of tensors, fixed point and
floating point; `Kernel.cpp` encodes loop nests as register values for hardware
that is not in the repository.  A model of them would be their text again, with
nothing to check it against.  The same holds for the flatbuffer writing in
`Serialization.cpp`, the generated dialects, the simulators and FPGA back ends
(register I/O), the Python tooling and the tests.  The modules cover the parts
that keep state over several steps, which are about an eighth of the lines.

Of the components that are modelled in part: `TileAndFusePass` (it drives MLIR's
tiling interface with fixed sizes), `ValidPadToSamePadPass`, the packing of
weights, the grouping of operations into CPU programs (dominance in MLIR) and
their compilation by external compilers; dumps, profiling and single stepping in
the executable runner; creation, query and destruction of semaphores.

Known abstractions in what is modelled: `torq_commit_lram_to_hw` writes a whole
segment in one step; READ_LRAM changes nothing and its data is not followed;
`TorqPipeline` and `VirtualMemory` are not composed, the first giving up where
the second begins; the contents of XRAM are not in `TorqSession`; IREE's notification and
the NPU are modelled from how the code uses them.
