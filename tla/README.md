# A verification of TestOS for the RK3588

TestOS is a bare-metal AArch64 kernel that brings up the RK3588, drives its NPU and runs two neural
networks (a small LLM and a YOLO detector) on it. This directory holds TLA+ models of its core logic,
the TLC configurations that check them on small instances, and TLAPS proofs of the properties that
matter most for every value of the constants. Paths below are relative to the repository.

Run `tlc -config X.cfg M` for the pairs in the table of runs, and `tlapm M.tla` for `HeapProofs`,
`SpinLockIrqProofs`, `NpuOffloadProofs`, `CpuTasksProofs`, `BringupProofs`, `XmodemProofs`, `WorkloadProofs` and
`OperatorProofs`. The community modules are needed.

## 1. Inventory

Core 0 boots (`src/boot/t_boot.S`), enters `t_kernel_main` (`src/t_entry.c`), starts the other
seven cores through PSCI, enables interrupts, sets up the heap, runs the tests of the heap and of the
NPU operators and then sleeps in WFI. The secondary cores sit in `t_secondary_main` waiting for work.
There is no scheduler: concurrency comes from the eight cores, from interrupts on core 0, from the NPU,
which works on its own and reads and writes DRAM behind the data caches, and from the serial line.

| Part | State | Operations | Talks to | What is hard |
|---|---|---|---|---|
| heap, `src/mem/t_mem.c` | block headers in memory, address-ordered free list | init, alloc (best fit, split), free (merge), stats | every buffer of the system | long call sequences, stale headers, size wrap |
| spin lock, `src/lib/t_spinlock.S` | lock word, saved DAIF, exclusive monitors | lock, trylock, unlock, each with interrupt masking | logger (`print_lock`), UART rings | cores x interrupts, one word saved by two |
| NPU driver, `src/npu/rknpu.c` | `job_done_num`, the device registers | init, submit = commit + poll, `job_done` | exceptions, GIC, timer | late, lost and repeated completions |
| offload, `src/llm/llm_matmul.c`, `src/yolo/yolo_conv.c` | DMA buffers used again by each operator | lay out, clean, submit per tile, invalidate, read | NPU driver, caches | cache maintenance order |
| cache, `src/lib/cache.c` | line size | clean, invalidate, both, by range | offload | lines at the edges of a range |
| exceptions, `src/exception/` | handler vector | install, dispatch, EOI | GIC, `job_done`, timer, UART | interrupts on before the handlers are there, spurious vector |
| UART, `src/dev/t_uart_dwp.c` | two rings, `dw_uart_initialized` | init, putchar, getchar, flush, IRQ handler | logger, XMODEM, console | polled and interrupt paths on one FIFO |
| console, `uart_test` of `src/t_entry.c` | one file buffer and its length | receive, dump, toggle, quit | UART, XMODEM, heap | a failed reception leaves a torn buffer |
| XMODEM, `src/dev/xmodem_dw_uart.c` | block number, offset | receive | UART, host | damaged, lost, repeated bytes; time-outs |
| SMP tasks, `src/t_entry.c`, `src/boot/t_smp.c` | one `cpu_task_t` per core, `cpu_online` | launch, wake, wait, the loop of a core | cores | memory order, lost wake-ups |
| timer and GIC, `src/dev/t_timer.c`, `t_gicv3.c` | deadline, enables | tick, delay, acknowledge | exceptions | time-outs |
| matmul generator, `src/npulib/npu_matmul.c` | none | tiling, CBUF banks, layouts, command list | offload | layouts, strides and banks computed apart must agree; short last tile |
| other generators, `src/npulib/` | none | conv2d, deconv, pool, transpose | offload | sizes, padding |
| LLM, `src/llm/` | KV cache, position, repeat window | load, forward, generate, encode | offload, heap | limits of the position |
| YOLO, `src/yolo/` | feature maps, boxes | forward, decode, nms | offload, heap | buffer lifetimes, box limits |
| helpers, `src/lib/sort.c`, `t_string.c`, `rand.c`, `t_logger.c` | none | sort, strings, printing | all | sort |
| SCMI, clocks, power, `src/dev/scmi.c`, `cru.c`, `src/npu/rkpm.c` | firmware mailbox, registers | request, gate, power on | NPU driver | firmware answers |

What makes each part correct:

* heap: blocks tile the heap without gap or overlap, neighbours are merged, the free list and the
  `is_free` words agree, a grant is large enough and disjoint from the others, a second free is noticed;
* lock: mutual exclusion, no handler that waits for the program under it, every call returns, and the
  interrupt state afterwards is the one before;
* NPU offload: what the caller reads is what the NPU computed from the operands of that operator, and
  every submission returns;
* XMODEM: the buffer holds the file's blocks in order and intact, the host is never ahead, a transfer
  ends and a reported success is the whole file;
* operators on the engine: the result is the sum the operator defines, for every shape that is not refused, and a
  shape is refused only when it cannot fit;
* SMP tasks: each launched task runs once with its own argument, and the join waits for all of them;
* bring-up and UART: an interrupt finds its handler and what the handler works on; what is written goes
  out once and in order, in polled and in interrupt mode; what arrives is read, waiting, or lost to a full
  FIFO or ring and nothing else; a reader that sleeps wakes up;
* console: a dump shows the bytes of a file that was received as a whole;
* power and clocks: switching a domain touches no other, and no gate is open below a closed one;
* kernels: each integer result is the number it stands for, to the rounding its scale allows;
* LLM: a prompt is its byte pair encoding, and attention sees this story's positions and nothing else,
  though the cache is never cleared;
* YOLO: what is reported is a sound suppression of what the detect tensors show, also after a forward that stopped.

The hazards, at their lines, are listed in `PROJECT.json` with the properties that cover them.

## 2. Plan

Order: what every other part stands on first (heap, lock), then what the kernel is for (NPU offload),
then the remaining protocols, then the arithmetic.

| Step | Modules | State |
|---|---|---|
| 1 | `HeapSpec` <- `Heap`, `HeapProofs` | done, proved |
| 2 | `SpinLockIrq`, `SpinLockIrqProofs` | done, proved (safety) |
| 3 | `NpuJob` composed into `NpuOffload`, `NpuOffloadProofs` | done, proved (safety) |
| 4 | `Xmodem`, `XmodemProofs` | done, proved (safety; the order of the blocks on an undamaged line) |
| 5 | `CpuTasks`, `CpuTasksProofs` | done, proved (safety, in program order) |
| 6 | `Gic`, `DwUart`, `PowerClock`, `Console` composed into `Bringup`, `BringupProofs` | done, proved (safety) |
| 7 | `NpuLayout` <- `NpuConv`: layouts, generators, tiles against CBUF banks, im2col, blocks, read-back; `OperatorProofs` | done; refusals, descriptors, reads, writes and results of the engine proved |
| 8 | `Tokenizer` <- `Kernels`, `Llm`; `Yolo`; all with `NpuConv` in `Workload`; `WorkloadProofs` | done, proved: caches of the LLM, encoder, detections, kernels |
| 9 | a proof of `ResultExact` | done: `ResultsAreExact` in `OperatorProofs` |

Abstract specifications: `HeapSpec` (an allocator is a set of disjoint grants) is stated and implemented
by `Heap`. The byte stream that `DwUart` promises is stated as `WireFaithful` and `InputFaithful` over
the rings, the FIFOs and the history of the calls: what is sent, in the device and in the ring, taken together, is the
text that `putchar` took with its carriage returns. A fork-join specification for `CpuTasks` is worth stating.

## 3. The modules and the code

### Heap

`Heap` has one state per header word that the code keeps: `free_list` is the sequence of blocks linked
from `free_list_head`, `size` and `is_free` are the header words *of every 64-byte slot*, because a
header absorbed by a merge stays in memory and `t_mem_free` reads it on a double free. `live` and `stale`
are what the callers know: blocks held with the size asked for, and pointers already freed whose memory
was not handed out since. `t_mem_alloc` is `AllocFails`, `AllocSplits` or `AllocWhole`; `t_mem_free` is
`FreeIgnored` or `FreeMerges`, whose helpers (`remove_from_free_list`, `add_to_free_list`, `merge_next`,
`merge_prev`) carry the code's names. `size_t` is modulo `SizeMod`, so `MEM_ALIGN` wraps as in C.
`heap_start` rounds the linker symbol up and takes the lost bytes off the size. The links `next`/`prev`
and the local walk of the list are abstracted to positions in a sequence. A free slot's payload is not
modelled; a live payload may be overwritten by its caller, which is why a pointer is not stale any more
once its memory is handed out.

`HeapSpec` is what callers rely on: regions granted are aligned, inside the heap and disjoint, and
disappear only when returned. `ImplementsHeapSpec` maps `held` to the first bytes of each live payload.

### SpinLockIrq

Every instruction that touches the lock, DAIF or the monitor is an action: `Mrs`, `Str`, `Mask`, `Ldaxr`,
`Stlxr` for lock and trylock, `Stlr`, `Ldr`, `Restore` for unlock and the failed trylock. A context is
a core and a level (main or interrupt handler). `Interrupt` fires on a core whose DAIF allows it, `Eret`
when its handler is out of the lock and restores DAIF. Both words of `spinlock_irq_t` share an exclusive
granule, so any store to either clears the monitors of the other cores. Handlers may call lock and trylock,
as `job_done` does when it logs. Handlers do not nest: interrupts stay masked from the exception to
`eret`, also after the EOI. The dmb instructions and
the acquire and release forms are taken to give sequential consistency for the two words.

### NpuJob and NpuOffload

`NpuJob` is the driver's half with no variable for data: `Submit` (reset of `job_done_num`), `CommitClear`
(INT_CLEAR), `CommitEnable` (OP_EN), `PollDone`/`PollDelay`/`Timeout` (the do-while with its budget,
tested before it is decremented), `TakeIrq`/`EndIrq` (`job_done`: it counts first, then clears on both of
its paths), and `Finish`, the engine. While core 0 is in `job_done` the driver does not move. An engine
on which a job timed out either goes on with it or drops it when the next is started; which one the
hardware does is not documented, so both are allowed. The valid and the invalid status of `job_done`
differ in logging only and are one action.

`NpuOffload` extends it with the caller (`Fill`, `CleanInput`, `CleanOutput`, `SubmitTile`, `TileReturned`,
`Invalidate`, `Read`), the data cache and DRAM. `Plan` is the list of submissions the program makes: pairs of
an operator and a tile of the output. `llm_npu_matmul` is the case of one tile, `run_matmul` of YOLO the
case of several with one invalidation at the end. The operands, the command lists and the task descriptors
are one line, since they are written and cleaned together; each tile is a line. `Evict` and `Prefetch` let the
cache write back or fetch any line at any time. A value is the number of the operator it comes from.

### Xmodem

The receiver is one action per read of `uart_getc_timeout`, with what the code does with the byte up to
the next read. A CRC is the data it was computed from, so it matches its own data and nothing else; a damaged
CRC pair matches nothing that is sent here. Blocks of 128 and 1024 bytes are shortened to 1 and 5. The host is
external: it sends a block, waits, sends again on NAK, C or silence, gives up after `MaxRetries`, cancels at any
time. It does not discard replies that are pending when it sends. Both time-outs fire only when the line is
silent in both directions, because ten seconds are long compared with the line; the order in which they fire is open.

### CpuTasks

Each store of `launch_on_core` and each load and store of `t_secondary_main` is a step. Stores pass
through a buffer per core. With `Ordered = FALSE` the buffer drains in any order that keeps stores to one place
in order, and SEV does not wait for it: what the architecture and the missing barriers allow. With
`Ordered = TRUE` each store completes before the next step, which is what the code assumes. The boot wait of
`t_kernel_main` goes on when all cores are online or after five seconds, so it is a step without guard,
and a core may come online at any time. No caller of these functions is compiled in; the model's caller follows
the comments: launch on every core, wake, wait, again.

### NpuLayout and NpuConv

`NpuLayout` holds the pure part of `npulib`, operator by function: where an element lies (`feature_data`,
`weight_int8` and the layouts built on it) and what the `gen_*` functions program. A generator returns the code's
status and the tasks it wrote; a task is the record of the descriptor fields that decide what is read and written,
each cut to the width of its register field by `gen_matmul_task`. Register positions and constant fields are left
out. `gen_matmul_int8` fills the descriptor of a 1x1 convolution over one column, so it is stated as one. Sizes of the
hardware are constants: bytes of an entry (`Atom`, 16), lanes of a weight tile (`Group`, 32), bank size and number, the
cap on tile rows, the width of `feature_grains`.

`NpuConv` runs a program of operators: `LayOut` (memset and layout of the input; only YOLO leaves the output as
it was), `Generate` or `GiveUp`, one `SubmitTile` per task, `ReadBack`, and, for YOLO, the next block of rows; then
`NextOperator` over the same buffers. The kinds are the convolution of `yolo_forward`, the matmul of `llm_forward`, and
the operators of the on-board tests: convolution, depthwise (the average pool is built on it), grouped, transposed
convolution, 2D transpose. Numbers are abstracted to where they come from: a byte is the set of elements laid out
at it, an accumulator the set of pairs it has summed, so that equality with the reference means the right result for
any numbers. The submission itself is one step here; `NpuOffload` shows what it takes.

The engine is not in the repository. What a task reads and writes (`FeatureByte`, `WeightByte`, `OutWord`, `Terms`, `Written`)
is written from the layouts and from what comments and on-board tests record: that the pitch between surfaces is
`line_stride + surf_stride`, that unaligned channels hang it, that weights of one kernel must fit a bank
(`EngineTakes`). The model says nothing of hardware that behaves otherwise. The shapes are those the code's comments allow:
heights one or a multiple of 4 (`npu_deconv.h`), channels and kernels of the direct generators multiples of 32, the
dimensions of the LLM (128, 384, 2048), for which its generator never refuses.

### Gic, DwUart, PowerClock, Console and Bringup

`Bringup` is `t_kernel_main` on core 0 from `gicv3_init` to its last loop, one action per step between two
register accesses or stores that an interrupt, the device or the timer could come between. `pc` names the
step. It EXTENDS the four modules below and adds the timer, the program and its users. The user is one of
five plans: a writer that also reads keys, a reader, the console, `rknpu_init`, or the clock code.

`Gic` is what `t_gicv3.c` leaves programmed (the distributor on, the enabled INTIDs) and the exception: the
core takes a pending interrupt while it is not masked, `handle_irq_exception` calls the handler in
`g_handler_vec` or none, `Eoi` is EOI, `need_schedule_flag` and the return. The lines are levels and routed to core 0.

`DwUart` has the rings as the code has them (buffer, head, tail, count), the bits of IER, the two FIFOs of the
device, and the handler access by access, for the device goes on while the handler runs. A client's critical section
masks interrupts and is one step. `busyDetect` is the refused write to LCR, which the handler answers by reading
USR and then falls into the transmit branch. The store that sets `dw_uart_initialized` is commented out in
this commit (`t_uart_dwp.c:265`), so the driver polls although its receive interrupt is on; the constant part of the state
`MarksInitialized` chooses between this commit and the interrupt mode the driver is written for, and every
property is checked for both. The bytes that arrive are numbered, so that order, duplication and loss can be told apart.

`Console` is `uart_test` over one file buffer that is allocated once; a file is a number, and the model keeps
which file the buffer holds, how its reception ended, and which of its bytes the dump shows. In polled mode
`uart_getc_timeout` never returns a byte, so a reception fails at once. `Xmodem` is the reception itself.

`PowerClock` has the PMU and CRU registers as the sets of their 1-bits with the write-enable halves, the power
domains that follow in their own time or never, and the SCMI calls, any of which the firmware may refuse. The
CLKSEL words are written without enable bits and select nothing: that is what the code does.

### Tokenizer, Kernels, Llm, Yolo and Workload

`t_kernel_main` runs one of its tests, chosen by the calls left in comments. `Workload` is that choice: the operators
of `NpuConv`, one call of a kernel, the story teller, or the detector, each with its own variables; `Halt` is their end.

`Kernels` has one function per integer kernel, as the code computes it: C's division, the floor of a shift, the
running scales, `absmax`, the two lookup tables as constants with only their shape assumed. `Promised` says, per
kernel, which real number the result stands for and how near; it is written from the meaning of the operation and
not from the code. One promise is as weak as the code: the convolution's requantisation rounds negative halves
down and reaches -128.

npulib's `eltwise_add_int8` and `maxpool_int8` are not among the kernels. `int8_t` is `char`, unsigned on this target, and these two lack
the cast to `signed char` that every other kernel has: they add and compare the bytes 0..255 (section 6).

`Tokenizer` has the encoder, one pass per rule in rank order, and the definition of byte
pair encoding it must agree with; the bytes of U+2581 are one character. `EncodeIsBpe` takes the ids the characters become as
they are, merges them, and asks of a text whose characters are all tokens (`Known`) that each starts as its own token and that the ids
read back as the text.
What a character that is no token becomes is not part of it: the code takes `<unk>`, id 0, and its comment speaks of another token
(section 6).

`Llm` has the caches flat and with the code's address arithmetic. An activation is what it depends on: the tokens,
each with the story it was fed in, that reach it. So a row left by an earlier story, another layer or a later position would be
seen in what attention reads. What acts on one position alone keeps the value and is exact by `Kernels` and
`NpuConv`. The logits are any of `LogitRows`; the repeat window halves those of recent tokens as the code does.

`Yolo` walks the op table with the code's early return, which the caller cannot see; inner tensors are their
shapes, detect tensors carry any logits of `DetectData`. `Decode`, `Suppress` and `Report` are the post-processing with
the candidates' order and the limit `MAX_BOXES` of the code.

## 4. Runs

| Run | Instance | Shows |
|---|---|---|
| `heap` | 10 slots and a bit (680 bytes from address 40), requests 0, 1, 65, 150 and one near the wrap limit that is refused, a foreign pointer | `Tiled`, `FreeListSound`, `PayloadHoldsRequest`, `StaleDetected`, `StatsExact`, `LiveHeadersStable`, `ImplementsHeapSpec` |
| `heap_wrap` | the same with a request in the last 63 values | violated: a request larger than the heap is granted |
| `spin` | two cores, core 0 interruptible, two calls per context, one interrupt | `MutualExclusion`, `HandlerNeverWaitsForMain`, `EveryCallReturns` |
| `spin_restore` | the same | violated: the interrupt state after a call is not the one before it |
| `npu` | three jobs: operators of one and two tiles, budget 1 | `DoneMeansFinished`, `OperandsAreFresh`, `CpuSeesNpuResult`, `NoDirtyOutputWhileRunning`, `EverySubmitReturns` |
| `npu_late` | the same | violated: an early return after an earlier job's timeout |
| `conv` | 4 bytes to an entry, 8 lanes to a group, 6 banks of 128 bytes, blocks of 16 rows, tiles of at most 8, at most 3 tiles; pairs of YOLO layers, sequences of LLM matmuls, single operators of the tests; a few hundred calls of the kernels; three stories of a model of two layers with a cache of five positions; three detector models | `WorkloadTypeOK`, `ResultExact`, `EngineTakesEveryTask`, `TilesPartitionTheOutput`, `EngineReadsWhatWasCleaned`, `RefusesOnlyWhatCannotFit`, `KernelsExact`, `EncodeIsBpe`, `AttentionSeesTheStory`, `DetectionsSound` |
| `bringup` | rings of 2, batches of 2, a transmit FIFO of 4 and a receive FIFO of 1; the text `a b \n`; 4 bytes typed for the reader, 1 for the writer; 2 receptions of files up to 7 bytes, dumps of 4 in rows of 2; both builds and all five plans | `TypeOK`, `WireFaithful`, `InputFaithful`, `EveryInterruptHasHandler`, `PowerSafe`, `DumpShowsLastFile`, `OutputDrains`, `ReaderWakes` |
| `xmodem` | a long and a short block, two damaged bytes, two lost replies, buffers of 6 and 5 bytes | `StoredIsPrefix`, `WithinBuffer`, `HostNeverAhead`, `ReceiverReturns` |
| `xmodem_truncated` | four short blocks, one damaged byte | violated: a truncated file is reported as received |
| `cpu_tasks` | two secondary cores, three rounds, program order | `EachTaskOnce`, `JoinMeansRun`, `EveryRoundEnds` |
| `cpu_tasks_weak` | one secondary core, one round, weak order | violated: a core sleeps on with its task pending |

Why the bounds are enough for the cases that matter:

* heap: ten slots hold up to five blocks, so a freed block has a free neighbour on either side, both or none,
  blocks are split exactly, with a remainder below and above the limit, and stale headers lie inside merged
  and inside live blocks;
* spin: two cores are what the exclusive monitor and the saved flags can confuse; one interrupt on the
  core that enables them meets every instruction of both contexts;
* npu: two operators share the buffers and one of them has two tiles; budget 1 lets a poll succeed at
  once, after a delay, or time out, and three jobs let a late completion meet a later job twice;
* conv: the sizes keep the ratios of the hardware (an entry is half a group, a row is aligned to 2 as it is to 4), and
  the layers cover padding in K and in N, a block of 16 rows and a last one of 2, tiles limited by the cap and by the
  banks, a last tile that is short, strides and borders, and each refusal of a generator (-1, -2, -3, -10, too many tiles).
  Any two layers follow each other, so what one leaves in the buffers meets the other;
* kernels: tensors of one to four values that hold the extremes, zero, both signs and halves; attention over three
  positions with equal and different scales; all texts of up to four characters, known and unknown, with a limit of ids that cuts some;
* llm: two layers, two KV heads with two query heads each, stories that use the cache up to its last position
  and then an empty prompt and a shorter one, so that rows of earlier stories lie in the cache at every position;
* yolo: two scales with two anchors, more candidates than `MaxBoxes`, boxes of two classes that overlap, an
  operator the code does not know, an op table that is too long;
* bringup: a ring of 2 holds exactly one newline with its carriage return, so each fill level of the ring meets each
  kind of character; one batch fills the ring's worth, and a receive FIFO of one byte overruns at the second. The FIFO holds
  two batches, as the hardware's does (`2 * MAX_BATCH <= FifoDepth`): a busy detect may add a batch to a batch. With
  `MAX_BATCH = 1` a full ring would be freed one byte at a time and a newline, retried as a whole, would only add
  carriage returns for ever: `OutputDrains` needs the batch of two or more that the code has (16);
* xmodem: two faults are enough for a damaged frame whose retransmission is damaged again, or whose reply is
  lost; the long block contains two bytes that look like SOH, so the hunt for a header goes wrong inside a frame;
* cpu_tasks: the third round meets the flags of the first two; two cores make the launch and the join of one
  overlap the work of the other.

Deadlock is checked in every run but the two of the lock, where contexts stop after `MaxCalls`. The finished states
of the others are explicit stuttering actions (`Idle`, `Over`, `Rest`); the heap always has an enabled operation.

The type invariants of the heap, the lock, the offload and the tasks are in no run: the theorems of section 5
prove them for all constants.

Fairness. `bringup`: the program of core 0 is strongly fair, since a tick is 10 ms, a handler takes microseconds, and
so interrupts do not keep the program from running for ever; handlers run on; the transmitter shifts out
what it holds; the timer goes on counting; and no interrupt that is pending again and again is passed over for ever (one
strong fairness per INTID, for the GIC picks among those pending). Nobody has to type, and no domain has to come up.
`spin`: weak fairness of the steps of a context that is in a call, and of the return of a handler
(cores execute). No fairness is asked of the lock itself: `EveryCallReturns` holds because the calls, and with
them the contention, are bounded; the lock is not fair and the model does not say it is. `npu`: core 0 keeps executing its program, driver and handler; the engine and the
cache owe nothing, so a job may never complete. `xmodem`: receiver and host keep running; damage and losses are
bounded, not fair. `cpu_tasks`: cores run, stores reach memory, PSCI brings every core up; events
from elsewhere may never come.

Findings, with the quoted lines, are in `PROJECT.json`: the wrap in `MEM_ALIGN`; `irq_flags` saved before the
lock is held; the late completion counted for the next job; the block number taken for EOT; SEV without a barrier. Two more
disagreements with the documents, which no run shows, are in section 6.

## 5. Proofs

For all constants that satisfy the assumptions stated in the modules:

* `HeapProofs`: `HeapIsSound` (types, ascending list, `FlagsAgree`, `Tiled`, `Coalesced`, `StaleDetected`), `FreeListIsSound`, `DoubleFreesAreDetected`,
  `LiveHeadersAreStable`, `AllFreeRestoresTheHeap`, `StatisticsAreExact` and, for requests that do not wrap (`RequestsFit`),
  `PayloadsAreLargeEnough` and `HeapImplementsHeapSpec`. None of the invariants is inductive alone: that
  the merge absorbs the right block needs the tiling, the tiling needs that the flag of the physical neighbour
  agrees with the list, and that needs stale headers to say "free". The inductive invariant is the conjunction, and
  the work is done block-wise, by lemmas on what inserting into, removing from and merging on an
  ascending list does, and what replacing one block by two, or two by one, does to a tiling. The statistics
  are a sum over a set: it counts the addresses the blocks cover, which the tiling says are all of the heap.
* `SpinLockIrqProofs`: `LockIsSafe` and `HandlersNeverWaitForTheirCore`, by an invariant that ties the lock word to the contexts between
  `stlxr` and `stlr`, an armed monitor after `ldaxr` to a free lock word, and the masked interrupts of a core to
  its main program being inside the masked region.
* `NpuOffloadProofs`: `OffloadIsSound`, `DoneIsFinished`, `TheEngineReadsFreshOperands` and `OnlyTheEngineWritesTheOutput`. The invariant says which
  jobs the engine may hold at each place of the caller, what DRAM and the cache hold of each line at
  each place, and, up to the first timeout, that a counted or pending interrupt belongs to a finished current job.
* `CpuTasksProofs`: `TasksRunOnce` and `TheJoinWaitsForAll`, both under `Ordered`. Neither flag says by
  itself how far a core is, so the invariant has one case per stage of a core's round (not given the task, given
  but asleep, reading it, calling, called, finished), each with the values of its flags, what its store buffer
  holds and how many tasks it has run. A core changes case by its own steps or when its `start_flag` reaches memory,
  which happens after entry, argument and the cleared `done_flag` have.
* `BringupProofs`: `HandlersAreThereInTime`, `DomainsAndClocksAreSafe`, `DumpsAreOfReceivedFiles`, `TheWireCarriesTheText`,
  `EveryByteIsAccountedFor`, `StatesAreWellTyped`. That a handler is there needs the order of
  `dw_uart_init` as an invariant: `putchar` runs before and after it at the same labels, so what tells them apart is that something
  has been written (`UartOff`). For the domains it is that the bit of a domain once switched on stays down, so that its hardware,
  once up, stays up (`DomainsOn`); for the clocks, that the gates open from the roots on. The way out of the UART (`TxInv`)
  joins the ring, the FIFO and what was sent into one text and says where `putchar` and the handler stand in it, with
  the room that a busy detect needs in the FIFO; the way in (`RxInv`) says where each byte that has arrived is, and, in interrupt
  mode, that these places follow each other. A dump is of a received file because the length is zero unless the
  last reception succeeded.
* `XmodemProofs`: `BuffersAreNeverOverrun` and `OnlyTheFileIsStored` for any line: a CRC comes from nowhere but the
  host, so what is stored is a block of the file. That the host never counts a block the receiver has not stored (`NeverAhead`),
  that the blocks are stored *in order* (`StoredInOrder`), and that a reported success is the whole file (`SuccessIsTruthful`), is
  proved for a line that loses replies but damages no byte: block numbers are modulo 256, and a damaged byte may turn data into a header or into EOT (the
  finding of `xmodem_truncated`), or one frame be answered twice, which the host takes for two. The invariant for it says what host and receiver know of each other in each phase of a block
  (`InStep`). The run `xmodem` checks the order with bounded damage.
* `WorkloadProofs`: `StoriesStayApart`, `StoriesFitTheCache`, `EncodingFits`, `TextsAreEncoded`, `DetectionsAreSound`, `DetectorTypes`, and the arithmetic that `KernelsAreExact` rests on. The caches are never cleared; what
  attention reads is this story's because every row up to the position was written in this story, by this layer
  (`CacheKept`), and because the flat addresses of layers, heads and positions do not meet. One pass per rule of the encoder
  equals merging the lowest-ranked pair again and again because a merge by a rule makes no pair of an earlier rule
  (`QuietBefore`), which the order of the rules gives. The recursive functions in it are handled by least-counterexample
  arguments over the well-founded order of the naturals. For the detector (`YoloInv`): after a forward that ended, or that a full
  or failing op cut short, each detect tensor is absent or sized for its grid (`ForwardInv`); the folds of the decoder are unrolled into
  chains of looks at single cells, so that a box in the table is one the tensors show, once, and no cell above the threshold is missed while
  there is room (`BoxesShown`); and between two rounds of suppression the kept boxes are in order, before everything that is left,
  and each removed box is kept or overlaps a kept one of its class that is at least as good (`SomeKept`).
  For the kernels there is one lemma each (`RequantExact`, `NormExact`, `AttentionExact`, ...), over any tensor and scale: the folds are
  sums and maxima (`TotalOf`), Newton's iteration ends at the root within its twenty rounds, each C division is bracketed by two products.
* `OperatorProofs`: `KernelsAreExact`: with the lemmas above, and those of the kernels that only move a tensor, every call gives what it
  promises; the invariant (`KernelInv`) only says that a result is that of a call the program makes. And `OnlyWhatCannotFitIsRefused`, `TheEngineTakesEveryTask`, `ReadsAreClean`, `OutputIsPartitioned`. The invariant is
  short (`NpuInv`: while tasks are submitted they are what the generator makes of the current operator, and an operator was given up only
  if its generator refuses it); the work is the arithmetic of the descriptors: each field survives its register's mask
  (`ConvFields`, `TileFields`), the byte an engine address means lies in the cube that was laid out, and the output words of the tiles
  are a bijection with their cells, tile after tile. `TheTestsAreWellTyped` joins these with the types of the two networks.
  `ResultsAreExact` is the largest proof: each store is a table of which element lies at a channel and position, no two at one byte
  (`CubeTable`, `KernelTable`, `PatchTable`, ...); a byte outside the table is zero, so padding lanes and taps beside the image add nothing
  (`SumOfTables`); per kind of operator, the pairs so summed in a cell are those of the reference (`ConvCell`, `YoloReads`, `LlmReads`,
  `TransposeReads`; for a transposed convolution, that gathering over the dilated input with the turned kernel is scattering the
  input). The invariant for it (`SumsHeld`) follows the buffers: the input holds what was laid out for this block, whatever the
  operator before it left; the words of the tasks already done hold their sums, which later tasks do not touch; and the blocks read
  back are those of the reference.

The assumptions under which this holds of the code are in the modules, named. Those that are more than the type of a constant:
`RequestsFit` (heap: no request in the last 63 values of `size_t`), `StoriesFit` and `PromptsAreTexts` (prompt and
answer fit the cache and contain no marker), the order of the merge table, in which no rule yields or uses the
unknown token (`Tokenizer`), `OpTables` (`Yolo`: as the exporter writes a table: an op reads earlier results, the padding of a
convolution covers its kernel but for a stride, as in every layer of the shipped model, and only heads write the detect tensors), `FilesAreComplete` (`Llm`: a model file names every tensor), and `WellFormed` (`NpuConv`: what
every caller respects: whole groups of channels, values that fit their register fields, an input and a kernel that fit their
banks, a transposed convolution with an output) with `AlignedHeight` (the height of a cube is a multiple of 4 or it is one row: `surf_stride` divides by 4, the
ALIGNMENT REQUIREMENT of `npu_deconv.h`; `gen_deconv_int8` pads to it, every other caller has such heights). `BanksFitTheirFields` holds for the RK3588's 12 banks of 32 KiB and groups of 32. `decode_buf` cuts the two tokens of
the shipped vocabulary that are longer than it (64 and 72 characters); for those `TextsAreEncoded` promises the ids and not the text.

Only model-checked: liveness (`EveryCallReturns`, `EverySubmitReturns`, `ReceiverReturns`, `EveryRoundEnds`, `OutputDrains`, `ReaderWakes`), which is out
of the prover's reach; `StoredIsPrefix` on a line that damages bytes.

## 6. Not modelled

* Register encodings, baud rates, GIC priorities, edges, SGIs and the redistributors of other cores, the page tables, the
  start-up assembly and PSCI: sequences of writes with no state of their own to get out of step.
* Of the UART: writers on secondary cores (the program has none once the console runs), the character dropped after
  10000 refused tries (a ring that does not drain for that long), flush, usage and the register dump, which only read. A logger
  that writes while it holds `print_lock` with interrupts masked could fill the ring and wait for itself in interrupt mode; the
  driver of this commit polls, and the hazard is listed.
* A spurious acknowledge (INTID 1023): the model acknowledges in the step that takes the exception.
* Of the generators: fp16 (no caller), the int8 output stage and the activations (they change values, not places),
  `gen_transpose_int8` (a scaffold its header marks HW-VERIFY-PENDING). `npu_reshape`, `npu_mul` and `npu_sigmoid` on the CPU
  are one loop of one line each.
* `eltwise_add_int8` and `maxpool_int8` of npulib, called by their tests only: the code contradicts what is documented of them. `src/docs/README.md:63` promises a saturating
  INT8 addition ("饱和加法"), and `src/docs/llm_int8_port.md:92-93` signed reads everywhere; without the cast -5 + -5 gives 127
  (`npu_eltwise.c:8`, whose lower limit of -128 is never met), and the maximum starts from byte 128, so that of a window of zeroes is -128, and
  a value that is not negative is never a maximum (`npu_pool.c:51,59`). Their tests compute what they expect with the same unsigned `int8_t` and
  do not see it.
* The fallback of the encoder to the token of a byte: the comment at `llm_tokenizer.c:128` says "try single char as token, fall back to byte_fallback <0xNN>",
  the code stores what `tok_find` returns, 0 (`<unk>`) for a character that is no token. The model does what the code does. The
  vocabulary shipped with the model has no `<0xNN>` tokens, and none for the characters ``# % & ( ) * + / = @ [ \ ] ^ ` { } ~`` either, so with it these become
  `<unk>` whatever the encoder does.
* Of the LLM: `rms`, `rope` and `argmax` of `llm_ops.c` have no caller (those of `llm_forward.c` are modelled). The static arrays
  `raw[512]` and `acc[4096]` are indexed up to the position and the vocabulary; the shipped model fits them, and nothing in the code
  compares. That prompt and answer fit the cache is the assumption `StoriesFit`.
* `src/src/lib/sort.c`, `rand.c` and the string helpers: small, sequential, and without state shared with anything.
* Integer widths of the kernels: the code carries its products in 64 bits.
* `src/dev/*.rs` are not part of the build of this kernel. Vendored headers under `tools/`, the host-side Python
  scripts and the on-board test programs (except as callers) are not the program.
