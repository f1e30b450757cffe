# The ADLA driver in TLA+

ADLA is the neural network accelerator of Amlogic SoCs.  Its Linux driver
(`src/adla/kmd/drv`) lets user processes open `/dev/adla`, allocate memory,
register a compiled model, queue inferences of it and wait for their results,
while one kernel thread feeds the tasks to the device.  This directory
specifies the parts of the driver that decide *when* something happens and
*where* it lies: the work queue, the inference thread, power, the two kinds of
command queues, the interrupt, memory and page tables, and the coming and going
of the device itself.

Paths below are relative to `src/adla/kmd/drv`.

## The system

| component | state | operations | interacts with |
|---|---|---|---|
| context and work queue: `common/adlak_context.c`, `adlak_submit.c`, `adlak_queue.c` | per open file a context (`state`, `invoke_cnt`, semaphores `invoke_state`, `ctx_idle`); per registered model one task struct; `pending_list`, `scheduled_list`, `finished_list`, `pending_num`, `sched_num`, `wk_update` | open, register, invoke, cancel, unregister, wait, poll, close | the thread, through `wq_mutex` and the semaphores |
| inference thread: `common/adlak_inference.h` | `inference_state`, `ptask_sch_cur`, `ptask_sch_pre`, `net_id_invoke_previous`, `dpm_stategy`, `device_state` | a loop of 12 states: resume, resets, queue check, sleep, post, submit, report, wait | everything else |
| power: `common/adlak_dpm.c`, `adlak_platform_device.c`, `adlak_platform_config.c` | `pm_suspend`, `is_suspend`, `sem_pm_wakeup`, the DPM timer's counters, power domain and clocks | timer tick, system suspend and resume, idle power-down, sysfs | the thread, by flags and semaphores |
| public command queue: `common/adlak_submit.c`, `port/platform/adlak_hw.c` | ring offsets of the driver, the parser's registers, `parser_storage_info` | start of a task, space check, write, submit, preempt, reset | the device |
| private command queue: `common/adlak_submit.c` | a ring for each model, filled at registration; `cmq_buffer_pre`, `sem_irq` of the context, `invoke_partial` | register, submit in one or two parts, preempt | the parser, the thread, the SMMU tables |
| interrupt and submit wait: `common/adlak_device.c`, `adlak_inference.h`, `adlak_hw.c` | `irq_status` in the task, `sem_irq`, the interrupt registers | handler, waits with two timeouts, poll, bottom half, reset | the device, the thread |
| memory: `common/adlak_mm.c`, `common/mm/adlak_mm_common.c`, `adlak_mm_cma.c`, `port/os/linux/mm` | a bitmap of pages, the shared area of swap buffers, usage counters, the buffers of each context | allocate, free, attach and detach external pages, free all at close | contexts, through `invoke_cnt` |
| SMMU: `common/mm/adlak_mm_smmu.c` | a public table object and one for each context, each with its own bitmap; `smmu_tlb_updated` | set the type, map, unmap, flush and invalidate, point the device to a table | memory, submissions |
| life cycle: `port/platform/linux/adlak_platform_device.c`, `common/adlak_device.c`, `port/os/linux/adlak_os.c` | what a probe has taken so far; `ptr_mem_uid`, the minor numbers | module init and exit, probe and remove with their undo labels, thread creation and detachment | all of the above |
| TEE: `common/adlak_tee.c` | the TEE model of a context | register, invoke, blocking submit | the thread |
| command patching: `common/adlak_submit.c` | layer ids and fixups of a model | dependency commands, register and address fixups | the contents of the rings |
| profile, addons, debugfs, platform, OS port | counters, parameters, wrappers | | |

What is hard here: the thread holds two tasks at once (one runs while the one
before it waits to be reported), users cancel and close at any time, the
device fails or hangs, two timeouts race the interrupt, the power goes away
under the queue, task structs are used again and again, one allocation is
written down in three books, one buffer in two page tables with a bitmap each,
and a probe can fail in the middle of two dozen steps.  The list `hazards` of
`PROJECT.json` names the places.

## The modules

### Queue, thread and power

`JobService` is what the driver promises to its clients: jobs run one at a
time in the order they were queued, each ended job is reported before the next
one ends, and only its owner can make it disappear.

`AdlakWorkqueue` has the queue's variables and the operations of user
processes, one action for each critical section under `wq_mutex`, and the
helpers of the thread that run under that lock (`ValidNum`, `Eligible`,
`Schedule`, `UpdateTaskState`).  Lists are sets; the order of the pending list
is the function `ahead`, the tasks that precede a task.  A task is identified
with its struct: as in the code, a model has one, and it is used for all of
the model's invokes.  A net id, too, is used again after close.

`AdlakInference` EXTENDS it with the thread, the timer and the suspend and
resume callbacks.  An action is one state of the loop up to the next lock or
semaphore: `WQ_CHECK` is split at `sema_take(wk_update)` (`WqCheck`, `WqTake`),
`SLEEP_CHECK` at `sema_take(sem_pm_wakeup)` (`SleepCheck`, `PmSleep`),
`POST_TASK` into the scheduling and, for a TEE net, the report and the blocking
call; the signal to `context->wait` that follows a report outside the lock is
the action `Signal`.  `SUBMIT` and `SUBMIT_WAIT` stand here for a device that
answers in the end; `AdlakRing`, `AdlakPrivate` and `AdlakIrq` detail them.

| in the model | in the code |
|---|---|
| `ctx[n] = "closed"`, `"drain"`, `"idle"` | `adlak_destroy_context`: state set; waiting for `ctx_idle`; freeing |
| `pc` | `inference_state`, plus `WQ_TAKE`, `PM_SLEEP`, `SUBMIT`, `REPORT_TEE`, `SUBMIT_TEE` between two locks |
| `cur`, `pre` | `ptask_sch_cur`, `ptask_sch_pre` |
| `partial[t]` | `invoke_end_idx < hw_layer_last` |
| `submitted`, `idle` | `submit_num != submit_num_pre`, `wq_idel_cnt` |
| `sig` | the task whose `context->wait` is still to be woken |
| `asked`, `waited`, `corrupt` | history: what users asked for, got, or broke |

`AdlakInferenceInv` has the inductive invariant `IInv` and the assumption
`Discipline`; `AdlakInferenceProofs` proves it, and `AdlakServiceProofs`, on
top of it, that the driver implements `JobService`.

The constants `InvokeLinked`, `InvokeCanceled`, `ForeignIndex` and
`CloseSignals` say whether users may do what the driver does not protect itself
from: invoke a model whose last invoke is not over, invoke it again after a
cancel, name another net than their own (or -1) in a cancel or an unregister,
or interrupt a close.  The passing runs set them to FALSE; each is TRUE in the
configuration, or the line of the last table of the runs, that shows what
happens.  A model may be registered over another that no invoke is linked of.

### Command queues and the interrupt

`AdlakRing` is the public ring in units of 16 bytes, byte contents abstracted
to "unread by the parser".  `AdlakIrq` is one submission after the other, with
interrupt causes as sets: `TS` end of task, `ERR` errors, `SW` the driver's
timeout, and two for the profiler.  `OVF`, an overflow of its FIFO or its
arbiter, is acknowledged alone, and the handler returns.  `DRAM`, an overrun of
its buffer in memory, goes the way of an error: interrupts disabled, all causes
cleared, a token given, though the device works on and no reset need follow
(`overrun`).

`AdlakPrivate` is a model with a queue of its own.  `NetAttach` computes what
`adlak_net_attach` writes: sizes, read and write offsets of the layers
(`Offsets`, the wrap-around included) and the layers that raise an interrupt
(`Interrupting`).  `Submit` chooses a segment of hardware layers, sets the
parser to its first layer if another queue was there (`Resumed`, from
`parser_storage_info`), patches the addresses and moves the write pointer; a
model with two SMMU tables is submitted in two `Parts`, between which the
thread waits for the semaphore of the context (`SecondPart`) while `Handler`
chooses the semaphore by `invoke_partial`.  A command is its layer, the
table it is executed with and the invoke whose addresses it has; `ran` is the
history of the commands executed.  A model registered over another takes its
place in the model of the queue, and `pre` is forgotten if it was the old one.  Sizes are in words, the page is small.  The
inductive invariant `PrivInv` stands at the end of the module,
`AdlakPrivateProofs` proves it and what follows from it.

### Memory

`PageStore` is what the memory manager promises to the clients that share its
pool: a buffer holds a run of pages that nobody else has, and the swap buffers
lie in one common area, which grows while it is used, never moves, and goes with
its last user.  A buffer that its client lost keeps its pages.

`AdlakBitmapPool` is the allocator both managers use (`FirstFit`, `LastFit`,
`Take`, `Release`, `Mark`), pages as numbers, a bitmap as a set.  The
`used_count` that the code keeps beside the bitmap is kept beside it here, with
the places where the code counts the wrong way.

`AdlakMem` is the driver without SMMU: one pool of contiguous pages, or DMA
memory if the region could not be had in ten tries (`Failed` gives the numbers
of failures to consider), and the shared area at the top of the pool in which
the swap buffers of all models lie over one another with `share_swap_en`.  A
request of a client is an action (`AllocRequest`, `FreeRequest`,
`ExtMemAttachRequest`, ...); the undo of an allocation that could not be mapped
or linked is `AllocUndone`; the buffers of a closed file go one by one
(`FreeAllContext`), since that runs outside `dev_mutex`.  A buffer's `role`
says which list knows it: the context's (`linked`), its net's (`queue`), or
none (`lost`).  Lost are a pool or swap buffer that EXT_MEM_DETTACH was given
(`CmaDettach`), for its handle goes and its pages stay taken; a private queue
over whose net another was registered (`RegisterOver`); and external pages whose
link failed.  Of the queue only `invoke_cnt` is there (`cnt`);
`AdlakInference` shows that a close waits until it is 0.  `AdlakMemProofs` has
the proofs about who owns which page, then about what the driver counts, and at
its end that `AdlakMem` implements `PageStore`: the mapping (`Held`, `Users`,
`SwapArea`) reads the pages off the handles and the shared area, and knows no
bitmap.

`AdlakSmmu` is the driver with SMMU.  A table object has a pool, the
translations as one function over all three levels (`cpu`), and the pages that
were written since the last flush (`dirty`), for the device does not snoop.
`IovaAlloc` enters a buffer in one or two tables by `smmu_tlb_type` and the
kind of the buffer; the second takes the address of the first without a look
(`Mark`).  A buffer marked private with neither of the two table flags (`none`)
is entered in no table of a context that has both, and that is no error; such
a buffer is not for the device.  `Submit` flushes by `smmu_tlb_updated` (`Invalidate`), points the
device to a table, and `dev.sees` is the set of buffers it can reach there.
`SmmuInv` is its inductive invariant, proved in `AdlakSmmuProofs`.

### The life of the device

`AdlakLife` runs the code's lists of steps: `ModuleInit`, `DeviceInit`,
`CreateCdev`, the undo lists and `Removing`, each step one action that takes or
gives back one thing; `InitLabel`, `CdevLabel` and `UndoOf` say where each
`goto` leads.  Beside the kernel's thread there run the inference thread, as far
as it matters to its own end and to the power, the files that are open, and
register accesses through sysfs and debugfs.  `held` is what is allocated,
registered or initialised, `pw` the power domain, the clocks, `is_suspend` and
the DPM's notion of the frequency.  `MayFail` lists the steps that may fail.
The inductive invariant `LifeInv` stands at the end of the module,
`AdlakLifeProofs` proves it.

### Conventions

Some operators are marked `mutant`: each stands before the definition it
varies and shows a bug that the properties find; no specification uses them.

The constant `Allow` of the newer modules lists what clients and the system may
do beyond the plain case, by name.  The passing runs leave out what the
driver does not survive; each such name is a statement of what the driver
relies on, and the tables below say what happens with it.

## The runs

Passing runs:

| run | instance | shows |
|---|---|---|
| `core` | 2 nets with one model each: one client does everything, the other, of a TEE model, stays open, polls, invokes and cancels | safety of queue and thread, `IInv`, and that `AdlakInference` implements `JobService` |
| `pm` | 1 net, with suspend and resume, fairness | work is taken and reported, close and suspend are answered, an idle device is powered down |
| `busy` | 2 nets that stay open, fairness | no net is starved by another |
| `ring` | 8 units, layers of 2 to 8, the size that is refused | nothing overwritten, nothing read twice, every submission ends |
| `irq` | 2 tasks with the same time stamp or not; the device may answer before its submission has returned, and the profiler overflow in each way | tasks are judged rightly unless the profiler's buffer has overrun, nothing is left over, and only an overrun leaves the interrupts disabled |
| `mem` | 2 contexts, 3 handles, a pool of 5 pages or none, `share_swap_en` | no page is given out twice, bitmap, reference count and usage agree with the buffers, nothing leaks but what a client lost, buffers of a running task stay, and `AdlakMem` implements `PageStore` |
| `smmu` | 2 contexts, 3 handles, 5 pages of address space with one taken by the SRAM, all table types | tables, bitmaps and buffers agree; the device reaches every buffer of the task it runs, flushes and parts included; tables last as long as their buffers |
| `private` | 2 nets, 3 models in all table types, failing and hanging device, fairness | the device executes exactly the layers of the invoke with the right table and addresses; no task is failed that the device finished; every submission ends |
| `life` | any of 13 steps fails, one file, register accesses, fairness | nothing is used that is not held, a failed probe leaves nothing, power and its books agree, load, probe, remove and unload end |

Bounds.  Semaphores count to `MaxTokens` (1 in `core`, 2 in `irq`): a further
token of `wk_update`, `ctx_idle` or `invoke_state` only lets a loop look once
more, so that fewer tokens are the harder case for liveness and for lost
wake-ups.  `MaxPendingNum` (2) stops invokes, never cancellations, once
`pending_num` has reached it: with one task for each net, 2 is the longest list
of the instance, and the surplus that cancellations leave occurs below it.
`IdleLimit` is 1 for the 10 of the code; it is only compared.  `LayersMax` (3)
layers of up to `Size - 1` wrap around the ring of 8 units more than once.
Two nets are needed for order and for a report of one task during the run of
another, and suffice since the thread never holds more than two tasks.

In `mem`, 5 pages less the public queue's leave 4 for three buffers of up to 2:
they fill the pool, leave gaps that are too small, and the area grows from 1 to 2
pages; one client does all that the driver offers and has at most one buffer
that is external or lost; a loss it meets with at most one other buffer, and
then asks for no more and does not open the device again; the other has no net
and at most one buffer, which is in the shared area, and stays open
once the first has lost one (`Busy`, `Plain`); `Failed = {0, 10}` is a region at
the first try, and none.  In `smmu` the 4 free pages hold the public queue and three buffers, so that the address
space is full for one table and not for the other.  The counter of a private
table runs down there and is not followed below 0 (`Counted`).  In `private`,
`SomeModels` has a queue that is filled up to its last word with a software
layer in the middle, a segment that lies across both tables, and one for each
table with software layers around them; with `Page = 12` the write point of
the first comes to the end of its buffer exactly and wraps to 0.  In `life`, `MaxMinors = 2` lets the minor numbers run
out after two failed probes, and one file suffices as files only need to be
there or not.

The clients of `core`, `busy`, `mem` and `smmu` are restricted by action
constraints and conjuncts in the `MC` modules (`CoreClients`, `MemClients`,
`SmmuClients`); the proofs are about `Next` itself.

Fairness.  The thread, the timer, the suspend poll, the interrupt handler and
an ongoing close run (weak fairness): they are kernel threads, timers and
callbacks that nothing blocks for ever; so do a load, probe, remove or unload
that has begun and a client inside a system call.  Users need not do anything.
The device either answers or hangs; the two timeouts turn a hang into a
failure.  Liveness of `AdlakInference` is stated for a system that in the end
stays up, as user work stands still while it is suspended again and again.
`SlowDevice` and `Expires` say whether the driver's timeouts may expire
although the device is working; `ring` allows it, `irq` does not, and
`MCIrq_stale_irq_token` shows what it leads to.  `mem` and `smmu` are about
safety and assume no fairness.

Violations.  Each of these runs refutes one sentence, comment or assertion of
the code; `findings` in `PROJECT.json` quotes it.

| run | what happens |
|---|---|
| `stale_token` | a token without a result sends a wait into `ASSERT(0)` |
| `share_growth` | a share buffer for which the area cannot grow is refused, with the bits of the live area cleared: the next private buffer lies over the swap memory of another model |
| `irq_fails` | when `request_irq` fails, the undo stops the thread under `dev_mutex`, which the thread needs to come to its end |

Further configurations stand beside these; they are not among the runs of
`PROJECT.json`.  The first ones hold:

| configuration | holds |
|---|---|
| `MCInference_swap` | `ContextOutlivesTasks` and `AssertsHold` with `share_swap_en`, in which the thread stays with a net |
| `MCLife_further` | the type invariant and `LifeInv` |

The others are for what the driver leaves to its users or what needs rare
timing; TLC violates the one property in each:

| configuration | what happens |
|---|---|
| `MCInference_signal` | `context->wait` is signalled after the context was freed |
| `MCInference_sticky_flag` | the invoke after a cancelled one is dropped, which nobody asked for |
| `MCInference_cancel_leak` | a finished task is not reported while another client cancels |
| `MCInference_relink` | an invoke of a running task sends the thread into `ASSERT(0)` |
| `MCInference_two_models` | close frees a context of which a second task is running |
| `MCInference_close_signal` | the same, after a signal |
| `MCInference_surplus_wakeup` | the device is resumed during a suspend that was answered with success |
| `MCInference_resume` | a left over wake-up ends the next suspend |
| `MCRing_too_large` | an accepted model does not fit in the ring |
| `MCIrq_stale_irq_token` | a late interrupt ends the next task's wait, and that task is called finished unrun |
| `MCIrq_dram_overflow` | the end of a task comes with an overrun of the profiler's buffer: interrupts are disabled, and as the task has finished no reset enables them for the next |
| `MCIrq_stale_timeout` | a finished task is judged failed |
| `MCSmmu_free_after` | buffers are freed after their net and its table are gone |
| `MCPrivate_private_full` | one invoke that fills its queue looks like an empty queue, and the task fails |
| `MCPrivate_part_hangs` | a hang in the first of two parts holds the thread for ever: that wait has no timeout |
| `MCLife_hw_fails` | the undo of a failed `adlak_hw_init` uses the `pdpm` it has just freed |
| `MCLife_rebind` | a second probe in the same module takes the freed pool of the ids for a live one |

More of this kind, which has no file of its own, is had by changing `Allow`,
`MayFail` or the invariants in the configuration of the passing run:

| setting | violated | because |
|---|---|---|
| core: `ForeignIndex = TRUE` | `ContextOutlivesTasks` | an unregister looks for invokes of the net named by the client, and detaches its own |
| life: `Races` | `PowerAgrees`, `UsesHeld` | sysfs resumes without a lock |
| life: `ThreadFails` | `AllOrNothing` | the error of `adlak_os_thread_create` is overwritten |
| life: `StopUnstarted`, with CHECK_DEADLOCK FALSE | `ProbeEnds` | a thread stopped before it ran never answers |
| life: `Unmapped` | `UsesHeld` | a region that was not mapped counts as a success |
| life: `OpenAtRemove`, `DebugAtRemove` | `UsesHeld` | files and attributes outlive what they use |
| mem: as it is, with a pool | `LiveIsBacked` | a pool without room hands out an offset of one byte, and nobody takes it for an error |
| mem: `DmaFails`, without a pool | `BooksExact` | memory that was not had is subtracted at its release |
| mem: `ShareThroughDma`, without a pool | `LiveIsBacked` | the first handle frees an area that others have, too |
| mem: `FreeExternal` | `BooksExact` | bytes of attached pages are subtracted that were never added |
| mem: `OtherNet` | `RunningBuffersStay` | a net is detached while its invoke is counted |
| smmu: `DettachRunning`, `OtherNet` | `DeviceReaches` | a buffer or the net of the running invoke goes |
| smmu: `RegisterTwice` | `TablesExact` | the private queue of the first registration stays in the table |
| smmu: `Overlap`, `Default`, `TypeChange` | `TablesExact` | the second table takes an address without a look, or buffers are removed from other tables than they are in |
| smmu: `NoModel` | `TablesLast` | a file that is closed without a net keeps its table object |
| smmu: `Fallback` | `DeviceReaches` | a context with private tables only is run with the public queue |
| private: `Fail` | `SecondAfterFirst` | the second part follows a first one that failed |
| private: `Skip` | `FailureIsReal` | a segment out of order is resumed where another was |
| private: `Retype` | `FailureIsReal`, `NothingLeft` | the interrupts were placed for the old type |

## The proofs

TLC decides small instances; these theorems hold for all values of the
constants.

**Queue and thread.**  `AdlakInferenceProofs` proves `Spec => []IInv` for any
numbers of nets and tasks, any bounds, with and without TEE, suspends and
`share_swap_en`, under `WorkqueueAssumption`, `InferenceAssumption` and
`Discipline`: users do not invoke a linked model and name no net but their own,
closes are not interrupted, and a net has one model.  The configurations
`relink`, `close_signal` and `two_models`, and `core` with `ForeignIndex`, show
that none of these can be dropped.

`ScheduledIsHeld` (`scheduled_list` is what the thread holds in `cur` and
`pre`) is the heart of the safety of the queue, but it is not inductive:
WQ_RESET forgets both.  `HeldInv` adds where in its loop the thread can hold a
task and in which state the task is; `PowerInv` adds that the thread holds
tasks only with the power on, so that RESUME never leads to WQ_RESET with `pre`
set; `NetInv` is what makes this so with `share_swap_en`, where the thread may
sleep on an unreported task only if that is to go on.  `AliveInv` says how far
a close can have come while a task of the context is in which list, and rests
on `CloseInv` (a token of `ctx_idle` means that nothing of the context is
scheduled any more) and on one model for each context.  `ListsInv` keeps the
lists disjoint, `NumInv` bounds `pending_num` from below, and `WaitInv` relates
results and tokens.

**Ring.**  `AdlakRingProofs` proves `RingInv`, and from it
`NothingOverwritten`, `ReadsCommands`, `SpaceIsConservative` and
`SubmitIsSeen`, for a ring of any size and layers of any accepted size.  The
offsets are compared by their distance on the ring (`Used`), for which three
lemmas on the modulus suffice: seen from the driver's old read offset `rd` the
parser's `rpt`, its `wpt` and the write offset `wr` follow in this order
(`OffsetsInv`).  What is unread is the window from `rpt` to `wr`; a layer that
fits in the space computed from `rd` fits in front of `rpt`, and the unit the
space check keeps back is why a full ring does not look empty.

**Interrupt.**  `AdlakIrqProofs` proves `IrqInv` for any number of tasks and
stamps, if `~Expires`: while a submission waits, the answer of the device is
still to be handled (`Unhandled`), recorded with a token for it (`Recorded`),
or lost (`Silent`): swallowed by the timeout flag that the task's struct kept
from an earlier submission, or unheard as an overrun of the profiler's buffer has
disabled the interrupts.  Tokens exist in the second case only, which is why
none is left for the next submission, and a judgement is about the task's own
time stamp even after an overrun.  Between submissions the interrupts are enabled or an overrun has
disabled them (`InterruptsStayOn`); that they are enabled (`InterruptsOn`) is
what `MCIrq_dram_overflow` refutes.  `MCIrq_stale_irq_token` shows that `~Expires` is needed.

**Memory.**  `AdlakMemProofs` proves `MemInv` for any region, handles and
contexts, with and without a pool and with failing DMA allocations, if no share
buffer is asked for that the area has no room for (`share_growth` shows why).
That no two buffers share a page is not inductive: an allocation looks at
bits, not at buffers.  `BitsInv` says that the bits of every buffer, of the
area and of the public queue are set, `NoneLost` that no others are (a buffer
that its client lost still counts as one), and
`ApartInv` that each set bit has one owner; a search that finds only clear bits
then keeps them apart, and a release clears only bits of its own.  The area
goes with its last reference: `AreaInv` has its reference count equal to the
number of live share buffers, and all of them inside, so that it is empty when
its bits are cleared, and its growth downwards from the top keeps the old pages.
The search itself picks the least gap, which exists as `<` is well-founded on
the naturals (`LeastIs`).  `RolesInv` relates private queues with their nets
and lists with owners; `NothingLeaks` and `RunningBuffersStay` rest on it, the
latter for clients that unregister no net but their own (no `OtherNet`).

**The books.**  `AdlakMemProofs` also proves that what the memory manager counts
is what there is: `used_count` is the number of set bits, the reference count of
the shared area, pool or DMA, is the number of share buffers, and a context is
charged for what it owns (`BooksExact`).  The
sums are cardinalities of sets of pairs (`CountedIn`: a buffer and one of its
pages), so that a step that adds or removes one buffer changes them by the
library's theorems on unions and differences.  `CountInv` gives each counter
its value, `DmaAreaInv` does so for an area without a pool.  Three hypotheses:
no share buffer is refused (`share_growth`), no DMA allocation fails, for
one that failed is subtracted when it is released, and no client frees pages it
has attached (`FreeExternal`), for the same reason.  The type invariant
`MemTypeOK`, that no count of references or pages goes below 0, needs only the first.

**Pages.**  `DriverKeepsPages` says the same as a refinement: every behaviour of
`AdlakMem` is one of `PageStore`.  The invariants above speak of one state; this
adds what a step may do: a request gives pages to one buffer and touches no
other, a release takes all and only what its buffer had, the area keeps its
pages as it grows.  A refusal moves nothing, and so does the undo of an allocation,
unless others use the area: then it has grown and stays so (`Widen`).  The link to
the code is one equation, `FreePages`: the pages free for the clients are those
whose bit is clear, which is `MapIsExact` read backwards.  What is left is a case
for each way in which an allocation can end (`Got`) and a buffer can be given
back.  It needs only that no share buffer is refused.  The mapping also needs the pages
to stay within the region, which is a part of `MemTypeOK` (`MemTypeCorrect`); TLC
checks it as a part of the refinement.

**Service.**  `AdlakServiceProofs` proves `DriverServesJobs`: every behaviour of
`AdlakInference` is one of `JobService`, a job's phase being read off the three
lists and the state of its task (`Phase`).  Most steps stutter; an invoke
queues a job, the thread's scheduling starts it, its result ends it, the thread
reports or discards it, and cancel, unregister and close withdraw it.  Beyond `IInv` this rests on
`OrderInv` (`ahead` speaks of tasks of the pending list only) and on
`AskedInv` (the flag `invoke_canceled` of a linked task says that the user has
cancelled *this* invoke).  The latter needs `~InvokeCanceled`: `sticky_flag`
shows an invoke after a cancelled one that is dropped.  The refinement needs
`~ShareSwap`, too, as the share of swap memory keeps the thread at one net and
so out of the order of the queue.  `CountsAreExact` (`invoke_cnt` is the number of
linked tasks of the context, `sched_num` the length of its list) comes from
the same invariants.

**SMMU.**  `AdlakSmmuProofs` proves `SmmuInv` and with it `SmmuTypeOK`,
`TablesExact`, `TablesLast` and `DeviceReaches`, for any number of contexts,
handles and pages, in the plain case `Allow = {}`; the pages of the SRAM
(`Excluded`) must leave room for the public queue, `Excluded # Page`.
`TableInv` is to a table what `BitsInv` is to the pool: its bits, its count and
its translations are those of the buffers entered in it, in that table and no
other (`In`).  That a buffer can be removed from the tables it was entered in
needs `LifeOf`: the type of a context stays while it has a table, the table
while the context has buffers, its net or an invoke.  `FlushInv` is the
argument about stale translations: what a context allocated since its last
flush has `smmu_tlb_updated` set, so that the submission flushes it, and what
a submission has flushed stays clean as long as it runs, for neither side
touches the pages of a buffer in use.  `DevInv` then has the device reach what the
running part needs.  The table of `Allow` above says what each other name breaks.

**Private queues.**  `LayersStayApart` holds for all models, sizes and
histories without any hypothesis: the words of two layers never overlap.  The
size of the queue is one sum over the layers (`ExpectedTotal`), their places
another (`Ends`), and the second is bounded by the first layer by layer
(`SumsCompare`); so no end but the last comes to the size of the queue, and
only that one wraps, to 0.  The sums are recursive functions on a finite range
of the integers; that these exist (`RecursionExists`) and that sums grow and
compare as they should is proved by taking the least index at which it would
fail.

The protocol is proved in the plain case, `Allow = {}`: parts in order, one type
for a registration, and no failure of the device *between* the two parts
of a submission.  It is also needed that no single invoke fills its queue
(`PlainModels`); `private_full` shows the failure that follows from such a
model, and `part_hangs`, and `Fail`, `Skip` and `Retype` above, why the names
are excluded.  `PrivInv` says where the parser stands, as a function of the
number of layers it has executed (`PlaceInv`), what these were (`RanInv`), and
where the one interrupt of the part is: not given yet, pending, or a token of
the right semaphore (`SignalInv`); between submissions, `RestInv` says that
the parser stands where the next segment begins if the queue is still loaded.
That the device takes up the right layer is then a fact about the layout: the
layers of the device begin at different places (`BeginningsApart`), neighbours
touch (`NeighboursTouch`), and software layers between them take up nothing
(`GapsClose`).  `RunsAsPlanned`, `FailureIsReal`, `NothingLeft` and
`SecondAfterFirst` follow; the last has no run of its own.

**Life cycle.**  `AdlakLifeProofs` proves `LifeInv` and with it `UsesHeld`,
`AllOrNothing`, `PowerAgrees` and `LifeTypeOK`, for any number of minors and open
files and for any set of failing steps that the code survives, if the system
keeps to the plain case (`PlainLife`: `Allow = {}`, `MayFail` within
`Survivable`).  `hw_fails` and `irq_fails` show why "hw" and "irq" are not
survivable; a failed `class_create_file` or `platform_driver_register` leaves
the class, or all of the module, behind.

The argument is about the lists, not about their labels one by one.  What the
kernel's thread has left is a suffix of one of six lists (`TodoInv`), and
everything else follows from the steps still ahead (`Ahead`): what is held is
what the steps already done have taken, or what those ahead are to give back
(`HeldInv`); so does whether `dev_mutex` is held (`Inside`), how far the end
of the thread has come (`ThreadInv`) and who may switch the power (`PowerInv`).
`TakeOrder` and `GiveOrder` are the facts about the code's order of steps that
this needs, such as: the registers are mapped before the hardware info is set
up and unmapped after it went; the thread is joined before `dev_mutex` is taken;
remove resumes the device before `adlak_hw_deinit`, and nothing between the two
can switch it off again.  They are proved for every suffix of each list, from
the places of the steps in it (`Placed`).  A failure is one more lemma of that
kind: the list that a `goto` leads to gives back exactly what the steps before
it have taken (`FailOrder`, `ProbeFails`, `LoadFails`), but for the regulator,
the two locks and the minor.  Clients fit in by `ClientInv`: a register access
that has begun lasts at most until remove's first step.

Each proof has one lemma for each action, with a step for each conjunct that
the action can disturb; a lemma of the form `NextInv` collects them and the
theorem concludes.  The theorems after it derive the properties that the runs
check.

Only model-checked: liveness under fairness (`SubmissionEnds`,
the ends of probe, close and suspend, that no net is starved) and ENABLED are
outside what the prover does.  What the hypotheses exclude is checked by TLC
where a configuration above says so.

## Not modelled

- The contents of commands: register values, dependency commands and address
  fixups.  What they add to the size of a layer is in `AdlakRing` and
  `AdlakPrivate`.
- `adlak_mm_mbd.c`, a stub that `use_mbd = 0` never selects, and the build with a
  misc device instead of a character device.
- User mappings and cache maintenance of buffers; the flush of the tables, on
  which the device depends, is in `AdlakSmmu`.
- Profile counters, debug output, the frequencies between off and on, device
  tree and module parameters.
- What lies below the granularity of actions: the order of `wq_mutex` and
  `dev_mutex`, the unlocked walk of `finished_list` in GET_STAT, and reads of a
  task after the unlock.  These are in `hazards` without a property.
- In the modules of the queue, allocations do not fail, but for the task of an
  invoke, which is refused then; the code goes on with the error pointer.  A
  registration over an idle one leaves the old structs to the heap: in the
  model the one task stands for both.  A client is one thread
  of execution for each open file.
- `submit_blocking`, which runs a task inside SUBMIT and skips the report of
  the one before it: a module parameter for debugging, off unless it is given.
- In `AdlakPrivate`: a private queue that cannot be allocated, for such a net
  is one of the public queue; a registration over a net whose invoke is running;
  and the overrun of the profiler's buffer, which is in `AdlakIrq`.
- A wait of the first part that a signal ends (`sema_take` is interruptible):
  the inference thread is a kernel thread and allows no signal.
- The modules meet at names, not by composition: `invoke_cnt` is `cnt` in
  `AdlakMem` and `AdlakSmmu`, and a submission of `AdlakInference` is one cycle
  of `AdlakRing` or `AdlakPrivate` with `AdlakIrq`.

## Plan

What a next step would take, in this order:

1. `AdlakRing` with `AdlakIrq`, and `AdlakPrivate`, as refinements of `SUBMIT`
   and `SUBMIT_WAIT`.
2. A lock-order module for `wq_mutex`, `dev_mutex` and `context_mutex`.
3. Page tables as a refinement, as `PageStore` is for the pool: what a
   submission may never touch.
4. Dependency commands as pure operators.
