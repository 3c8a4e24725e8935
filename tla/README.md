# TLA+ models of MindIE SD

This directory holds TLA+ specifications of the stateful and algorithmic parts of
MindIE SD (the Python package `src/mindiesd` and the operators in `src/csrc`), TLC configurations that check them on small instances,
and proofs, checked by TLAPS, of their main invariants for every instance.
`PROJECT.json` is the index: which definition stands for which lines of the
source, what every run checks, which mutation of the code each property detects, the
hazards and the findings.

## 1. Inventory of the system

| component | source | state it keeps | operations | interacts with |
|---|---|---|---|---|
| EPLB protocol | `eplb/collector.py`, `dispatcher.py`, `task_*.py`, `eplb_scheduler.py` | per rank: token counts, `update_flag`, index maps, `module_state`, `update_valid_tensor`; two queues per rank; buffers of the scheduler | collect, check_consistency, update; PROFILE, UPDATE_LAYOUT, exit; sweep, compute, emit | inference threads, worker threads and their transfer streams, a scheduler process, the collectives of the ranks |
| EPLB layout computation | `eplb/greedy_algorithm.py` | lists, loads, memory and transform tensor of one call | place, replicate (A2A, AG), exchange (EX), build tables | called by the scheduler |
| Cache agent | `cache_agent/` | step and block counters, cached tensors | apply | called by the transformer instead of every block or attention |
| Weight offload | `offload.py` | which blocks are on the device, events of the copy stream | forward pre- and post-hooks | the blocks of a model, their caller, three streams, the allocator |
| Weight sharing | `share_memory.py` | shared tensors, sockets | move, count READY, publish; send READY, receive ACK, receive handle | a master and other instances on one device (ZeroMQ) |
| Graph capture | `compilation/aclgraph_backend.py` | captured graphs by shape | capture, replay | the compiler back end |
| Fusion passes | `compilation/` otherwise | registered patterns | register, match, eliminate nodes | torch.compile |
| Quantization | `quantization/` | the time step (`TimestepManager`); layers replaced once | quantize, forward | the layers of a model |
| Layers | `layers/` | an LRU of attention choices | forward | custom operators |
| Logging, env, files | `utils/` | log files | log, rotate | processes that share a log |
| Operator plug-in | `csrc/plugin/` | huge memory of a thread, converted arguments, a queue of tasks | look up, check, convert, get workspace, enqueue, run | the operators' libraries, torch_npu, the device's stream |
| Laser attention | `csrc/ops/laser_attention/`, `layers/flash_attn/ascend_laser_attention.py` | workspace in two slots, buffers and flags of a core | tiling; scores, softmax, values | a matrix core and two vector cores per group |
| Preprocessing | `csrc/ops/la_preprocess/` | a double buffer | cast, transpose, pad | vector cores, which share the rows |
| Sparse block estimate | `csrc/ops/sparse_block_estimate/` | the sizes of a step, **global to the library**; a ring of parameters | tiling; product, two reductions, selection | the host, a vector core and its matrix core |
| Adaptive sparse attention | `csrc/ops/ada_block_sparse_attention/` | a ring of parameters, the list of blocks to load | tiling; distribution, steps, results | the mask of the estimate, vector and matrix core |
| Older kernels, toolkit helpers | `csrc/ops/ascendc/`, `csrc/ops/utils/` | - | - | the former is not built by `build/build_ops.sh`, the latter wraps the toolkit |
| TIK attention | `csrc/ops/tik/` | - | one operator, generated by Python | built by `build/build_tik_ops.sh`, called by no code of `mindiesd` |
| Examples, service | `examples/` | - | - | all of the above |

What is hard in it, and what makes each component correct:

* **EPLB protocol.** Three kinds of asynchronous actors per rank and one process
  exchange layouts over queues that may lose their server or be drained late.
  The consistency check reduces one bit over the ranks. Correct means: ranks that
  compute together use one layout, with the weights and the maps of that layout, on
  the device; no layout is forgotten or applied backwards; inference never waits for the
  balancer, nor a rank in a collective for one that passes it by; a computed layout is finally applied.
* **Layout computation.** Long loops of small index manipulations. Correct means: every
  expert has a holder and a right position in the tables, no memory is exceeded or
  wasted, the transform tensor says what was swapped, and the greedy choices do
  lower what they say they lower.
* **Cache agent.** It is told neither step nor request and derives both from the
  number of calls. Correct means: what is reused was computed by this request, for this
  block or range, when it was last due.
* **Operators.** A call is checked in three places (plug-in, conversion, tiling function), may raise in each, and its
  task runs later, in another thread. Correct means: what a task needs lives until it has run; every call settles.
* **Kernels.** A core's pipes run beside each other and only flags order them; cores of a group, and the cores that share the
  work, agree on nothing but numbers each derives for itself from the tiling data. Correct means: no two pipes touch a buffer
  in an order nobody fixed, no flag is left or missing, every block is computed once, what one core leaves is where the other
  looks, a row is reduced whole, and parameters of a step are those of that step.
* **Weight offload.** The host gives memory away while kernels that read it are still queued; two hooks, with bounds of their
  own, load ahead and give back behind. Correct means: the kernels of a block find its weights, however far the host is
  ahead; the device never holds more blocks than that takes, and memory does not pile up when passes raise.
* **Weight sharing.** A handshake over one pair of sockets guards what goes over another pair that may lose it, with time-outs
  of unequal length and one wait without any. Correct means: a parameter is built on the memory of that parameter; whoever calls gets an answer.
* **Graph capture.** Captured graphs keyed by shape; see the plan.

## 2. Modules

| module | models | about |
|---|---|---|
| `EplbReplica` | what the ranks may rely on: one sequence of layouts, applied by all | the abstract specification of `EplbProtocol` |
| `EplbProtocol` | the protocol of EPLB | 25 actions; threads, streams, processes, queues |
| `EplbTables` | inputs of `eplb_greedy`, `process_final_placement` | operators shared by the next two |
| `EplbPlacement` | `--mode A2A` and `--mode AG` | one action per placed expert and per copy |
| `EplbExchange` | `--mode EX` | one action per round |
| `CacheAgent` | `cache_agent/` and a caller | one action per outcome of a call |
| `Offload` | `offload.py`, its caller, the streams and the allocator | one action per hook and outcome, one per stream |
| `ShareMemory` | `share_memory.py` in every instance of a device | one action per send, receive and time-out |
| `MCEplbPlacement`, `MCEplbExchange` | - | the traffic the runs of these two try |
| `AscendInstructions`, `AscendCore` | the machine: pipes, flags, dispatch | external, from how the kernels use it |
| `AscendDataflow` | what a kernel's author may rely on | the abstract specification of `AscendCore` |
| `LaserTiling`, `LaserAddress` | host tiling of laser_attention; which core works on which block | functions of a request |
| `LaserCube`, `LaserVector`, `LaserKernel`, `LaserSoftmax` | the matrix core, a vector core, both together, the reduction of a row | programs; bags of what was folded |
| `Preprocess` | la_preprocess, host and kernel | rows of a core; program |
| `SparseTiling`, `SparseEstimate`, `SparseReduce` | sparse_block_estimate: host, core group, sums and selection | functions, ring, program |
| `AdaArguments`, `AdaTiling`, `AdaTasks`, `AdaRing`, `AdaKernel` | ada_block_sparse_attention: what the host reads of a call, its tiling, distribution, steps, core group | functions, ring, program |
| `OperatorPlugin` | `csrc/plugin`: look-up, checks, shapes | functions of an environment and a call |
| `OperatorCalls` | `EXEC_NPU_CMD`: caller, queue, stream, device | 11 actions, composed with `AscendCore` |
| `OperatorResults` | - | what has to hold of an accepted call |
| `MCOperators` | - | the scripts and programs of the run |
| `*Proofs` | - | theorems about the module of that name |

`EplbProtocol` treats a layout as the number of the computation that made it;
`EplbPlacement` and `EplbExchange` say what is in one. The two views meet in one place: the
protocol shows that reports of different layouts can be in one computation (EX), and
`EplbExchange` starts from any lists, so also from such that belong to different layouts;
`CoverDecides` says which of them make `random.choice` raise, and `ComputeRaises` lets
the scheduler die of them.

### EplbProtocol

State: `main[r]` is the program counter of the inference thread in the documented order
*collect, check, (update), GMM*; `tick` is `ProfileTaskTransfer.flag`; `vote` the clone
in `check_consistency`; `flag` is `update_flag`; `map` the layout of the index maps and of
`local_expert_list`; `weight1`, `weight2` the layouts of the two weight lists the block
computes with; `worker[r]` the program counter of `expert_info_transfer_pool`; `staged` the
layout in `module_state`; `landing` says that the copies and the `fill_(1)` of
`copy_module_weight_and_map` are queued on the transfer stream and not executed; `valid`
is `update_valid_tensor` as the device sees it; `instr`, `upload` are the queues, `reports`
the two buffers of the scheduler, `at` the rank its sweep has reached. `lost` and `taken`
are history variables.

Granularity: an action is what happens between two points at which another actor can
interfere. `update_module_weight_and_map` is three actions, for it reads `module_state`
twice after it has released `update_lock`; `handle_update_layout_task` is two (the test of the flag, then
the staging), `handle_profile_task` is two, `update_emit_task` one per rank, the sweep one
per rank. `.to(device)` without `non_blocking` synchronises, so that the stream is
empty when a layout is staged (`Stage` requires `~landing`).

What the application does comes from `docs/en/features/DyEPLB.md:80`: the order of calls in the
MoE block, the update only if `update_flag` is set, `exit` put in the queue.

`EplbReplica` is the promise without the machinery: `layouts` computed so far, `map[r]` the layout rank `r` routes with, `due[r]` that it
has to take the step the ranks have decided on, and `lossy` the ranks that have lost a layout. Ranks decide together (`Decide`), and each takes its step
when it comes to it (`Switch`): to the next layout while none is lost, and never back or ahead of what is computed after that. In
`ReplicatesLayouts` `due` is `update_flag` and `lossy` the ranks of `lost`; the queues, the stream, the staged layout and the weights are
what the implementation adds. `LayoutNeverGoesBack` follows from it.

Not in the module: the token counts (a report is known by the layout it
describes), several MoE layers (they share queues and threads only), the
random extension of short lists in EX (`eplb_scheduler.py:103`; it only adds
experts), and the reading of `expert_trans_tensor` by the application.

### EplbTables, EplbPlacement, EplbExchange

`list` is `device_to_expert`, whose order decides the local indices; `placement[d, e]` is
1 exactly if `e` is on `list[d]`. Ties: numpy's default `argsort` is not stable, so that
experts of equal demand, and pairs of equal distance in EX, are taken in any
order; a copy with equal score is taken by scan order in A2A and, through rounding, by
chance in AG, and the model takes any. AG computes with fractions; the model multiplies the
loads by `Scale`, a multiple of `k * (k + 1)`, which makes all shares whole. EX
computes with whole numbers and floor divisions, as does the model. In EX the tensor
`expert_trans_tensor` is a permutation matrix; `source[s]` is the row of the 1 in column `s`.

### CacheAgent

`config` is any configuration `_check_config` accepts, `model` the number of outputs of the cached
function and whether it takes `encoder_hidden_states`; `cur_step`, `cur_block`, `cache`,
`output_count` are the fields of the agent; `request`, `length`, `step`, `block` is the
position of the caller, which the agent cannot see. A cached tensor is known by the
calls it comes from: a result `to`, an input `from`, or their difference. The caller may
run requests of any number of steps, and the function may raise, which leaves the agent's count in
the middle. Left out: the memo `_time_cache`, functions that return None, and keyword
arguments without `hidden_states` (errors of the caller before any state changes).

### Offload

The host only queues. `phase` and `block` are the place of the caller in a pass; `queue[s]` is what stream `s` has still to
execute, `recorded` and `reached` count the events put on a stream and passed by it, `event[b]` is the number of the recording
`model.event[b]` stands for. `storage[b]` is the piece of memory a block has, `free` those that have been given back, `content`
whose weights each piece holds, `pinned` those of `p_cpu`. The allocator hands out freed memory of `h2d_stream` at once, since all
of it was allocated under that stream; it waits for no kernel of another stream. Who keeps a copy from overwriting weights that are still
read is the event `h2d_stream` waits for, recorded by the host after the kernels; the event of the post-hook is never recorded, so that
waiting for it is nothing. A block may be skipped (what `cache_agent` does), a pass may raise in a block or in the pre-hook.

`ComputesOnItsWeights` excepts, and thereby names, what the code does not guarantee: a block that no pre-hook of the pass has loaded,
because the block that should was skipped, has no memory, and its forward function raises; and after a pass that has raised in a pre-hook, between
the new memory and the copy, a later pass that skips the loading block computes on what was in that memory.

### ShareMemory

`pc[i]` is the place of an instance in `share_memory`, `moved[i]` how many of its parameters are on the device, which is also what
`_check_device_and_dtype` looks at (the first one). `waiting` and `acked` are the READYs and ACKs on their way, at most one per child because REQ and REP
alternate; `joined` are the children whose subscription has reached the master, which `zmq` does at any time after `connect`; `inbox`
holds what was published since. A time-out may pass whenever there is nothing to receive. A call that raised may be repeated, which
the documentation neither asks for nor forbids: READYs are counted and not children, so that a child that calls again is counted for another one,
handles are lost to that one, and it builds its parameters on handles of later ones. `SharesItsOwn` says how much later: by no more
places than calls have been repeated, hence not at all if none was.

One device at a time. `rep_port` of device `d` is `pub_port` of device `d + 1` (`share_memory.py:40`), so that two masters on adjacent
devices of a host with the same `base_port` cannot both bind; the ports are not in the model.

### The operators

`AscendCore` is a machine with the state `kernel` (the program), `pos` (how far each pipe and scalar unit has come) and
`busy` (the instructions under way). An instruction begins when its pipe is free and the scalar unit has handed it out, and
ends at any later time; `set` and `wait` are counted per event, as the hardware's flags are. A *race* is two instructions of
different units under way, or able to be, of which one writes what the other touches. The programs are not typed in: they are
computed from a geometry by the operators of the kernel modules, turn by turn, with the ping-pong flags and the early
`SetFlag`s of the code, so that another shape gives another program.

`OperatorCalls` puts calls on top. `script` chooses one of the sequences of calls of the instance; `status[i]` says how far call
`i` has come; `hugeMem`, `held`, `queue`, `stream`, `current` and `baseSizes` are the thread's huge memory, the converted arguments not
yet released, the tasks, the kernels put on the stream, the one that runs, and the two sizes that `sparse_block_estimate`'s
tiling function keeps in global variables and only ever lowers. A call raises in the plug-in (`RaiseAtOnce`), in a conversion
(`RaiseInConversion`), in the library (`RaiseInTiling`) or for want of memory for its workspace (`RaiseInAllocation`, when the
tiling function has already lowered its sizes), or becomes a task, which succeeds or fails later. The queue, the
stream and the device belong to torch_npu and CANN and are external.

What the kernels *compute* is a function of the request, and `OperatorResults` states it at the moment a call is accepted: the
tiling function's output, the distribution over the cores, the addresses, the reductions and the ring of parameters, all
derived from the code's arithmetic. Elements of tensors are known by where they come from: a sum is the sequence of what was
added, a result the steps and the factors in it.

Conditions of `OperatorResults` that are named after what the code does **not** guarantee:

| condition | without it |
|---|---|
| `CountsWhatRuns` | on a device of 25 matrix cores the mapping of laser_attention counts a core more than is launched |
| `CoresSuffice` | a share rounded to float may need one vector core more than there are (50 of them) |
| `FewSteps` | after a call for short sequences has lowered the library's sizes a block may have more than the 16 steps a comment of the kernel relies on |
| `HoldsARow` | la_preprocess would copy no row at a time, without end, when a row is longer than its buffer |
| `KnowsBatches` | the kernel takes every batch to have as many rows as the host has counted: for tensors of two dimensions with several lengths, and for the layouts TND and NTD_TND, whose sizes the host keeps in other variables, it finds its places elsewhere or nothing at all |
| `needInit` in `AdaOutput` | the host notes that the output needs zeros first; no kernel that is built reads the note, and rows past a length keep what the memory held |
| `AdaRuns` | a tiling key without a branch in the kernel (half with inner_precise 0 or 2) leaves the output unwritten |
| `Computes` | inner_precise 4 makes buffers too small |
| `SameBases`, `HasRoom` | the kernel takes two sizes for each other; blocks of 64 rows need 16 positions and the structure has 8 |
| `MaskFits` | the mask is allocated by the length of the query and read with a stride by that of the keys |

`MCUnordered` names, per kernel, the pairs of instructions that no flag orders and that therefore do race in the model; `NoRace` is stated
for all others. They are: the copy of the next lines of scores over those the vector unit may still read, where a section starts its rows
(V, MTE2); the zeros of `la_preprocess`, written by V and copied out by MTE3 without a flag; the scalar reads of buffers the vector
unit writes when the estimate keeps everything by default; the reordered queries of a block, written while the product of the block before may
still read the buffer, if the two blocks' numbers have the same parity (M, MTE3); and the copies of second products while the ring of the adaptive
attention is drained (V, MTE2). The last is in the list of hazards at its line.

Not in these modules: arithmetic of elements (rounding to half, exponentials), the insides of the library's Matmul, the quantized,
paged and masked variants of the adaptive attention that the plug-in never asks for, the triangular and windowed mapping of laser_attention, which
its host never asks for either.

## 3. What the runs check

| run | instance | result |
|---|---|---|
| `protocol_two` | 2 ranks, 2 layouts, A2A/AG | 2.0 million states, passes: types, agreement and landed weights unless a layout is lost, weights never older than maps, no layout forgotten, and all of it is a behaviour of `EplbReplica`: decided together, applied by each in order |
| `protocol_ex` | 2 ranks, 1 layout, EX, a scheduler that may stop, rank 0 may be told to exit | passes: agreement also when queues vanish; every pass of every rank comes to its end as long as the scheduler is up |
| `protocol_live` | 2 ranks, 1 layout, up to 2 PROFILEs waiting, fair | passes: a computed layout is applied by all, unless one is lost |
| `protocol_torn` | 2 ranks, 2 layouts | **violation**: weights of a newer layout than the maps |
| `placement` | 3 devices, 4 experts, redundancy 0 and 1, A2A and AG; every 0/1 traffic, and every one of 0 to 2 on the last device | 560 thousand states, passes: also that A2A's copies are the best use of the memory, and each copy of AG the best of its round |
| `exchange` | 3 devices, 3 experts, 2 places each, traffic 0 or 150, 3 rounds | passes, from every choice of lists |
| `cache` | every configuration up to 4 steps, 3 blocks, interval 3; 2 requests | 4.5 million states, passes |
| `cache_one_block` | 1 request | **violation**: a range of one block caches its input |
| `offload` | 3 blocks, 0 to 2 of them reserved, 2 passes, of which both may raise | 192 thousand states, passes: kernels find their weights, memory is bounded, also after failures |
| `share_memory` | 4 instances, 3 parameters, 2 repeated calls, any of the models on the device already | 191 thousand states, passes: handles are those of their parameters, calls end |
| `share_documented` | 2 instances, 2 parameters | **violation**: the master of the documented example shares nothing |
| `operators` | 11 kernels' programs at small shapes, scripts of up to several calls at real shapes | 145 thousand states, passes: a call is at one place and its task's arguments live; no race, no flag left or taken twice; the device refines `AscendDataflow`; every call settles; work is shared out once, found where it is handed over, reduced whole; rings keep their parameters |

Three more configurations are kept for a reader to run, each on a known difference between the code and what is said of it (section 4):
`EplbProtocolDisagree.cfg` (`EplbProtocol`), `EplbExchangeGap.cfg` (`MCEplbExchange`) and `CacheAgentStepEnd.cfg` (`CacheAgent`); TLC finds their property violated.

Bounds and why they are enough. Two ranks are the fewest that can disagree; a third adds
queues but no kind of interaction, the collective being all or nothing. Two layouts are the
fewest for one to overtake or replace another. The queues of the code have no capacity (`eplb_scheduler.py:85`), so that a put never waits and
`queue.Full` is never raised. The model bounds the PROFILEs of a queue in a guard: a pass that would add one too many waits until the
worker has taken one, and for a worker that has ended, whose queue nobody reads, none is kept. With two of them in a queue (`protocol_live`) an UPDATE_LAYOUT
waits behind several. One report per queue is enough for one that replaces one. For placement, three devices are the fewest on which a copy
is shared by more than one old holder, and four experts in three places make `MemoryError`
happen; with 0/1 traffic every copy that pays is as good as any other, which is why one device, one that
has room for a copy, also gets demands of 2. For exchange, three devices leave one that is neither the most nor the least loaded, and three
rounds let a swap undo or reuse an earlier one; 150 is above the threshold of 100, and two such
experts on a device make gaps of different size. For the cache, an interval of 3 within 4 steps has
two reuses after a refresh, three blocks have one before, in and behind a range, and a second
request meets what the first has left.

For offload, three blocks have every relation of a block to the reserved ones (before, loaded ahead, given back) and two blocks that use
the same memory one after the other within a pass; a second pass meets what the first has left, and an exception in either leaves something
unusual: the bound of all blocks and one is reached. For sharing, three children let one of them be counted for another while the third is in step; two repeated calls make the bound of
`SharesItsOwn` bite (with one place less it is violated), and three parameters have one that is neither first nor last.

For the operators, a program is run at the smallest shape at which each of its loops turns at least twice, so that both halves
of every double buffer are reused and every kind of section, step or row (first, middle, last, only one) occurs; the lines of
a block are 4 or 2 instead of 128. Shapes of the scripts with several calls are real ones: lengths on and off the multiples the
code rounds to, one and several batches and heads, grouped heads, 20, 24 and 25 matrix cores, 4 to 50 vector cores. Their kernels
are one instruction long, so that the interleaving of calls, queue and stream is what the states are spent on. Several calls are
needed for what outlives one: the lowered sizes of the estimate, the huge memory of a failed call, and the order of the queue.

Deadlock is checked in `protocol_two` and `protocol_live`. The other passing runs end: an algorithm returns,
the last request is over, a script has no more calls, passes and calls of the bound are used up, or the scheduler is gone and the inference threads have raised.

Fairness (`FairSpec` of `EplbProtocol`): weak fairness for each thread, each transfer stream, the collective once all
ranks are in it, and the scheduler process. These are what an operating system, a device and a communication
library provide. Nothing is assumed of the application's `exit`, of an interruption of the scheduler, or of
which result `eplb_greedy` returns. `InferenceProgresses` is about the collective: it would be broken if `check_consistency` let a rank on which nothing
has arrived pass the all_reduce by. It is stated for a scheduler that is up: without it the next PROFILE raises in the inference thread.

`Offload` needs no fairness, having no liveness property. `ShareMemory` assumes weak fairness of the
steps of the master and of each child within a call, time-outs included, and of neither the callers nor the subscriptions.
`CallsEnd` is stated with the exception of a child whose READY finds no master in its call: `req_socket` has no time-out, and such a child waits for good.

`OperatorCalls` assumes `WF_vars(Next)` only: the caller goes on, the queue's thread and the device work. Which of them is
first is open, and no single action needs more, for none can be put off for ever by the others: each call passes a finite number of
places and each program is finite. `EveryCallSettles` thus says that no program stops at a flag nobody raises.

## 4. What the findings say

* `dispatcher.py:119`: the weights are read after `update_lock` is released. The worker sees the cleared flag,
  stages the next layout, and the pass computes with newer weights than its maps describe. The model also shows
  the limit of it: never with older ones (`WeightsNotOlderThanMaps`).
* `task_handler.py:53`: one bit cannot say which layout is pending. A rank that drops an update that another rank
  takes ends with another layout. As long as nothing is dropped or overwritten, ranks agree (`AgreementUnlessLost`).
* `greedy_algorithm.py:465`: the load a swapped expert brings is taken from the wrong device's row. With the same
  traffic on all devices, as after an all-gather, every executed swap narrows the gap (`UniformMoveNarrowsGap`).
* `dit_block_cache.py:91`: a range of one block is start and end at once, and only the start is handled.
* `share_memory.py:142`: a model whose first parameter is on the device already is returned as it is. The documented example moves the model of the master
  there first, so that the master shares nothing and the other instance waits for good.
* `dit_block_cache.py:55`: `step_end` is not consulted.

## 5. What is proved

All theorems hold for any number of ranks, devices, experts, layouts, steps and any bounds; they rest on the named
assumptions at the head of the modules (positive sizes, traffic in natural numbers) and nothing else.

* `EplbProtocolProofs`: `TypeCorrect`, then `Inductive`, the inductive invariant `IInv`. Agreement is
  not inductive: that two ranks' maps are equal in the collective follows from *how many* layouts each
  has applied. The invariant relates, per rank, the map, the staged layout, the one in the
  worker's hands and those in the queue, as an increasing sequence, and says that without losses each of them is the
  successor of the one before. From it follow `Agreement`, `Landed`, `Switchable`, `WeightsFollow`, `NothingForgotten`
  and the action property `NeverBack`.
* In the same module `Implements`: `EplbProtocol` implements `EplbReplica`. The locked part of the update is a `Switch`, the all_reduce in which every
  vote is set is a `Decide`, a computation is a `Compute`, and a layout dropped or overwritten is a `Lose`; every other step is a stutter, with
  one lemma for the steps of each actor (`MainThreadReplicates`, `WorkerThreadReplicates`, `AllReduceReplicates`, `SchedulerReplicates`). That `Decide` finds
  no rank ahead of what is computed needs one more conjunct, `KnownInv`: what a rank has taken has been computed.
* `EplbTablesProofs`: `TablesArrive`, the tables are right for any lists that cover the experts and are distinct. Also, for the two modules
  below, induction on natural numbers and on finite sets in the form of sets (`Induction`, `SetInduction`: a *set* that contains 0 and successors
  contains every number), which the provers can instantiate where the library's, with operators as parameters, they cannot; and from it what is needed of the
  community modules' sums, which are folds: `SumDefined` and the lemmas behind it say that the fold is a number and what one more summand adds,
  `SumOfLargest` that no set of as many elements has a larger sum than one that holds the largest.
* `EplbPlacementProofs`: `Inductive`, `TypeCorrect`, `MemoryHolds`, `Covered`. The invariant adds that an expert is waiting exactly
  if no device holds it; the theorem on the tables does the rest. `ServesMost` needs `ChoiceInv` as well: at every round of A2A the copies made so far are
  the most demanded ones a device does not already hold; at the end, an exchange argument (`SumOfLargest`) compares them with any other set that fits.
  `ServesMost` is about A2A, whose gains add up; a round of AG changes the gains of the
  next. `LowersMaxLoad` is what can be said of AG: the load it expects of a copy is the load of the new lists, old holders included (`ExpectedIsRight`), so
  that every copy lowers the maximum load and no other copy possible in its round would have left a smaller one.
* `EplbExchangeProofs`: `TypeCorrect`, `TransformHolds`, `PermutationHolds`, `DistinctHolds`, `CoverHolds`. A swap exchanges two places in the lists and
  the same two columns of the tensor; the arithmetic of `Slot` is a lemma. `UniformNarrows`: if all devices have the same traffic, the loads the algorithm
  keeps up to date are the sums over the lists after every swap, and the gap between the two devices becomes narrower.
* `CacheAgentProofs`: all five invariants of the `cache` run. `IInv` says, at each value of the agent's own count, which places of
  the cache are filled; it needs nothing of the caller, which is why `NeverReusesNothing` and `SubtractsAnInput` hold for
  requests of any length and functions that raise. While requests run whole, the count and the caller agree (`CountInv`).
  On that rests `FreshInv`, by which the cache holds, block by block, what was due one step ago until the step overtakes it;
  a lemma on remainders says that a step between two refreshes inherits what is due.
* `OperatorCallsProofs`, first for the machine: `CoreTyped`; then `WellOrderedHasNoRace` and `WellOrderedInOrder`, for kernels of any length, any pipes and any
  flags. The argument: `WellOrdered(p)` gives, for a program, a relation `before` that follows program order within a unit, pairs the n-th wait of an event
  with the n-th set and lets a wait of the scalar unit stop what follows; it asks that any two instructions that share a buffer be related. The inductive
  invariant `BeforeOver` says that an instruction that has begun has everything `before` it ended. Instructions are numbered within their unit
  (`RankOf`), which makes the invariant a statement on the numbers `pos`. From it no two related instructions are ever under way together, and
  every step of the machine is a step of `AscendDataflow` or a stutter. `PairedTakesFlags` needs no order of the instructions, only `FlagsPaired`, that no flag is set more often than it is
  waited for: each wait that has been passed is the partner of a set of its own (`FlagInv`), so that at the end, where all waits are passed, no set is
  left. `WellOrdered` and `FlagsPaired` are questions about the text of a program;
  that the kernels' programs satisfy what follows from them is what the run `operators` checks (`NoRace`, `InOrder`, `FlagsTaken`).
* Then for the calls: `CallsTyped` (the type invariant with the places of a call and the life of its arguments, for any scripts), `CallsRunKernels`
  (`Spec => CoreSpec`: what calls do to the device is a behaviour of the machine), and with it `CallsHaveNoRace`, `CallsInOrder` and `CallsTakeFlags` for any sequence of
  calls of such kernels.
* And for what calls compute: `PreprocessWritesOnce` (the cores of la_preprocess write every row of the padded output, and each once, for any lengths, alignment and
  number of cores; the hypothesis, `HoldsARow`, is that the buffer holds one row) and `AreasNeverOverlap` (no two areas of the adaptive attention's workspace
  overlap, and all are within its size). The first is about a concatenation over cores, which is a fold: `Concatenated` says, by induction over the
  cores, that pieces that each count up from where the one before ended count up as a whole.
* `OffloadProofs`: `TypeCorrect`, `ComputesRight`, `Bounded`, for any number of blocks, reserved blocks, passes and exceptions. The kernels of a block are queued long before
  they run, so that the invariant speaks of what is *queued*: an entry is known by its place, and one comes before another of the other stream if a recording lies between them that is waited
  for (`Before`). `KernelsRight` says of every queued kernel that the copies into its memory that are not before the kernel wait for it, and that those
  that are leave the block's weights there; `StorageFilled` says the same of the memory a block has and no kernel yet; `Numbered` keeps recordings in order, and
  `LoadedAhead` says how far the pre-hooks of a pass have come. The bound on memory is part of the invariant because more memory is only asked for when all there is belongs to a block (`Accounted`,
  `AllInUse`); after failures a block may hold two pieces for a moment, which makes all blocks and one.
* `ShareMemoryProofs`: `TypeCorrect`, and `SharesOwn`, for any number of repeated calls. That a handle is the right one does
  not follow from the sockets, which may lose it, but from the rounds: the master publishes a handle when it has counted as many READYs as it has children, and a child
  sends the next one only with a handle in hand. A child for which nobody repeats a call can thus be left out of a round only if another has
  sent two READYs in it, and that takes a repeated call. `TicketInv` counts it: the READYs by which children are behind the handles published (`Skipped`) and those counted
  in this round are never more than the READYs by which others are ahead (`Ahead`) and the repeated calls. Hence a handle may be for a parameter that many places later, and no more (`HandleInv`); with
  none repeated it is the right one.

Only model-checked:

* Liveness (`ComputedIsApplied`, `InferenceProgresses`, `EveryCallSettles`, `CallsEnd`), which needs ENABLED and fairness.
* `ReductionsComplete`, `RingKeepsTasks`, and what `WorkOnce` and `Handover` say beyond the two theorems above (the attentions' tasks and the softmax's
  and estimate's rows). They are about sequences that are computed from a request by folds, and would need an induction over each of the tables the host derives.

## 6. Plan and what is not modelled

Left, in this order:

1. The theorem for `RingKeepsTasks`: an induction over the tasks of a core, with the four slots of the ring of parameters as what is carried along.
2. `AclGraph` (graphs by shape), `PatternActivation`, `TimestepManager`, log rotation.
3. Several layers of the protocol, and the transform tensor as a variable of it.
4. The triangular and windowed mappings of laser_attention and the paged, quantized and masked paths of the adaptive attention's tiling function.

Not modelled, and why:

* `csrc/ops/ascendc` holds copies of the operators' sources, most of them identical line by line to those in the operators' own
  directories, which are the ones `build/build_ops.sh` builds. `csrc/ops/utils` is registration, logging and helpers of
  the toolkit, and `csrc/ops/tik` the registration of an operator that is generated by Python and called by no code of `mindiesd`. Together they are more than half of the lines under `csrc`.
* Of the rest of `csrc`, what the plug-in can reach is modelled; the greater part of the adaptive attention's tiling function and kernel headers
  serves arguments its operator does not have.
* Hazards of the balancer no property is stated about: a second report of a rank replaces its first in the scheduler (`eplb_scheduler.py:108`); a round in which rank 0
  alone saw no tokens is thrown away (`greedy_algorithm.py:580`); `get_expert_trans_tensor` reads without `update_lock` (`dispatcher.py:82`); what
  `task_transfer.py:42` catches is `queue.Full`, which a queue without a capacity never raises, and not the broken connection that a scheduler which has ended leaves.
* Tensor arithmetic (`layers/`, `quantization/`), examples and build files: no state, or floating point.
* Known and left out of the models: rounding to half in the estimate; a shape that is not initialised for an unknown layout and a
  scalar's device tensor that is freed early in the plug-in; unsigned offsets of the adaptive attention that wrap at 2^32; rows of a
  padded batch that the kernel leaves unwritten; division by a stride or a number of heads of 0.
