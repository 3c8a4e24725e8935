------------------------------- MODULE Offload --------------------------------
(***************************************************************************)
(* mindiesd/offload.py: the weights of all but the first blocks of a model *)
(* are kept in memory of the host.  Hooks around the forward function of a *)
(* block copy the weights of a later block to the device and give back the *)
(* memory of this one.                                                     *)
(*                                                                         *)
(* The host thread only queues: on the stream of the caller ("compute"),   *)
(* on h2d_stream and on d2h_stream.  Each executes what is queued on it in *)
(* order and at any later time.  Memory is given and taken by the host at  *)
(* once, by an allocator that hands out what the stream has given back     *)
(* before it asks the device for more, and that waits for nobody.  Memory  *)
(* is counted in blocks, and known by what was last written to it.         *)
(*                                                                         *)
(* The caller runs passes over the blocks.  A block may be skipped, which  *)
(* is what cache_agent does with the blocks of a range; the forward        *)
(* function of a block may raise, and a pre-hook does if there is no       *)
(* memory left.  A parameter that is a slice is copied by another call to  *)
(* the same effect, and a block stands for its parameters and buffers.     *)
(***************************************************************************)
EXTENDS Integers, Sequences, FiniteSets, SequencesExt

CONSTANTS
  NumBlocks,  \* blocks of the model
  MaxPasses,  \* bound on the passes of a run
  MaxRaises   \* bound on how many of them raise

ASSUME OffloadAssumption ==
  /\ NumBlocks \in Nat \ {0} /\ MaxPasses \in Nat \ {0}
  /\ MaxRaises \in Nat

Blocks == 0 .. NumBlocks - 1
Streams == {"compute", "h2d", "d2h"}

VARIABLES
  reserved,  \* min_reserved_blocks_count
  phase,     \* what the host does next: "idle", "pre", "forward", "post"
  block,     \* with which block
  passes,    \* passes begun
  storage,   \* the memory of a block, 0 if it has been resized to 0
  free,      \* memory that has been given back on h2d_stream
  content,   \* whose weights every piece of memory holds, NumBlocks if nobody's
  pinned,    \* whose weights p_cpu of a block holds
  queue,     \* what every stream still has to execute
  recorded, reached,  \* per stream, its latest recording of an event: queued, and executed
  event,     \* model.event, as the number of its latest recording on h2d_stream
  loaded,    \* blocks a pre-hook of this pass has loaded (history)
  raises,    \* passes that have raised (history)
  skipped    \* some block has been skipped (history)

host == <<phase, block, passes, loaded, raises, skipped>>
memory == <<storage, free>>
device == <<content, pinned, reached>>
vars == <<reserved, host, memory, device, queue, recorded, event>>

Nobody == NumBlocks
Memory == DOMAIN content

-----------------------------------------------------------------------------
(* What can be queued; recordings on a stream are numbered from 1. *)
Record(number) == [kind |-> "record", number |-> number]
Wait(stream, number) == [kind |-> "wait", stream |-> stream, number |-> number]
Load(b, at) == [kind |-> "load", block |-> b, at |-> at]
Save(b, at) == [kind |-> "save", block |-> b, at |-> at]
Copy(b, at) == [kind |-> "copy", block |-> b, at |-> at]
Kernel(b, at) == [kind |-> "kernel", block |-> b, at |-> at]

(* To wait for an event that was never recorded is to do nothing. *)
WaitEvent(stream, number) == IF number = 0 THEN <<>> ELSE <<Wait(stream, number)>>

(* The number of the next recording on a stream; at most one is queued at a time. *)
Upcoming(s) == recorded[s] + 1

Enqueue(compute, h2d, d2h) ==
  LET more == [compute |-> compute, h2d |-> h2d, d2h |-> d2h]
  IN /\ queue' = [s \in Streams |-> queue[s] \o more[s]]
     /\ recorded' = [s \in Streams |->
          IF Record(Upcoming(s)) \in Range(more[s]) THEN Upcoming(s) ELSE recorded[s]]

-----------------------------------------------------------------------------
(* enable_offload checks the number and moves the blocks to the device one by one on
   h2d_stream, those after the first min_reserved_blocks_count back to the host, so that
   the next takes over their memory.  The caller's stream waits for all of it. *)
ValidCount(n) == n >= 0 /\ n < NumBlocks

FirstMemory(n, b) == IF b < n THEN b + 1 ELSE n + 1

MoveBlocks(n) ==
  [i \in 1 .. n |-> Load(i - 1, FirstMemory(n, i - 1))]
  \o [i \in 1 .. 2 * (NumBlocks - n) |->
       LET b == n + (i - 1) \div 2
       IN IF i % 2 = 1 THEN Load(b, FirstMemory(n, b)) ELSE Save(b, FirstMemory(n, b))]

EnableOffload(n) ==
  /\ ValidCount(n)
  /\ reserved = n
  /\ storage = [b \in Blocks |-> IF b < n THEN FirstMemory(n, b) ELSE 0]
  /\ free = {n + 1}
  /\ content = [m \in 1 .. n + 1 |-> Nobody]
  /\ pinned = [b \in Blocks |-> Nobody]
  /\ queue = [compute |-> <<Wait("h2d", 1)>>,
              h2d |-> MoveBlocks(n) \o <<Record(1)>>,
              d2h |-> <<>>]
  /\ recorded = [s \in Streams |-> IF s = "h2d" THEN 1 ELSE 0]
  /\ reached = [s \in Streams |-> 0]
  /\ event = [b \in Blocks |-> 0]

Init ==
  /\ \E n \in Blocks : EnableOffload(n)
  /\ phase = "idle" /\ block = 0 /\ passes = 0
  /\ loaded = {} /\ raises = 0 /\ skipped = FALSE

-----------------------------------------------------------------------------
(* The caller. *)
StartPass ==
  /\ phase = "idle" /\ passes < MaxPasses
  /\ phase' = "pre" /\ block' = 0 /\ passes' = passes + 1 /\ loaded' = {}
  /\ UNCHANGED <<reserved, memory, device, queue, recorded, event, raises, skipped>>

Proceed ==
  /\ phase' = IF block = NumBlocks - 1 THEN "idle" ELSE "pre"
  /\ block' = IF block = NumBlocks - 1 THEN 0 ELSE block + 1

Skip ==
  /\ phase = "pre"
  /\ Proceed
  /\ skipped' = TRUE
  /\ UNCHANGED <<reserved, memory, device, queue, recorded, event, passes, loaded, raises>>

Abandon ==
  /\ raises < MaxRaises
  /\ phase' = "idle" /\ block' = 0 /\ raises' = raises + 1
  /\ UNCHANGED <<reserved, passes, skipped>>

-----------------------------------------------------------------------------
(* The allocator. *)
Grant(m) ==
  /\ IF free = {} THEN m = Cardinality(Memory) + 1 ELSE m \in free
  /\ content' = IF m \in Memory THEN content ELSE Append(content, Nobody)

Resize(b, m) ==
  /\ Grant(m)
  /\ storage' = [storage EXCEPT ![b] = m]
  /\ free' = (free \ {m}) \cup ({storage[b]} \ {0})

(* parameter_to_device_hook: the copies wait for what the caller's stream has been given
   so far, and the caller's stream for the copies of this block, if there were any. *)
ToDevice == block + reserved

LoadsBlock == ToDevice < NumBlocks

CopiesAtOnce(b, m) == <<Copy(b, m), Record(Upcoming("h2d"))>>
CopiesUnrecorded(b, m) == WaitEvent("compute", Upcoming("compute")) \o <<Copy(b, m)>>
CopiesAfterForward(b, m) ==
  WaitEvent("compute", Upcoming("compute")) \o <<Copy(b, m), Record(Upcoming("h2d"))>>

RecordsForward(number) == <<Record(Upcoming("compute"))>> \o WaitEvent("h2d", number)

ParameterToDeviceHook ==
  /\ phase = "pre"
  /\ phase' = "forward"
  /\ IF LoadsBlock
     THEN /\ \E m \in 1 .. Cardinality(Memory) + 1 :
               /\ Resize(ToDevice, m)
               /\ event' = [event EXCEPT ![ToDevice] = Upcoming("h2d")]
               /\ Enqueue(RecordsForward(event'[block]),
                          CopiesAfterForward(ToDevice, m), <<>>)
          /\ loaded' = loaded \cup {ToDevice}
     ELSE /\ Enqueue(RecordsForward(event[block]), <<>>, <<>>)
          /\ UNCHANGED <<memory, content, event, loaded>>
  /\ UNCHANGED <<reserved, pinned, reached, block, passes, raises, skipped>>

(* There is no memory for the first or for a later parameter. *)
HookRaises ==
  /\ phase = "pre" /\ LoadsBlock
  /\ Enqueue(<<Record(Upcoming("compute"))>>, WaitEvent("compute", Upcoming("compute")), <<>>)
  /\ \/ UNCHANGED <<memory, content>>
     \/ \E m \in 1 .. Cardinality(Memory) + 1 : Resize(ToDevice, m)
  /\ Abandon
  /\ UNCHANGED <<pinned, reached, event, loaded>>

(* The kernels of a block, if its memory has not been given back. *)
Forward ==
  /\ phase = "forward" /\ storage[block] # 0
  /\ Enqueue(<<Kernel(block, storage[block])>>, <<>>, <<>>)
  /\ phase' = "post"
  /\ UNCHANGED <<reserved, memory, device, event, block, passes, loaded, raises, skipped>>

ForwardRaises ==
  /\ phase = "forward"
  /\ \/ storage[block] # 0 /\ Enqueue(<<Kernel(block, storage[block])>>, <<>>, <<>>)
     \/ UNCHANGED <<queue, recorded>>
  /\ Abandon
  /\ UNCHANGED <<memory, device, event, loaded>>

(* parameter_to_resize_hook: the event d2h_stream waits for has not been recorded, and
   memory is not given back in the order of a stream. *)
GivesBackLate == block > reserved
GivesBack == block >= reserved

ParameterToResizeHook ==
  /\ phase = "post"
  /\ IF GivesBack
     THEN /\ storage' = [storage EXCEPT ![block] = 0]
          /\ free' = free \cup {storage[block]}
          /\ Enqueue(<<Wait("d2h", Upcoming("d2h"))>>, <<>>,
                     WaitEvent("compute", 0) \o <<Record(Upcoming("d2h"))>>)
     ELSE UNCHANGED <<memory, queue, recorded>>
  /\ Proceed
  /\ UNCHANGED <<reserved, device, event, passes, loaded, raises, skipped>>

-----------------------------------------------------------------------------
(* A stream executes what is queued first. *)
CanExecute(s) ==
  /\ queue[s] # <<>>
  /\ LET op == Head(queue[s])
     IN op.kind = "wait" => reached[op.stream] >= op.number

Execute(s) ==
  /\ CanExecute(s)
  /\ LET op == Head(queue[s])
     IN /\ reached' = IF op.kind = "record" THEN [reached EXCEPT ![s] = op.number] ELSE reached
        /\ content' = CASE op.kind = "load" -> [content EXCEPT ![op.at] = op.block]
                        [] op.kind = "copy" -> [content EXCEPT ![op.at] = pinned[op.block]]
                        [] OTHER -> content
        /\ pinned' = IF op.kind = "save" THEN [pinned EXCEPT ![op.block] = content[op.at]]
                     ELSE pinned
  /\ queue' = [queue EXCEPT ![s] = Tail(@)]
  /\ UNCHANGED <<reserved, host, memory, recorded, event>>

Host ==
  \/ StartPass \/ Skip \/ ParameterToDeviceHook \/ HookRaises
  \/ Forward \/ ForwardRaises \/ ParameterToResizeHook

Next == Host \/ \E s \in Streams : Execute(s)

Spec == Init /\ [][Next]_vars

-----------------------------------------------------------------------------
(* Every variable has its type. *)
TypeOK ==
  /\ reserved \in Blocks
  /\ phase \in {"idle", "pre", "forward", "post"} /\ block \in Blocks
  /\ passes \in 0 .. MaxPasses /\ raises \in 0 .. MaxRaises
  /\ loaded \subseteq Blocks /\ skipped \in BOOLEAN
  /\ content \in Seq(Blocks \cup {Nobody})
  /\ storage \in [Blocks -> Memory \cup {0}] /\ free \subseteq Memory
  /\ pinned \in [Blocks -> Blocks \cup {Nobody}]
  /\ recorded \in [Streams -> Nat] /\ reached \in [Streams -> Nat]
  /\ event \in [Blocks -> 0 .. recorded["h2d"]]
  /\ \A b, c \in Blocks : storage[b] # 0 => storage[b] \notin free /\ (b # c => storage[c] # storage[b])

(* However far the host is ahead of the streams, the kernels of a block find the weights
   of that block: they are there before, and what takes over their memory is not there
   yet.  Excepted is a block that no pre-hook of the pass has loaded. *)
Due(b) == b < reserved \/ b \in loaded

NextKernelRight ==
  LET op == Head(queue["compute"])
  IN queue["compute"] # <<>> /\ op.kind = "kernel" => content[op.at] = op.block

ComputesOnItsWeights ==
  /\ raises = 0 \/ ~skipped => NextKernelRight
  /\ phase = "forward" /\ Due(block) => storage[block] # 0

(* What offload is for: while blocks are called one after the other, the device holds the
   reserved blocks and one more than are loaded ahead (offload.py:30).  Passes that raise
   and blocks that are skipped leave blocks on the device, which a later pre-hook loads
   once more: even so memory does not pile up, beyond all blocks and the one that is
   loaded while its old memory is still held. *)
MemoryBounded ==
  /\ Cardinality(Memory) <= NumBlocks + 1
  /\ raises = 0 /\ ~skipped
       => Cardinality(Memory) <= Min({2 * reserved + 1, NumBlocks})
=============================================================================
