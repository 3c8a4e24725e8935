--------------------------- MODULE SparseEstimate ---------------------------
(***************************************************************************)
(* A core group of sparse_block_estimate                                   *)
(* (op_kernel/sparse_block_estimate.h).  The vector core splits each of    *)
(* its blocks of the queries into steps over the keys, and runs a step     *)
(* behind the matrix core: parameters wait in a ring of four, and the      *)
(* product of the next step is asked for before this one's is reduced.     *)
(* The steps of a block reduce their products (first reduce); the last one *)
(* reduces those (second reduce), selects the blocks of keys to keep and   *)
(* writes them to the mask.                                                *)
(*                                                                         *)
(* How the matrix core is asked is the library's: its message goes behind  *)
(* the copies out of the vector core, and IterateAll answers when the      *)
(* product is in the workspace.                                            *)
(***************************************************************************)
EXTENDS AscendInstructions, SparseTiling

CONSTANTS
  Pieces,   \* pieces of rows a product is reduced in: rows of the block / softmaxSouterStepLen
  Parts,    \* parts of rows a block of the queries is reordered in
  MaskRows  \* rows of the mask a block of the queries gives

RingCapacity == 4             \* PFA_PARAMS_QUEUE_CAPBABILITY
RingLimit == RingCapacity - 2 \* queSizeLimit

-----------------------------------------------------------------------------
(* The ring.  A slot has the parameters of a step: its block (n, b, k), the length of
   the keys, the step, how many there are, its columns and which buffer its product
   goes to.  Parameters that are not written again are those of the step before,
   copied, or what the slot held four steps ago.  steps has the parameters of the
   steps computed so far, and of the one asked for while they were. *)
EmptySlot == [n |-> 0, b |-> 0, k |-> 0, kv |-> 0, inner |-> 0, times |-> 0, columns |-> 0, ping |-> 0]

RingInit ==
  [slot |-> [i \in 0 .. RingCapacity - 1 |-> EmptySlot], head |-> 0, tail |-> 0, size |-> 0,
   steps |-> <<>>]

Next4(i) == (i + 1) % RingCapacity

(* ComputeEachCoreSInnerLoop, as far as it reads the ring, and the head moves on. *)
ComputeHead(ring) ==
  [ring EXCEPT !.head = Next4(@),
               !.steps = Append(@, [step |-> ring.slot[ring.head],
                                    ahead |-> IF ring.size > 0 THEN <<ring.slot[Next4(ring.head)]>>
                                              ELSE <<>>])]

(* CopyParamsAttrOutOfInnerLoop, which leaves times and ping alone, and the tail. *)
CopyParamsButKv(dst, src) ==
  [src EXCEPT !.times = dst.times, !.ping = dst.ping, !.kv = dst.kv]
CopyParamsAttrOutOfInnerLoop(dst, src) == [src EXCEPT !.times = dst.times, !.ping = dst.ping]

MoveTail(ring, copy) ==
  LET tail == ring.slot[ring.tail]
      next == ring.slot[Next4(ring.tail)]
      carried == IF copy THEN CopyParamsAttrOutOfInnerLoop(next, tail) ELSE next
  IN [ring EXCEPT !.slot[Next4(ring.tail)] = [carried EXCEPT !.ping = 1 - tail.ping],
                  !.tail = Next4(@)]

(* One turn of SInnerLoopFunc. *)
InnerTurn(sizes, r, ring, computeSize, inner) ==
  LET times == UpDiv(computeSize, sizes.n)
      set == [ring EXCEPT !.slot[ring.tail].times = times,
                          !.slot[ring.tail].inner = inner,
                          !.slot[ring.tail].columns =
                             IF inner = times - 1 THEN computeSize - inner * sizes.n ELSE sizes.n]
  IN IF set.size >= RingLimit
     THEN MoveTail(ComputeHead(set), inner < RingCapacity - 1)
     ELSE [MoveTail(set, TRUE) EXCEPT !.size = @ + 1]

(* A block of ComputeEachCore; fresh says that GetSingleCoreParam is called for it. *)
BlockSteps(sizes, r, ring, block, fresh) ==
  LET rows == IF block.k = OuterBlocks(sizes, r) - 1
              THEN r.q - block.k * OuterSize(sizes, r) ELSE OuterSize(sizes, r)
      causal == block.k * OuterSize(sizes, r) + (rows \div r.stride) * r.stride
      tail == [ring.slot[ring.tail] EXCEPT
                 !.n = block.n, !.b = block.b, !.k = block.k,
                 !.kv = IF r.causal THEN causal ELSE IF fresh THEN r.kv ELSE @]
      computeSize == tail.kv \div r.stride
  IN FoldLeft(LAMBDA acc, i : InnerTurn(sizes, r, acc, computeSize, i - 1),
              [ring EXCEPT !.slot[ring.tail] = tail],
              [i \in 1 .. UpDiv(computeSize, sizes.n) |-> i])

(* ComputeEachCore over the blocks of a core, and Process, which drains the ring. *)
DrainOne(ring) == IF ring.size = 0 THEN ring ELSE ComputeHead([ring EXCEPT !.size = @ - 1])

Process(sizes, r, blocks) ==
  LET Block(acc, x) ==
        BlockSteps(sizes, r, acc, blocks[x],
                   x = 1 \/ blocks[x].b # blocks[x - 1].b \/ blocks[x].n # blocks[x - 1].n)
      filled == FoldLeft(Block, RingInit, [x \in DOMAIN blocks |-> x])
  IN DrainOne(DrainOne(filled)).steps

(* What the ring is to carry. *)
StepsOf(sizes, r, block) ==
  LET end == Lesser((block.k + 1) * OuterSize(sizes, r), r.q)
      kv == IF r.causal
            THEN block.k * OuterSize(sizes, r)
                   + ((end - block.k * OuterSize(sizes, r)) \div r.stride) * r.stride
            ELSE r.kv
      times == UpDiv(kv \div r.stride, sizes.n)
  IN [i \in 1 .. times |->
       [n |-> block.n, b |-> block.b, k |-> block.k, kv |-> kv, inner |-> i - 1, times |-> times,
        columns |-> Lesser(sizes.n, (kv \div r.stride) - (i - 1) * sizes.n)]]

-----------------------------------------------------------------------------
(* The instructions of a step.  Buffers of the workspace: the reordered queries,
   by the parity of the block; the products, by ping; the sums of the steps. *)
QueryTmp(step) == <<"queryGmTmp", step.k % 2>>
Product(step) == <<"bmm1ResGm", step.ping>>
FirstReduceGm(inner) == <<"firstReduceGm", inner>>
Half(i) == <<"mmResUb", 0, i % 2>>
MmRes(i) == IF i = 0 THEN {Half(0), Half(1)} ELSE {<<"mmResUb", 1>>}

VOn(reads, writes) == Exec(AIV, "V", reads, writes)
Sync(src, dst, id) == SetWait(AIV, src, dst, id)

(* The reordering goes through the buffers of the products. *)
ReorderPart(step) ==
  Exec(AIV, "MTE2", {<<"query", step.b, step.n, step.k>>}, MmRes(0) \union MmRes(1))
    \o Sync("MTE2", "V", 2)
    \o VOn({}, MmRes(0) \union MmRes(1))
    \o Sync("V", "MTE3", 0)
    \o Exec(AIV, "MTE3", MmRes(0) \union MmRes(1), {QueryTmp(step)})
    \o Sync("MTE3", "MTE2", 0)

ReorderQKTail(step) == FlattenSeq([t \in 1 .. Parts |-> ReorderPart(step)])

Bmm1ComputeIterate(step) ==
  Signal(AIV, "MTE3", AIC, "IterateAll")
    \o Await(AIC, AIV, "IterateAll")
    \o Exec(AIC, "M", {QueryTmp(step)}, {Product(step)})
    \o Signal(AIC, "M", AIV, "product")

DoNotWait == <<>>
WaitIterateAll == Await(AIV, AIC, "product")

Bmm1VecInputCopyIn(step) ==
  Exec(AIV, "MTE2", {Product(step)}, MmRes(0))
    \o SetFlag(AIV, "MTE2", "V", 0)

(* The pieces of Res1VecCompute: the next one is copied in while this one is scaled,
   exponentiated and summed up. *)
FirstReducePiece(step, i) ==
  LET pp == i % 2
  IN WaitFlag(AIV, "V", "MTE2", 0)
       \o (IF i + 1 = Pieces THEN <<>>
           ELSE Exec(AIV, "MTE2", {Product(step)}, MmRes(1 - pp))
                  \o SetFlag(AIV, "MTE2", "V", 1 - pp))
       \o WaitFlag(AIV, "MTE2", "V", pp)
       \o VOn(MmRes(pp) \union {<<"softmax">>},
               MmRes(pp) \union {<<"softmax">>, <<"tmpBuff1">>, <<"firstReduceUb">>})
       \o SetFlag(AIV, "V", "MTE2", 0)

FirstReduce(step) ==
  VOn({}, {<<"firstReduceUb">>})
    \o SetFlag(AIV, "V", "MTE2", 0)
    \o FlattenSeq([i \in 1 .. Pieces |-> FirstReducePiece(step, i - 1)])
    \o WaitFlag(AIV, "V", "MTE2", 0)
    \o VOn({<<"softmax">>}, {<<"maxLocal", step.inner>>})

(* SecondReduce: the sums of the earlier steps come back in two halves of the first
   buffer, the result goes to the second.  Both of its events are the same one:
   FetchEventID does not reserve what it returns. *)
SecondReduceTurn(step, i) ==
  WaitFlag(AIV, "V", "MTE2", 0)
    \o (IF i + 1 < step.times - 1
        THEN Exec(AIV, "MTE2", {FirstReduceGm(i + 1)}, {Half(i + 1)})
        ELSE <<>>)
    \o (IF i + 1 < step.times THEN SetFlag(AIV, "MTE2", "V", 2) ELSE <<>>)
    \o VOn({<<"maxLocal", step.times - 1>>, <<"maxLocal", i>>, <<"softmax">>},
            {<<"maxLocal", i>>, <<"tmpBuff1">>})
    \o WaitFlag(AIV, "MTE2", "V", 2)
    \o VOn({<<"tmpBuff1">>, IF i < step.times - 1 THEN Half(i) ELSE <<"firstReduceUb">>},
            MmRes(1) \union {IF i < step.times - 1 THEN Half(i) ELSE <<"firstReduceUb">>})
    \o SetFlag(AIV, "V", "MTE2", 0)

SecondReduce(step) ==
  (IF step.times = 1 THEN <<>> ELSE Exec(AIV, "MTE2", {FirstReduceGm(0)}, {Half(0)}))
    \o SetFlag(AIV, "MTE2", "V", 2)
    \o SetFlag(AIV, "V", "MTE2", 0)
    \o FlattenSeq([i \in 1 .. step.times |-> SecondReduceTurn(step, i - 1)])
    \o WaitFlag(AIV, "V", "MTE2", 0)

(* ScoreCompute, a row of the mask.  The scalar unit picks the least score to keep
   off the sorted scores, and marks the columns that are kept anyway by overwriting
   their scores.  It waits for the vector unit before it walks the sorted scores, but
   a threshold of 1 skips the walk and the waits with it.  The first rows of a causal
   mask keep everything. *)
VSum == VOn({<<"tmpBuff1">>}, {<<"tmpBuff1">>})

Walk ==
  VSum \o Sync("V", "S", 0)
    \o Exec(AIV, "S", {<<"tmpBuff1">>}, {})
    \o Sync("V", "S", 0)
    \o Exec(AIV, "S", {<<"tmpBuff1">>}, {})

ScoreCompute(r, columns) ==
  VOn({}, {<<"maskUb">>, <<"countUb">>})
    \o (IF columns <= 2 /\ r.causal
        THEN VOn({}, {<<"tmpBuff1">>, <<"maskUb">>})
        ELSE VOn(MmRes(1), MmRes(1) \union {<<"tmpBuff1">>})
               \o Sync("V", "S", 0)
               \o Exec(AIV, "S", {<<"tmpBuff1">>}, {})
               \o Sync("S", "V", 0)
               \o VOn(MmRes(1), {<<"tmpBuff1">>})
               \o (IF r.walk THEN Walk ELSE <<>>)
               \o Exec(AIV, "S", {<<"tmpBuff1">>}, MmRes(1))
               \o Sync("S", "V", 0)
               \o VOn(MmRes(1), {<<"tmpBuff1">>, <<"maskUb">>}))
    \o VOn({<<"tmpBuff1">>}, {<<"countUb">>})

UnorderedScores == {<<"V", "S", <<"tmpBuff1">>>>, <<"V", "S", <<"mmResUb", 1>>>>}

MaskCopyOut(step) ==
  VOn({<<"countUb">>}, {<<"countUb">>, <<"tmpBuff1">>})
    \o Sync("V", "MTE3", 0)
    \o Exec(AIV, "MTE3", {<<"countUb">>, <<"maskUb">>}, {<<"mask", step.b, step.n, step.k>>})

(* Columns of a row of the mask. *)
MaskColumns(sizes, r, step, row) ==
  IF r.causal THEN ((step.k * sizes.m) \div ReduceSize(r)) + row
  ELSE UpDiv(step.kv, r.sparse)

Res1VecCompute(sizes, r, step) ==
  FirstReduce(step)
    \o (IF step.inner < step.times - 1
        THEN Sync("V", "MTE3", 0)
               \o Exec(AIV, "MTE3", {<<"firstReduceUb">>}, {FirstReduceGm(step.inner)})
        ELSE SecondReduce(step)
               \o FlattenSeq([i \in 1 .. MaskRows |->
                                ScoreCompute(r, MaskColumns(sizes, r, step, i))])
               \o MaskCopyOut(step))
    \o Sync("MTE3", "V", 0)
    \o Sync("MTE3", "MTE2", 0)

(* ComputeEachCoreSInnerLoop *)
ComputeStep(sizes, r, first, x) ==
  (IF first THEN ReorderQKTail(x.step) \o Bmm1ComputeIterate(x.step) ELSE <<>>)
    \o (IF x.ahead # <<>> /\ x.ahead[1].inner = 0 THEN ReorderQKTail(x.ahead[1]) ELSE <<>>)
    \o WaitIterateAll
    \o (IF x.ahead # <<>> THEN Bmm1ComputeIterate(x.ahead[1]) ELSE <<>>)
    \o Bmm1VecInputCopyIn(x.step)
    \o Res1VecCompute(sizes, r, x.step)

SparseCore(sizes, r, blocks) ==
  LET steps == Process(sizes, r, blocks)
  IN FlattenSeq([i \in DOMAIN steps |-> ComputeStep(sizes, r, i = 1, steps[i])])

(* The next block's queries are reordered while the product of this block's last step
   may still be under way.  They go to the other buffer, unless the blocks' numbers
   have the same parity: a head of an odd number of blocks is followed by block 0. *)
UnorderedQueries == {<<"M", "MTE3", <<"queryGmTmp", i>>>> : i \in 0 .. 1}
=============================================================================
