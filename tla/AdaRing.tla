------------------------------- MODULE AdaRing -------------------------------
(***************************************************************************)
(* The steps of a core of ada_block_sparse_attention                       *)
(* (op_kernel/ada_block_sparse_attention_s1s2_bns1_x910.h).  The blocks of *)
(* keys a block of rows keeps are worked off in steps of 1024 columns.     *)
(* Parameters of a step wait in a ring of four: at every moment one slot   *)
(* has the step before, whose result is not fetched yet, one the step that *)
(* is computed, one the next, whose product is asked for, and one is being *)
(* filled.  The results of the steps of a row are accumulated, each        *)
(* weighed down by how the maximum of the row grew after it, and divided   *)
(* by the sum of the row when the next row has begun.                      *)
(***************************************************************************)
EXTENDS AdaTasks

RingCapacity == 4             \* BSA_PARAMS_QUEUE_CAPBABILITY
RingLimit == RingCapacity - 2 \* queSizeLimit
Positions == 8                \* numbers of blocks a step can have

(* CalcSparsePos: the numbers of the blocks that are kept. *)
BlockIds(r, x) ==
  SelectSeq([i \in 1 .. UpDiv(r.kv, r.sparse) |-> i - 1], LAMBDA g : g \in Kept(r, x))

(* SInnerLoopFunc: the last block may reach beyond the keys. *)
ComputeSize(r, x) ==
  LET ids == BlockIds(r, x)
      exceed == (ids[Len(ids)] + 1) * r.sparse - LengthKV(r, x.b)
  IN Len(ids) * r.sparse - (IF exceed > 0 THEN exceed ELSE 0)

InnerLoopTimes(r, x) == UpDiv(ComputeSize(r, x), InnerFactor)

(* What a turn of the loop sets of its step. *)
Turn(r, x, inner) ==
  LET ids == BlockIds(r, x)
      size == ComputeSize(r, x)
      last == inner = InnerLoopTimes(r, x) - 1
      tail == IF last THEN size - inner * InnerFactor ELSE InnerFactor
      from == (inner * InnerFactor) \div r.sparse
  IN [inner |-> inner, last |-> last, tail |-> tail, columns |-> AlignUp(tail, r.sparse),
      diag |-> r.causal /\ last /\ ids[Len(ids)] * r.sparse = x.row * OuterFactor(r),
      pos |-> SubSeq(ids, from + 1, Lesser(from + Positions, Len(ids)))]

-----------------------------------------------------------------------------
(* The ring.  A slot has the head, the batch and the block of rows of a step, what the
   turn has set, and which of the buffers its products go to.  steps has the steps
   computed so far, each with the one before and the one asked for. *)
NoTurn == [inner |-> 0, last |-> FALSE, tail |-> 0, columns |-> 0, diag |-> FALSE, pos |-> <<>>]
EmptySlot == [n |-> 0, b |-> 0, row |-> 0, turn |-> NoTurn, ping |-> 0]

RingInit ==
  [slot |-> [i \in 0 .. RingCapacity - 1 |-> EmptySlot], pre |-> 0, head |-> 0, tail |-> 0,
   size |-> 0, steps |-> <<>>]

Next4(i) == (i + 1) % RingCapacity

(* ComputeEachCoreSInnerLoop, as far as it reads the ring, and the head moves on. *)
ComputeHead(ring) ==
  [ring EXCEPT !.pre = ring.head, !.head = Next4(@),
               !.steps = Append(@, [step |-> ring.slot[ring.head],
                                    before |-> ring.slot[ring.pre],
                                    ahead |-> IF ring.size > 0 THEN <<ring.slot[Next4(ring.head)]>>
                                              ELSE <<>>])]

(* CopyParamsAttrOutOfInnerLoop, which leaves the buffer alone, and the tail. *)
CopyParamsAttrOutOfInnerLoop(dst, src) == [src EXCEPT !.ping = dst.ping]

MoveTail(ring, copy) ==
  LET tail == ring.slot[ring.tail]
      next == ring.slot[Next4(ring.tail)]
      carried == IF copy THEN CopyParamsAttrOutOfInnerLoop(next, tail) ELSE next
  IN [ring EXCEPT !.slot[Next4(ring.tail)] = [carried EXCEPT !.ping = 1 - tail.ping],
                  !.tail = Next4(@)]

(* One turn of SInnerLoopFunc. *)
InnerTurn(r, x, ring, inner) ==
  LET set == [ring EXCEPT !.slot[ring.tail].turn = Turn(r, x, inner)]
  IN IF set.size >= RingLimit
     THEN MoveTail(ComputeHead(set), inner < RingCapacity - 1)
     ELSE [MoveTail(set, TRUE) EXCEPT !.size = @ + 1]

(* ComputeEachCore: the head is set when its loop begins, the batch when that does. *)
RowSteps(r, ring, x, newHead, newBatch) ==
  LET tail == [ring.slot[ring.tail] EXCEPT !.n = IF newHead THEN x.n ELSE @,
                                           !.b = IF newBatch THEN x.b ELSE @,
                                           !.row = x.row]
  IN FoldLeft(LAMBDA acc, i : InnerTurn(r, x, acc, i - 1),
              [ring EXCEPT !.slot[ring.tail] = tail],
              [i \in 1 .. InnerLoopTimes(r, x) |-> i])

(* Process, which drains the ring. *)
DrainOne(ring) == IF ring.size = 0 THEN ring ELSE ComputeHead([ring EXCEPT !.size = @ - 1])

Process(r, tasks) ==
  LET Row(acc, i) ==
        LET newHead == i = 1 \/ tasks[i].n # tasks[i - 1].n
        IN RowSteps(r, acc, tasks[i], newHead, newHead \/ tasks[i].b # tasks[i - 1].b)
      filled == FoldLeft(Row, RingInit, [i \in DOMAIN tasks |-> i])
  IN DrainOne(DrainOne(filled)).steps

(* What the ring is to carry. *)
StepsOf(r, tasks) ==
  FlattenSeq([i \in DOMAIN tasks |->
    [h \in 1 .. InnerLoopTimes(r, tasks[i]) |->
      [n |-> tasks[i].n, b |-> tasks[i].b, row |-> tasks[i].row, turn |-> Turn(r, tasks[i], h - 1)]]])

-----------------------------------------------------------------------------
(* bmm1CopyB1Sparse: the key a column of a step's product is made with.  The matrix
   core asks for part t of the columns; where it begins among those of the blocks is
   worked out from the two sizes of a part, which are written in one order and read
   in the other. *)
KeyOfColumn(r, turn, c) ==
  LET at == (c \div BaseN(r)) * BaseK(r) + (c % BaseN(r))
  IN turn.pos[at \div r.sparse + 1] * r.sparse + (at % r.sparse)

(* bmm2CopyB1Sparse: the row of the values that column is multiplied with. *)
ValueOfColumn(r, turn, c) ==
  LET at == (c \div SecondBaseK) * SecondBaseN(r) + (c % SecondBaseK)
  IN turn.pos[at \div r.sparse + 1] * r.sparse + (at % r.sparse)

(* Res1VecCompute: the columns of a step that count for row k of the block. *)
CountedColumns(r, turn, k) ==
  {c \in 0 .. turn.tail - 1 : turn.diag => c - (turn.columns - r.sparse) <= k}

-----------------------------------------------------------------------------
(* Bmm1ResDoVecBmm2Compute and ProcessLastSouterLoopFinalRes.  The content of the
   buffers is written down: sums has the steps the sum of a row is made of; exp is
   what softmaxExp was last used for; second[p] is the step whose second product is
   in buffer p; and acc has the steps that are accumulated, each with what it was
   multiplied by. *)
Accumulate(acc, i) == Append(acc, [step |-> i, by |-> <<>>])
Weigh(acc, exp) == [h \in DOMAIN acc |-> [acc[h] EXCEPT !.by = Append(@, exp)]]

ResultInit ==
  [sums |-> <<>>, exp |-> <<>>, second |-> [p \in 0 .. 1 |-> 0], acc |-> <<>>, pending |-> FALSE,
   out |-> <<>>]

ProcessLastSouterLoopFinalRes(res, before) ==
  LET clean == IF before.turn.inner = 0 THEN <<>> ELSE res.acc
      acc == Accumulate(clean, res.second[before.ping])
  IN IF ~res.pending THEN res
     ELSE [res EXCEPT !.pending = FALSE, !.acc = acc,
                      !.out = Append(@, [n |-> before.n, b |-> before.b, row |-> before.row,
                                         acc |-> acc, by |-> res.exp])]

Bmm1ResDoVecBmm2Compute(res, i, got) ==
  LET step == got.step
      first == step.turn.inner = 0
      summed == [res EXCEPT !.sums = IF first THEN <<i>> ELSE Append(@, i),
                            !.exp = IF first THEN @ ELSE <<"exp", i>>]
      clean == IF step.turn.inner = 1 THEN <<>> ELSE summed.acc
      added == Accumulate(clean, summed.second[1 - step.ping])
      asked == IF first
               THEN [ProcessLastSouterLoopFinalRes(summed, got.before) EXCEPT !.second[step.ping] = i]
               ELSE [summed EXCEPT !.acc = Weigh(added, summed.exp), !.second[step.ping] = i]
  IN IF step.turn.last THEN [asked EXCEPT !.exp = <<"sum", asked.sums>>, !.pending = TRUE] ELSE asked

(* What a core puts out for its steps. *)
Results(steps) ==
  LET done == FoldLeft(LAMBDA res, i : Bmm1ResDoVecBmm2Compute(res, i, steps[i]), ResultInit,
                       [i \in DOMAIN steps |-> i])
  IN IF steps = <<>> THEN <<>>
     ELSE ProcessLastSouterLoopFinalRes(done, steps[Len(steps)].step).out
=============================================================================
