------------------------------ MODULE AdaKernel ------------------------------
(***************************************************************************)
(* The instructions of a core group of ada_block_sparse_attention          *)
(* (op_kernel/ada_block_sparse_attention_s1s2_bns1_x910.h).  The vector    *)
(* core asks the matrix core for a product of queries and keys, reduces it *)
(* piece by piece in its two buffers and copies it back, asks for the      *)
(* product of that and the values, and meanwhile fetches the one before.   *)
(* It tells the matrix core in a structure of its own which blocks to load.*)
(*                                                                         *)
(* How the matrix core is asked is the library's: its message goes behind  *)
(* the copies out of the vector core.                                      *)
(***************************************************************************)
EXTENDS AscendInstructions, AdaRing

CONSTANT Pieces \* pieces of rows a product is reduced in

VOn(reads, writes) == Exec(AIV, "V", reads, writes)
Sync(src, dst, id) == SetWait(AIV, src, dst, id)
Fetch(src, dst) == Sync(src, dst, <<"fetched">>)

(* The local buffers, and those of the workspace.  The scores of a step are replaced by
   its weights in place; in bfloat16 these are half as long. *)
MmRes(i) == <<"mmResUb", i>>
MmResAll == {MmRes(0), MmRes(1)}
ScorePart(step, u) == <<"bmm1Res", step.ping, u>>
Scores(r, step, i) ==
  IF r.type = "Half" THEN {ScorePart(step, i)} ELSE {ScorePart(step, 2 * i), ScorePart(step, 2 * i + 1)}
Weights(step, i) == {ScorePart(step, i)}
AllScores(r, step) == UNION {Scores(r, step, i) : i \in 0 .. Pieces - 1}
AllWeights(step) == UNION {Weights(step, i) : i \in 0 .. Pieces - 1}
Second(ping) == <<"bmm2Res", ping>>

-----------------------------------------------------------------------------
(* The product is asked for, and which blocks it needs. *)
AskFor(what, ub, ping, reads, writes) ==
  Exec(AIV, "S", {}, {<<ub>>})
    \o Fetch("S", "MTE3")
    \o Exec(AIV, "MTE3", {<<ub>>}, {<<what, "CB", ping>>})
    \o Fetch("MTE3", "S")
    \o Signal(AIV, "MTE3", AIC, <<what>>)
    \o Await(AIC, AIV, <<what>>)
    \o Exec(AIC, "M", reads \union {<<what, "CB", ping>>}, writes)
    \o Signal(AIC, "M", AIV, <<what, "done">>)

Bmm1ComputeIterate(r, step) == AskFor("bmm1", "PABmm1UB", step.ping, {}, AllScores(r, step))
Bmm2ComputeIterate(step) ==
  AskFor("bmm2", "PABmm2UB", step.ping, AllWeights(step), {Second(step.ping)})

WaitIterateAll(what) == Await(AIV, AIC, <<what, "done">>)

Bmm1VecInputCopyIn(r, step) ==
  WaitFlag(AIV, "MTE3", "MTE2", <<0>>)
    \o Exec(AIV, "MTE2", Scores(r, step, 0), {MmRes(0)})
    \o SetFlag(AIV, "MTE2", "V", <<"in", 0>>)

(* The pieces of Res1VecCompute: the next one is copied in while this one is reduced,
   and this one is copied out. *)
ReducePiece(r, step, i) ==
  LET pp == i % 2
  IN WaitFlag(AIV, "MTE2", "V", <<"in", pp>>)
       \o VOn({MmRes(pp), <<"softmax">>},
               {MmRes(pp), <<"softmax">>, <<"tmpBuff">>}
                 \union (IF step.turn.inner = 0 THEN {} ELSE {<<"softmaxExp">>}))
       \o (IF i + 1 = Pieces THEN <<>>
           ELSE WaitFlag(AIV, "MTE3", "MTE2", <<1 - pp>>)
                  \o Exec(AIV, "MTE2", Scores(r, step, i + 1), {MmRes(1 - pp)})
                  \o SetFlag(AIV, "MTE2", "V", <<"in", 1 - pp>>))
       \o (IF r.type = "Half" THEN <<>> ELSE VOn({MmRes(pp)}, {MmRes(pp)}))
       \o Sync("V", "MTE3", <<"queue">>)
       \o Exec(AIV, "MTE3", {MmRes(pp)}, Weights(step, i))
       \o SetFlag(AIV, "MTE3", "MTE2", <<pp>>)

Res1VecCompute(r, step) ==
  FlattenSeq([i \in 1 .. Pieces |-> ReducePiece(r, step, i - 1)]) \o Fetch("MTE3", "S")

(* The second product of a step comes back into the buffers of the scores: in float it
   takes both. *)
Fetched(r) == IF r.type = "Half" THEN {MmRes(0)} ELSE MmResAll

FetchSecond(r, ping) ==
  WaitIterateAll("bmm2")
    \o Exec(AIV, "MTE2", {Second(ping)}, Fetched(r))
    \o Sync("MTE2", "V", <<"second", ping>>)
    \o VOn(Fetched(r) \union {<<"preBmm2">>}, {<<"preBmm2">>})

ProcessLast(r, before) ==
  (IF before.turn.inner = 0 THEN VOn({}, {<<"preBmm2">>}) ELSE <<>>)
    \o FetchSecond(r, before.ping)
    \o VOn({<<"preBmm2">>, <<"softmaxExp">>},
            {<<"preBmm2">>} \union (IF r.type = "Half" THEN MmResAll ELSE {}))
    \o Sync("V", "MTE3", <<"out">>)
    \o Exec(AIV, "MTE3", {<<"preBmm2">>}, {<<"attentionOut", before.b, before.n, before.row>>})

(* ComputeEachCoreSInnerLoop; pending says that a row is to be put out. *)
ComputeStep(r, x, first, pending) ==
  LET step == x.step
  IN (IF first THEN Bmm1ComputeIterate(r, step) ELSE <<>>)
       \o WaitIterateAll("bmm1")
       \o Bmm1VecInputCopyIn(r, step)
       \o (IF x.ahead # <<>> THEN Bmm1ComputeIterate(r, x.ahead[1]) ELSE <<>>)
       \o Res1VecCompute(r, step)
       \o (IF step.turn.inner = 0
           THEN (IF pending THEN ProcessLast(r, x.before) ELSE <<>>) \o Bmm2ComputeIterate(step)
           ELSE (IF step.turn.inner = 1 THEN VOn({}, {<<"preBmm2">>}) ELSE <<>>)
                  \o FetchSecond(r, 1 - step.ping)
                  \o Bmm2ComputeIterate(step)
                  \o VOn({<<"preBmm2">>, <<"softmaxExp">>}, {<<"preBmm2">>}))
       \o (IF step.turn.last THEN VOn({<<"softmax">>}, {<<"softmaxExp">>}) ELSE <<>>)

-----------------------------------------------------------------------------
(* GetTaskCost, once for a head. *)
GetTaskCost ==
  Exec(AIV, "MTE2", {<<"sparseBlockCount">>}, {<<"tmpBuff">>})
    \o VOn({}, {<<"index">>})
    \o Fetch("MTE2", "V")
    \o VOn({<<"tmpBuff">>, <<"index">>}, {<<"tmpBuff">>, <<"index">>, <<"taskCost">>, <<"taskQid">>})
    \o Fetch("V", "MTE2")

TaskAllocRow ==
  VOn({<<"taskCost">>, <<"loads">>}, {<<"tmpBuff">>, <<"index">>, <<"loads">>})
    \o Fetch("V", "S")
    \o Exec(AIV, "S", {<<"loads">>, <<"taskQid">>}, {})
    \o Fetch("S", "V")

(* The mask of a row becomes numbers of blocks; index stands for the part of tmpBuff
   behind what is copied in. *)
CalcSparsePos ==
  Exec(AIV, "MTE2", {<<"sparseMask">>}, {<<"tmpBuff">>})
    \o VOn({}, {<<"index">>})
    \o Fetch("MTE2", "V")
    \o VOn({<<"tmpBuff">>, <<"index">>}, {<<"index">>, <<"blockIdUb">>})
    \o Fetch("V", "MTE2")
    \o Fetch("V", "S")

(* A turn reads its blocks' numbers before a step is computed. *)
ReadPositions == Fetch("V", "S") \o Exec(AIV, "S", {<<"blockIdUb">>}, {})

AllocGlobalResources == SetFlag(AIV, "MTE3", "MTE2", <<0>>) \o SetFlag(AIV, "MTE3", "MTE2", <<1>>)
FreeGlobalResources == WaitFlag(AIV, "MTE3", "MTE2", <<0>>) \o WaitFlag(AIV, "MTE3", "MTE2", <<1>>)

(* Process.  Turn i of the loops runs step i - RingLimit, if there is one, and the last
   steps run when the ring is drained. *)
AdaCore(r, tasks) ==
  LET steps == Process(r, tasks)
      Run(i) ==
        IF i \notin DOMAIN steps THEN <<>>
        ELSE ComputeStep(r, steps[i], i = 1, i > 1)
      Prologue(i) ==
        LET wanted == StepsOf(r, tasks)
            fresh == i = 1 \/ wanted[i].n # wanted[i - 1].n \/ wanted[i].b # wanted[i - 1].b
        IN IF wanted[i].turn.inner # 0 THEN <<>>
           ELSE (IF fresh THEN GetTaskCost ELSE <<>>) \o TaskAllocRow \o CalcSparsePos
  IN AllocGlobalResources
       \o FlattenSeq([i \in DOMAIN steps |-> Prologue(i) \o ReadPositions \o Run(i - RingLimit)])
       \o Run(Len(steps) - 1) \o Run(Len(steps))
       \o ProcessLast(r, steps[Len(steps)].step)
       \o FreeGlobalResources

(* While the ring is drained nothing makes the copies wait for the additions that read
   what they overwrite. *)
UnorderedSeconds == {<<"V", "MTE2", MmRes(i)>> : i \in 0 .. 1}
=============================================================================
