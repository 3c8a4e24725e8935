---------------------------- MODULE SparseTiling ----------------------------
(***************************************************************************)
(* The host's part of sparse_block_estimate                                *)
(* (op_host/sparse_block_estimate_tiling.cpp): how large a step of the     *)
(* kernel is and which vector core takes which blocks of the queries, and  *)
(* what the kernel reads out of the six arrays the host sends.             *)
(*                                                                         *)
(* A request is [aiv, b, n, q, kv, stride, sparse, causal]: vector cores   *)
(* of the device, batch, heads, lengths, rows that are one row of the      *)
(* estimate, rows of a block of the mask, and whether the mask is causal.  *)
(* The caller passes no lengths of its own, so those of a batch are equal. *)
(*                                                                         *)
(* The sizes of a step are global variables of the library: a call lowers  *)
(* them for its own lengths and never raises them again.                   *)
(***************************************************************************)
EXTENDS Integers, Sequences, SequencesExt

(* SINGLE_CORE_MBASE and SINGLE_CORE_NBASE when the library is loaded. *)
Sizes0 == [m |-> 128, n |-> 1024]
SmallestN == 512

Lesser(a, b) == IF a < b THEN a ELSE b
Greater(a, b) == IF a < b THEN b ELSE a
UpDiv(a, b) == (a + b - 1) \div b

(* SparseBlockEstimateTilingFunc: the sizes of this call, and of those after it. *)
ShrunkN(n, r) ==
  LET fits == {k \in 0 .. 11 : r.kv >= r.stride * 2 * (n \div 2^k)}
  IN n \div 2^(CHOOSE k \in fits : \A h \in fits : k <= h)

CoreTasks(r) == UpDiv(UpDiv(r.n * r.q, r.aiv), r.sparse)

Shrink(sizes, r) ==
  [m |-> Lesser(sizes.m, (CoreTasks(r) * r.sparse) \div r.stride),
   n |-> Greater(ShrunkN(sizes.n, r), SmallestN)]

-----------------------------------------------------------------------------
(* float: a number has a mantissa of 24 bits, and a result is rounded to it, a tie
   to the even one.  [man, exp] is man / 2^exp. *)
HalfEven(num, den) ==
  LET down == num \div den
      rest == 2 * (num % den)
  IN IF rest > den \/ (rest = den /\ down % 2 = 1) THEN down + 1 ELSE down

(* a / b of two integers; a is below 2^24 * b. *)
FloatDiv(a, b) ==
  LET Double(x, i) ==
        IF x.num >= b * 2^23 \/ a = 0 THEN x ELSE [num |-> 2 * x.num, exp |-> x.exp + 1]
      scaled == FoldLeft(Double, [num |-> a, exp |-> 0], [i \in 1 .. 30 |-> i])
  IN [man |-> HalfEven(scaled.num, b), exp |-> scaled.exp]

(* int64_t(f * float(c)), for a c below 64. *)
FloatTimes(f, c) ==
  LET product == f.man * c
      excess == CHOOSE s \in 0 .. 6 : product <= 2^(24 + s) /\ (s > 0 => product > 2^(23 + s))
  IN (HalfEven(product, 2^excess) * 2^excess) \div 2^f.exp

-----------------------------------------------------------------------------
(* PromptFlashAttentionSplitNSNew *)
OuterSize(sizes, r) == sizes.m * r.stride
OuterBlocks(sizes, r) == UpDiv(r.q, OuterSize(sizes, r))
InnerLoops(sizes, r) == UpDiv(r.kv, sizes.n * r.stride)

(* What block k of a head costs, and all of them. *)
Weight(sizes, r, k) == IF r.causal THEN k + 1 ELSE InnerLoops(sizes, r)
TotalWeight(sizes, r) ==
  LET blocks == OuterBlocks(sizes, r)
  IN r.n * r.b * (IF r.causal THEN ((blocks + 1) * blocks) \div 2
                  ELSE blocks * InnerLoops(sizes, r))

(* The blocks in the order in which they are handed out. *)
BlockItems(sizes, r) ==
  LET blocks == OuterBlocks(sizes, r)
  IN [x \in 1 .. r.n * r.b * blocks |->
       [n |-> (x - 1) \div (r.b * blocks), b |-> ((x - 1) \div blocks) % r.b, k |-> (x - 1) % blocks]]

(* Where a core's share ends, if the next one begins with item i. *)
EndBefore(sizes, r, i) ==
  LET blocks == OuterBlocks(sizes, r)
  IN IF i.k # 0 THEN [n |-> i.n + 1, s |-> i.b + 1, pos |-> i.k]
     ELSE IF i.b = 0 THEN [n |-> i.n, s |-> r.b, pos |-> blocks]
     ELSE [n |-> i.n + 1, s |-> i.b, pos |-> blocks]

WeightBefore(sizes, r, x) ==
  LET blocks == OuterBlocks(sizes, r)
      k == (x - 1) % blocks
  IN ((x - 1) \div blocks) * (TotalWeight(sizes, r) \div (r.n * r.b))
       + (IF r.causal THEN ((k + 1) * k) \div 2 ELSE k * InnerLoops(sizes, r))

(* The arrays: where each core's share starts and ends.  The next core begins with
   the first item that would take this one further above its target than it is below
   without; begins has the items at which the cores after the first do. *)
SplitNS(sizes, r) ==
  LET items == BlockItems(sizes, r)
      target == FloatDiv(TotalWeight(sizes, r), r.aiv)
      TooMuch(x, cores) ==
        LET dif == FloatTimes(target, cores) - WeightBefore(sizes, r, x)
        IN Weight(sizes, r, items[x].k) - dif > dif
      After(earlier, c) ==
        {x \in DOMAIN items : TooMuch(x, c) /\ \A h \in DOMAIN earlier : earlier[h] < x}
      upto[c \in 0 .. Len(items)] ==
        IF c = 0 THEN <<>>
        ELSE LET earlier == upto[c - 1]
             IN IF Len(earlier) < c - 1 \/ After(earlier, c) = {} THEN earlier
                ELSE Append(earlier, Min(After(earlier, c)))
      begins == upto[Len(items)]
  IN [starts |-> <<[n |-> 0, s |-> 0, pos |-> 0]>>
                   \o [c \in DOMAIN begins |->
                        LET i == items[begins[c]] IN [n |-> i.n, s |-> i.b, pos |-> i.k]],
      ends |-> [c \in DOMAIN begins |-> EndBefore(sizes, r, items[begins[c]])]
                 \o <<[n |-> r.n, s |-> r.b, pos |-> OuterBlocks(sizes, r)]>>]

(* actualCoreNums, which the kernel compares its number with. *)
UsedCores(split) == Len(split.starts)

-----------------------------------------------------------------------------
(* ComputeEachCore: the blocks a core makes of its share, in order.  The first head
   starts at the first batch of the share and the first batch at its first block;
   the last head ends with the last batch, and that with the last block. *)
BlocksOf(sizes, r, split, core) ==
  LET start == split.starts[core + 1]
      end == split.ends[core + 1]
      blocks == OuterBlocks(sizes, r)
      batches(n) ==
        [first |-> IF n = start.n THEN start.s ELSE 0,
         limit |-> IF n = end.n - 1 THEN end.s ELSE r.b]
      ks(n, b) ==
        [first |-> IF n = start.n /\ b = start.s THEN start.pos ELSE 0,
         limit |-> IF n = end.n - 1 /\ b = end.s - 1 THEN end.pos ELSE blocks]
      run(n, b) == [i \in 1 .. ks(n, b).limit - ks(n, b).first |->
                     [n |-> n, b |-> b, k |-> ks(n, b).first + i - 1]]
      head(n) == FlattenSeq([i \in 1 .. batches(n).limit - batches(n).first |->
                              run(n, batches(n).first + i - 1)])
  IN FlattenSeq([i \in 1 .. end.n - start.n |-> head(start.n + i - 1)])

-----------------------------------------------------------------------------
(* Elements of the areas of the workspace a core has, and what it uses of them: the
   two products, the two reordered queries, and the sums of the steps before the
   last, two steps wide. *)
ReduceSize(r) == r.sparse \div r.stride
ReduceColumns(sizes, r) == sizes.n \div ReduceSize(r) + 16

FirstReduceArea(sizes) == sizes.n * 2 * sizes.m
FirstReduceUsed(sizes, r) == (InnerLoops(sizes, r) - 1) * ReduceColumns(sizes, r) * sizes.m

(* The maxima of the steps, in a buffer of 8 KB. *)
MaxLocalBuffer == 2048
MaxLocalUsed(sizes, r) == sizes.m * InnerLoops(sizes, r)

(* Bytes the host asks for, and bytes of all areas; a head has 128 columns. *)
UserWorkspace(sizes, r) ==
  r.aiv * (sizes.m * 4 * (sizes.n + 32) * 4 + sizes.m * 2 * 2 * r.stride * 128)
AreasUsed(sizes, r) ==
  r.aiv * (2 * sizes.m * 4 * (sizes.n + 32) + 2 * sizes.m * r.stride * 128 * 2
             + FirstReduceArea(sizes) * 2)
=============================================================================
