--------------------------- MODULE OperatorResults ---------------------------
(***************************************************************************)
(* What has to hold of an accepted call so that its kernels compute what   *)
(* the operator promises: how the work is shared out, where intermediate   *)
(* results are handed over, how they are reduced, and how parameters reach *)
(* the step they are for.  All of it follows from the request and, for the *)
(* estimate, from the sizes the library has at that moment.                *)
(***************************************************************************)
EXTENDS OperatorCalls

CONSTANTS
  EstimateScores \* rows of scores the estimate selects from

Soft == INSTANCE LaserSoftmax
Pre == INSTANCE Preprocess
Ring == INSTANCE SparseEstimate WITH Pieces <- 1, Parts <- 1, MaskRows <- 1
Sums == INSTANCE SparseReduce WITH Lanes <- 4, Piece <- 2, CapFrom <- 5

Accepted(i, op) ==
  /\ status[i] = "new"
  /\ status'[i] = "queued"
  /\ Call(i).op = op

-----------------------------------------------------------------------------
(* laser_attention.  The host counts a core too many on a device of 25 matrix cores;
   for short sequences the statements below are void there. *)
CountsWhatRuns(r) == Laser!CountedCores(r) <= Laser!LaunchedCores(r)

Running(g, r) ==
  {x \in (0 .. Laser!LaunchedCores(r) - 1) \X (0 .. Laser!CubeRounds(g) - 1) :
     Laser!CubeRuns(g, x[1], x[2])}

AllBlocks(g) ==
  [b : 0 .. g.batches - 1, n : 0 .. g.heads - 1, row : 0 .. g.rows - 1, col : 0 .. g.cols - 1]

Where3(x) == [b |-> x.b, n |-> x.n, row |-> x.row, col |-> x.col]

LaserWork(r) ==
  LET g == Laser!CubeGeometry(r)
      made == [x \in Running(g, r) |-> {Where3(y) : y \in Laser!Cube1Blocks(g, x[1], x[2])}]
  IN /\ UNION {made[x] : x \in DOMAIN made} = AllBlocks(g)
     /\ MapThenSumSet(LAMBDA x : Cardinality(made[x]), DOMAIN made) = Cardinality(AllBlocks(g))

(* What the three parts of a round take for the place and the meaning of a block. *)
VectorBlocks(g, core, round) ==
  UNION {{[at |-> h.at + c, b |-> h.b, n |-> h.n, row |-> h.row, col |-> h.col + c] :
            c \in 0 .. h.kx - 1} : h \in ToSet(Laser!VectorHalves(g, core, round))}

Cube2Blocks(g, core, round) ==
  UNION {{[at |-> s.left + m * s.kx + c, b |-> s.b, n |-> s.n, row |-> s.row + m, col |-> s.col + c] :
            m \in 0 .. s.ky - 1, c \in 0 .. s.kx - 1} : s \in ToSet(Laser!CubeSections(g, core, round))}

VectorDiags(g, core, round) ==
  {[at |-> h.diag, b |-> h.b, n |-> h.n, row |-> h.row, head |-> h.head, tail |-> h.tail] :
     h \in ToSet(Laser!VectorHalves(g, core, round))}

CubeDiags(g, core, round) ==
  UNION {{[at |-> s.diag + m, b |-> s.b, n |-> s.n, row |-> s.row + m, head |-> s.start, tail |-> s.end] :
            m \in 0 .. s.ky - 1} : s \in ToSet(Laser!CubeSections(g, core, round))}

RoundAgrees(gc, gv, core, round) ==
  LET blocks == Laser!Cube1Blocks(gc, core, round)
      slot == Laser!CubeSlot(gc, core, round)
  IN /\ VectorBlocks(gv, core, round) = blocks
     /\ Cube2Blocks(gc, core, round) = blocks
     /\ VectorDiags(gv, core, round) = CubeDiags(gc, core, round)
     /\ {x.at : x \in blocks} = slot .. slot + Cardinality(blocks) - 1
     /\ Cardinality(blocks) <= gc.perCore

(* A vector core keeps the maxima and sums of one pair of rows of blocks: a section
   that continues its rows has to be the next of the same rows. *)
RowsInOneChain(g, core) ==
  LET halves == FlattenSeq([i \in 1 .. Laser!VectorRounds(g) |->
                  IF Laser!VectorRuns(g, core, i - 1) THEN Laser!VectorHalves(g, core, i - 1) ELSE <<>>])
      me(h) == <<h.b, h.n, h.row>>
      Take(acc, h) ==
        LET m == h.row % 2
        IN [ok |-> /\ acc.ok
                   /\ IF h.head THEN h.col = 0 ELSE acc.kept[m] = <<me(h), h.col>>
                   /\ h.tail <=> h.col + h.kx = g.cols,
            kept |-> [acc.kept EXCEPT ![m] = <<me(h), h.col + h.kx>>]]
  IN FoldLeft(Take, [ok |-> TRUE, kept |-> [m \in 0 .. 1 |-> <<>>]], halves).ok

LaserHandover(r) ==
  LET gc == Laser!CubeGeometry(r)
      gv == Laser!VectorGeometry(r)
      blocks == gc.cores * gc.perCore
  IN /\ \A x \in Running(gc, r) : RoundAgrees(gc, gv, x[1], x[2])
     /\ \A core \in 0 .. Laser!LaunchedCores(r) - 1 : RowsInOneChain(gv, core)
     /\ 2 * blocks * Laser!BytesOfScore <= Laser!ScoreArea(r).size
     /\ gc.cores * 2 * Laser!MaxSwitchTime * gc.ky * Laser!BytesOfDiag <= Laser!DiagArea(r)

(* The blocks of a row are reduced whole. *)
LaserReductions ==
  /\ \A n \in 1 .. 32 :
       /\ (n + Soft!Padding(n)) * 4 * Soft!BlockSide <= Soft!ScoreBuffer
       /\ ToSet(Soft!RowMax(n)) = 0 .. n - 1
       /\ ToSet(Soft!RowSum(n)) = 0 .. n - 1
       /\ Len(Soft!RowSum(n)) = n

(* The columns the host has padded are masked; a shift by -1 leaves what happens to
   a padding of 64 or 192 columns open. *)
LaserMasked(r) ==
  LET window == Laser!WindowLen(r.kv)
  IN window % 128 # 64 => Soft!Masked(window) = {256 - window .. 255}

-----------------------------------------------------------------------------
(* la_preprocess: the rows of an output, as the plug-in has shaped it.  A buffer that
   holds no row at all makes the copy loop endless. *)
HoldsARow(r) == Pre!BlockSeqLen(r) > 0

PreprocessWork(r) ==
  \A tensor \in 1 .. 3 :
    LET written == FlattenSeq([core \in 1 .. r.aiv |-> Pre!RowsWritten(r, r.lengths[tensor], core - 1)])
        rows == PaddedRows(r.lengths[tensor], r.align)
    IN ToSet(written) = 0 .. rows - 1 /\ Len(written) = rows

-----------------------------------------------------------------------------
(* sparse_block_estimate.  The share of a core is rounded to a float, and on a device
   of 50 vector cores one share too many may come out of it. *)
CoresSuffice(split, r) == Sparse!UsedCores(split) <= r.aiv

SparseBlocks(s, r, split) ==
  FlattenSeq([core \in 1 .. Sparse!UsedCores(split) |-> Sparse!BlocksOf(s, r, split, core - 1)])

(* The rows of the mask a block writes. *)
MaskRowsOf(s, r, block) ==
  LET perHead == Sparse!UpDiv(r.q, r.sparse)
      outer == Sparse!OuterSize(s, r)
      rows == Sparse!UpDiv(Sparse!Lesser(r.q - block.k * outer, outer), r.stride)
      first == (block.b * r.n + block.n) * perHead + (block.k * s.m) \div Sparse!ReduceSize(r)
  IN first .. first + Sparse!UpDiv(rows, Sparse!ReduceSize(r)) - 1

SparseWork(s, r) ==
  LET split == Sparse!SplitNS(s, r)
      made == SparseBlocks(s, r, split)
      rows == [x \in DOMAIN made |-> MaskRowsOf(s, r, made[x])]
  IN CoresSuffice(split, r) =>
       /\ ToSet(made) = ToSet(Sparse!BlockItems(s, r))
       /\ Len(made) = Len(Sparse!BlockItems(s, r))
       /\ UNION {rows[x] : x \in DOMAIN rows} = 0 .. MaskShape(r).rows - 1
       /\ \A x, y \in DOMAIN rows : x # y => rows[x] \intersect rows[y] = {}

(* A comment of the kernel takes it that a block has at most 16 steps; after a call for
   short sequences has lowered the library's sizes it may have more. *)
FewSteps(s, r) == Sparse!InnerLoops(s, r) <= 16

SparseHandover(s, r) ==
  /\ Sparse!AreasUsed(s, r) <= Sparse!UserWorkspace(s, r)
  /\ FewSteps(s, r) => /\ Sparse!FirstReduceUsed(s, r) <= Sparse!FirstReduceArea(s)
                       /\ Sparse!MaxLocalUsed(s, r) <= Sparse!MaxLocalBuffer

SparseRing(s, r) ==
  LET split == Sparse!SplitNS(s, r)
  IN \A core \in 0 .. Sparse!UsedCores(split) - 1 :
       LET blocks == Sparse!BlocksOf(s, r, split, core)
           steps == FlattenSeq([x \in DOMAIN blocks |-> Ring!StepsOf(s, r, blocks[x])])
           got == Ring!Process(s, r, blocks)
       IN /\ Len(got) = Len(steps)
          /\ \A i \in DOMAIN got :
               /\ \A field \in DOMAIN steps[i] : got[i].step[field] = steps[i][field]
               /\ got[i].step.ping = (i - 1) % 2
               /\ got[i].ahead = IF i < Len(got) THEN <<got[i + 1].step>> ELSE <<>>

Options(r) ==
  [threshold |-> r.threshold, rowSparse |-> r.rowSparse, setFirst |-> r.sink,
   setDiag |-> r.recent, causal |-> r.causal]

(* Every row and column is added up once, and the columns that are kept make up the
   threshold unless row_sparse limits their number. *)
SparseReductions(r) ==
  /\ \A rows \in 1 .. Sparse!ReduceSize(r) :
       LET sum == Sums!ColumnSum(rows, Sparse!ReduceSize(r))
       IN ToSet(sum) = 0 .. rows - 1 /\ Len(sum) = rows
  /\ \A columns \in 1 .. 40 :
       LET sum == Sums!RowSum(columns)
       IN ToSet(sum) = 0 .. columns - 1 /\ Len(sum) = columns
  /\ \A scores \in EstimateScores :
       LET kept == Sums!KeptColumns(Options(r), scores)
       IN /\ 1 \in kept
          /\ r.rowSparse[1] = r.rowSparse[2] =>
               MapThenSumSet(LAMBDA i : scores[i], kept) * r.threshold[2]
                 >= r.threshold[1] * Sums!SumOf(scores)

-----------------------------------------------------------------------------
(* ada_block_sparse_attention.  For a key without a branch the kernel does nothing, and
   tensors without elements have a key of their own, which has none. *)
AdaRuns(a) == ~Ada!Empty(a) /\ Ada!HasKernel(Ada!Request(a))

(* The kernel knows where a batch begins: it takes it that every batch has as many rows
   as the host has counted, which for tensors of two dimensions are all there are. *)
KnowsBatches(a) == ~Ada!TNDLike(a) /\ (Len(a.query) = 2 => Ada!Batches(a) = 1)

AllRows(r) ==
  UNION {{[b |-> b, n |-> n, row |-> row] : n \in 0 .. r.n - 1, row \in 0 .. Ada!RowBlocks(r, b) - 1} :
           b \in 0 .. r.b - 1}

(* The output is written in full, unless the host has found that it needs zeros. *)
AdaOutput(a, r, places) ==
  LET rows == 0 .. (Ada!Elements(a.query) \div Ada!HeadSize(r)) - 1
  IN places \subseteq rows /\ (~r.needInit => places = rows)

AdaWork(a, r) ==
  LET tasks == Ada!Tasks(r)
      places == [x \in ToSet(tasks) |-> Ada!PlacesOf(r, x)]
      lengths == [b \in 0 .. r.b - 1 |-> Ada!LengthQ(r, b)]
  IN /\ {[b |-> x.b, n |-> x.n, row |-> x.row] : x \in ToSet(tasks)} = AllRows(r)
     /\ Len(tasks) = Cardinality(AllRows(r))
     /\ {Ada!CoreIndex(r, block) : block \in 0 .. r.aiv - 1} = 0 .. r.aiv - 1
     /\ Cardinality(UNION {places[x] : x \in DOMAIN places})
          = r.n * MapThenSumSet(LAMBDA b : lengths[b], DOMAIN lengths)
     /\ KnowsBatches(a) => AdaOutput(a, r, UNION {places[x] : x \in DOMAIN places})

(* inner_precise 4 makes the buffers too small for what is computed. *)
Computes(r) == r.precise # 4

AreaIndices(r) == (0 .. r.aiv - 1) \X Ada!AreaNames \X (0 .. 1)

(* The areas of the workspace do not overlap, and the host has asked for all of them. *)
AreasApart(r) ==
  LET areas == [x \in AreaIndices(r) |-> Ada!AreaOf(r, x[1], x[2], x[3])]
  IN /\ \A x, y \in DOMAIN areas :
          x # y => \/ areas[x].from + areas[x].size <= areas[y].from
                   \/ areas[y].from + areas[y].size <= areas[x].from
     /\ \A x \in DOMAIN areas : areas[x].from + areas[x].size <= Ada!UserWorkspace(r)

AdaHandover(r) ==
  LET columns == Ada!UpDiv(r.kv, r.sparse)
  IN /\ AreasApart(r)
     /\ Ada!LocalBytes(r) <= Ada!UbSize
     /\ Ada!MaskBytes(columns) <= Ada!TmpBuffBytes(r)
     /\ columns <= Ada!SortedEntries
     /\ \A size \in {h * r.sparse : h \in 1 .. Ada!InnerFactor \div r.sparse} :
          Ada!PieceRows(r, r.sparse, size) * size * Ada!ResultBytes(r) <= Ada!PieceBuffer

(* The steps of a core, and the keys of row k that the steps of a block count. *)
AdaSteps(r, core) == Ada!StepsOf(r, Ada!TasksOf(r, core))

KeysOfRow(r, x, k) ==
  LET steps == Ada!StepsOf(r, <<x>>)
      keys == [i \in DOMAIN steps |->
                LET turn == steps[i].turn
                IN [c \in Ada!CountedColumns(r, turn, k) |-> Ada!KeyOfColumn(r, turn, c)]]
  IN [set |-> UNION {Range(keys[i]) : i \in DOMAIN keys},
      number |-> MapThenSumSet(LAMBDA i : Cardinality(DOMAIN keys[i]), DOMAIN keys)]

KeptKeys(r, x, k) ==
  {j \in 0 .. Ada!LengthKV(r, x.b) - 1 :
    /\ j \div r.sparse \in Ada!Kept(r, x)
    /\ r.causal => j <= x.row * r.sparse + k}

(* Where the head of a block begins among the keys. *)
KeyHead(r, x) ==
  LET headsKV == IF r.nk = 0 THEN r.n ELSE r.nk
      head == x.n \div (r.n \div headsKV)
  IN IF Ada!KernelLayout(r) = "BSH" THEN x.b * r.kv * headsKV + head
     ELSE (x.b * headsKV + head) * r.kv

(* The two sizes of a part, which the kernel swaps, are one; a step's blocks are those
   the structure has room for; and the mask keeps no block beyond the keys, or, if it is
   causal, right of the diagonal. *)
SameBases(r) == Ada!BaseK(r) = Ada!BaseN(r)
HasRoom(r) == Ada!InnerFactor <= Ada!Positions * r.sparse
MaskFits(r) ==
  \A x \in DOMAIN r.kept : \A id \in r.kept[x] :
    id * r.sparse < Ada!LengthKV(r, x[1]) /\ (r.causal => id <= x[3])

(* What is weighed by the score of a key is the value that belongs to it. *)
PairsKeys(r, turn) ==
  \A c \in 0 .. turn.tail - 1 : Ada!ValueOfColumn(r, turn, c) = Ada!KeyOfColumn(r, turn, c)

AdaRows(r) ==
  \A x \in {y \in ToSet(Ada!Tasks(r)) : Ada!Kept(r, y) # {}} :
    /\ Ada!KeyPlace(r, x) = KeyHead(r, x)
    /\ \A k \in {0, 1, Ada!RowsOfBlock(r, x.b, x.row) - 1} :
         LET keys == KeysOfRow(r, x, k)
         IN keys.set = KeptKeys(r, x, k) /\ keys.number = Cardinality(keys.set)
    /\ Ada!SecondIsSet(r) => \A step \in ToSet(Ada!StepsOf(r, <<x>>)) : PairsKeys(r, step.turn)

(* The result of a row is the sum of its steps' products, each weighed by how the row's
   maximum grew at every later step, over the sum of all of them. *)
WeighedSum(x, from, until) ==
  [n |-> x.n, b |-> x.b, row |-> x.row,
   acc |-> [h \in 1 .. until - from + 1 |->
             [step |-> from + h - 1,
              by |-> [m \in 1 .. until - from + 1 - h |-> <<"exp", from + h - 1 + m>>]]],
   by |-> <<"sum", [h \in 1 .. until - from + 1 |-> from + h - 1]>>]

AdaSums(r) ==
  \A core \in 0 .. r.aiv - 1 :
    LET got == Ada!Process(r, Ada!TasksOf(r, core))
        steps == [i \in DOMAIN got |-> got[i].step]
        ends == SelectSeq([i \in DOMAIN steps |-> i], LAMBDA i : steps[i].turn.last)
    IN Ada!Results(got) =
         [h \in DOMAIN ends |-> WeighedSum(steps[ends[h]], IF h = 1 THEN 1 ELSE ends[h - 1] + 1, ends[h])]

AdaStepsKept(r) ==
  \A core \in 0 .. r.aiv - 1 :
    LET steps == AdaSteps(r, core)
        got == Ada!Process(r, Ada!TasksOf(r, core))
    IN /\ Len(got) = Len(steps)
       /\ \A i \in DOMAIN got :
            /\ \A field \in DOMAIN steps[i] : got[i].step[field] = steps[i][field]
            /\ got[i].step.ping = (i - 1) % 2
            /\ i > 1 => got[i].before = got[i - 1].step
            /\ got[i].ahead = IF i < Len(got) THEN <<got[i + 1].step>> ELSE <<>>

-----------------------------------------------------------------------------
(* Every block of the attention matrix, every row of a padded output and every row of
   the mask is made exactly once, by the cores that run: no core repeats or leaves out
   what the one before it ends with. *)
WorkOnce ==
  [][\A i \in Calls :
       LET r == Call(i).request
       IN /\ Accepted(i, "LaserAttention") /\ CountsWhatRuns(r) => LaserWork(r)
          /\ Accepted(i, "LaPreprocess") /\ HoldsARow(r) => PreprocessWork(r)
          /\ Accepted(i, "SparseBlockEstimate") => SparseWork(baseSizes', r)
          /\ Accepted(i, "AdaBlockSparseAttention") /\ AdaRuns(r) =>
               AdaWork(r, Ada!Request(r))]_vars

(* What one core or one step leaves for another is where that one looks for it, in an
   area that belongs to it, and the workspace and the buffers hold it: the matrix core
   and the vector cores of laser_attention, which work the places out apart, agree on
   every block, and the areas of the estimate do not overlap. *)
Handover ==
  [][\A i \in Calls :
       LET r == Call(i).request
       IN /\ Accepted(i, "LaserAttention") /\ CountsWhatRuns(r) => LaserHandover(r)
          /\ Accepted(i, "LaPreprocess") => Pre!BufferBytes(r) <= r.ub
          /\ Accepted(i, "SparseBlockEstimate") => SparseHandover(baseSizes', r)
          /\ Accepted(i, "AdaBlockSparseAttention") /\ AdaRuns(r) /\ Computes(r) =>
               AdaHandover(Ada!Request(r))]_vars

(* A row is reduced whole: a sum counts every block, row or column once, a maximum
   counts each, padding counts for nothing, and the mask keeps the share of the scores
   it is asked for. *)
ReductionsComplete ==
  [][\A i \in Calls :
       LET r == Call(i).request
       IN /\ Accepted(i, "LaserAttention") => LaserReductions /\ LaserMasked(r)
          /\ Accepted(i, "SparseBlockEstimate") => SparseReductions(r)
          /\ Accepted(i, "AdaBlockSparseAttention") /\ AdaRuns(r) =>
               LET q == Ada!Request(r)
               IN /\ AdaSums(q)
                  /\ SameBases(q) /\ HasRoom(q) /\ MaskFits(q) => AdaRows(q)]_vars

(* The ring of four hands every step its own parameters, in order, alternates the
   buffers of the products, and knows the step that follows whenever there is one. *)
RingKeepsTasks ==
  [][\A i \in Calls :
       LET r == Call(i).request
       IN /\ Accepted(i, "SparseBlockEstimate") => SparseRing(baseSizes', r)
          /\ Accepted(i, "AdaBlockSparseAttention") /\ AdaRuns(r) =>
               AdaStepsKept(Ada!Request(r))]_vars
=============================================================================
