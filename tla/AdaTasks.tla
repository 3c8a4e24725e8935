------------------------------ MODULE AdaTasks -------------------------------
(***************************************************************************)
(* How ada_block_sparse_attention shares out the blocks of rows, where the *)
(* cores put their results, and the memory of a core                       *)
(* (op_kernel/ada_block_sparse_attention_s1s2_bns1_x910.h and              *)
(* ..._x910_base.h).  The rows of a head are handed out by how many blocks *)
(* of keys they keep, the largest to the core with the least work so far.  *)
(* Every core works the whole distribution out for itself and takes its    *)
(* own part.  The library's sort is taken to be stable.                    *)
(***************************************************************************)
EXTENDS AdaTiling

(* GetSingleCoreParam *)
LengthOf(lengths, told, default, b) ==
  IF lengths = <<>> THEN default ELSE IF told = 1 THEN lengths[1] ELSE lengths[b + 1]
LengthQ(r, b) == LengthOf(r.lengths, r.told, r.q, b)
LengthKV(r, b) == LengthOf(r.lengthsKV, r.toldKV, r.kv, b)

RowBlocks(r, b) == UpDiv(LengthQ(r, b), OuterFactor(r))
RowsOfBlock(r, b, row) ==
  IF row = RowBlocks(r, b) - 1 /\ LengthQ(r, b) % OuterFactor(r) # 0
  THEN LengthQ(r, b) % OuterFactor(r) ELSE OuterFactor(r)

Kept(r, x) == r.kept[<<x.b, x.n, x.row>>]

(* GetTaskCost: the rows of a head, the most expensive first.  It sorts whole groups of
   64; the rows beyond the last cost nothing, and come after those that do not. *)
RowsByCost(r, n, b) ==
  LET rows == RowBlocks(r, b)
      cost == [i \in 0 .. AlignUp(rows, 64) - 1 |->
                IF i < rows THEN Cardinality(r.kept[<<b, n, i>>]) ELSE 0]
      sorted == SortSeq([i \in 1 .. AlignUp(rows, 64) |-> i - 1],
                        LAMBDA g, h : cost[g] > cost[h] \/ (cost[g] = cost[h] /\ g < h))
  IN [order |-> sorted, cost |-> [i \in DOMAIN sorted |-> cost[sorted[i]]]]

(* TaskAlloc: the cores are sorted by what is left of their budgets, and each of the
   first takes a row and pays for it. *)
BySpare(cores) ==
  LET sorted == SortSeq([i \in DOMAIN cores |-> i],
                        LAMBDA g, h : \/ cores[g].spare > cores[h].spare
                                      \/ cores[g].spare = cores[h].spare /\ g < h)
  IN [i \in DOMAIN cores |-> cores[sorted[i]]]

TaskAlloc(r, n, b, acc) ==
  LET rows == RowsByCost(r, n, b)
      cores == BySpare(acc.cores)
      count == Lesser(r.aiv, RowBlocks(r, b) - acc.allocated)
      taken(i) == acc.allocated + i
  IN [cores |-> [i \in DOMAIN cores |->
                  IF i <= count THEN [cores[i] EXCEPT !.spare = @ - rows.cost[taken(i)]] ELSE cores[i]],
      allocated |-> acc.allocated + count,
      tasks |-> acc.tasks \o [i \in 1 .. count |->
                  [core |-> cores[i].core, n |-> n, b |-> b, row |-> rows.order[taken(i)]]]]

(* ComputeEachCore: head by head and batch by batch. *)
HeadTasks(r, acc, n, b) ==
  FoldLeft(LAMBDA a, i : TaskAlloc(r, n, b, a), [acc EXCEPT !.allocated = 0],
           [i \in 1 .. UpDiv(RowBlocks(r, b), r.aiv) |-> i])

Tasks(r) ==
  FoldLeft(LAMBDA acc, i : HeadTasks(r, acc, (i - 1) \div r.b, (i - 1) % r.b),
           [cores |-> [i \in 1 .. r.aiv |-> [core |-> i - 1, spare |-> 0]],
            allocated |-> 0, tasks |-> <<>>],
           [i \in 1 .. r.n * r.b |-> i]).tasks

(* Init renumbers the cores, since the host never sets how many are used. *)
CoreIndex(r, block) == IF block % 2 = 1 THEN (block + r.aiv) \div 2 ELSE block \div 2

(* The tasks of a core that keep a block; the others are filled with zeros. *)
TasksOf(r, core) ==
  SelectSeq(Tasks(r), LAMBDA x : x.core = core /\ Kept(r, x) # {})

-----------------------------------------------------------------------------
(* The output, in pieces of one row of one head: LoopSOuterOffsetInit, and
   DataCopyTranspose2 for the layouts in which the heads of a row are side by side. *)
Transposed(r) == KernelLayout(r) = "BSH" \/ r.bsndOut

PlaceOfRow(r, x, k) ==
  LET row == x.row * OuterFactor(r) + k
  IN IF Transposed(r) THEN (x.b * r.q + row) * r.n + x.n ELSE (x.b * r.n + x.n) * r.q + row

PlacesOf(r, x) == {PlaceOfRow(r, x, k) : k \in 0 .. RowsOfBlock(r, x.b, x.row) - 1}

(* Zeros go to attentionOutOffset, which is where the block is only in this layout. *)
FillsInPlace(r) ==
  Transposed(r) => \A b \in 0 .. r.b - 1, n \in 0 .. r.n - 1 :
                     \A row \in 0 .. RowBlocks(r, b) - 1 : r.kept[<<b, n, row>>] # {}

(* Where the block's rows are in the query, in the same pieces, and where its head
   begins in the keys: LoopSOuterOffsetInit. *)
QueryPlace(r, x) ==
  LET row == x.row * OuterFactor(r)
  IN IF KernelLayout(r) = "BSH" THEN (x.b * r.q + row) * r.n + x.n
     ELSE (x.b * r.n + x.n) * r.q + row

KeyPlace(r, x) ==
  LET ratio == HeadNumRatio(r)
      headsKV == r.n \div ratio
      batch == IF r.q = r.kv THEN (x.b * r.q * r.n) \div ratio ELSE x.b * r.kv * headsKV
  IN batch + (x.n \div ratio) * (IF KernelLayout(r) = "BSH" THEN 1 ELSE r.kv)

-----------------------------------------------------------------------------
(* InitEachCoreWorkspace: the areas of the workspace, in bytes: two first products
   and two second ones of every core, and four structures that tell the matrix core
   which blocks of keys to load. *)
ResultBytes(r) == IF r.type = "Half" THEN 2 ELSE 4
StructBytes == 64

AreaOf(r, core, area, i) ==
  LET mm1 == Mm1ResSize(r) * ResultBytes(r)
      mm2 == Mm2ResSize(r) * ResultBytes(r)
      seconds == r.aiv * 2 * mm1
      structs == seconds + r.aiv * 2 * mm2
  IN CASE area = "bmm1Res" -> [from |-> (2 * core + i) * mm1, size |-> mm1]
       [] area = "bmm2Res" -> [from |-> seconds + (2 * core + i) * mm2, size |-> mm2]
       [] area = "bmm1CB" -> [from |-> structs + (4 * core + i) * StructBytes, size |-> StructBytes]
       [] area = "bmm2CB" -> [from |-> structs + (4 * core + 2 + i) * StructBytes, size |-> StructBytes]

AreaNames == {"bmm1Res", "bmm2Res", "bmm1CB", "bmm2CB"}

(* InitUb: bytes of the local buffers of a core, and what they have to hold: the sums
   of a step's rows share the buffer of their exponents, and the mask is turned into
   numbers of blocks in a buffer of its own. *)
UbSize == 192 * 1024
TmpBuffBytes(r) == IF r.type = "Half" THEN 64 * 1024 ELSE 32 * 1024
PieceBuffer == 32 * 1024
SortedEntries == 1024

LocalBytes(r) ==
  2 * SoftmaxMaxSize(r) * 4 + SoftmaxExpSize(r) * ResultBytes(r) + TmpBuffBytes(r) + 2 * PieceBuffer
    + Bmm2ResUbSize(r) * ResultBytes(r) + (r.sparse * r.sparse) \div 8
    + 2 * SortedEntries * 4 + 2 * StructBytes + 3 * 64 * 4

(* Bytes CalcSparsePos takes of tmpBuff for a mask of so many columns. *)
MaskBytes(columns) == AlignUp(columns, 32) * 31

(* Bmm1VecInputCopyIn: rows of a piece of a step of so many columns. *)
PieceRows(r, rows, columns) ==
  LET fitting == ((MmResUbSize(r) \div columns) \div 8) * 8
  IN IF columns = InnerFactor THEN SoftmaxOuter(r)
     ELSE IF fitting > rows \/ fitting = 0 THEN rows ELSE fitting
=============================================================================
