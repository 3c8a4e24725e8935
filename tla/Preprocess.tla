----------------------------- MODULE Preprocess -----------------------------
(***************************************************************************)
(* la_preprocess: query, key and value, laid out [batch, row, head], are   *)
(* cast to half, transposed to [batch, head, row] and padded with rows of  *)
(* zeros to a multiple of align_len (plugin/la_preprocess.cpp,             *)
(* op_host/la_preprocess_tiling.cpp, op_kernel/la_preprocess.h).  The      *)
(* vector cores share out the rows, and then the rows of zeros.            *)
(*                                                                         *)
(* A request is [aiv, ub, b, n, bf16, align, lengths]: vector cores of the *)
(* device, bytes of their buffer, batch, heads, whether the input is bf16, *)
(* and the lengths of query, key and value.                                *)
(***************************************************************************)
EXTENDS AscendInstructions, SequencesExt

HeadDim == 128

AlignUp(length, align) == ((length + align - 1) \div align) * align

(* Init: rows a buffer holds.  The loop over the rows advances by them. *)
BlockSeqLen(r) ==
  IF r.bf16
  THEN ((r.ub - HeadDim * 2) \div (r.n * HeadDim)) \div 6
  ELSE ((r.ub - HeadDim * 2) \div (r.n * HeadDim)) \div 2

(* InitBuffers: bytes of the queues and of the zeros. *)
BufferBytes(r) ==
  BlockSeqLen(r) * r.n * HeadDim * (IF r.bf16 THEN 6 ELSE 2) + HeadDim * 2

(* SplitTask, which shares rows and then rows of zeros in the same way: the first
   cores take one row more. *)
ShareUneven(rows, cores, core) ==
  [first |-> (rows \div cores) * core,
   count |-> (rows \div cores) + (IF core < rows % cores THEN 1 ELSE 0)]

Share(rows, cores, core) ==
  LET single == rows \div cores
      tail == rows % cores
  IN [first |-> single * core + (IF core < tail THEN core ELSE tail),
      count |-> single + (IF core < tail THEN 1 ELSE 0)]

SplitTask(r, length, core) ==
  LET rows == Share(length, r.aiv, core)
      pads == Share(AlignUp(length, r.align) - length, r.aiv, core)
  IN [first |-> rows.first, count |-> rows.count,
      padFirst |-> length + pads.first, padCount |-> pads.count]

(* CopyData: the chunks of a core's rows, each <<first row, rows>>. *)
Chunks(r, task) ==
  LET size == BlockSeqLen(r)
      turns == (task.count + size - 1) \div size
  IN [c \in 1 .. turns |->
       LET j == task.first + (c - 1) * size
       IN <<j, IF j + size > task.first + task.count THEN task.first + task.count - j ELSE size>>]

(* The rows of a batch a core writes, as they are written. *)
RowsCopied(r, task) ==
  FlattenSeq([c \in DOMAIN Chunks(r, task) |->
               [i \in 1 .. Chunks(r, task)[c][2] |-> Chunks(r, task)[c][1] + i - 1]])
RowsPadded(task) == [i \in 1 .. task.padCount |-> task.padFirst + i - 1]
RowsWritten(r, length, core) ==
  LET task == SplitTask(r, length, core)
  IN RowsPadded(task) \o RowsCopied(r, task)

-----------------------------------------------------------------------------
(* The instructions of one vector core. *)
(* A queue of one buffer.  What fills it is taken by EnQue and DeQue; FreeTensor
   leaves a flag that the next AllocTensor waits for, and the destructor of the
   pipe for the last. *)
AllocTensor(que, src, dst, first) == IF first THEN <<>> ELSE WaitFlag(AIV, src, dst, que)
EnQue(que, src, dst) == SetFlag(AIV, src, dst, que)
DeQue(que, src, dst) == WaitFlag(AIV, src, dst, que)
FreeTensor(que, src, dst) == SetFlag(AIV, src, dst, que)

Rows(what, batch, first, count) == {<<what, batch, i>> : i \in first .. first + count - 1}

CopyIn(r, tensor, batch, chunk, first) ==
  LET rows == Rows(<<"in", tensor>>, batch, chunk[1], chunk[2])
  IN IF r.bf16
     THEN AllocTensor("in", "V", "MTE2", first)
            \o Exec(AIV, "MTE2", rows, {<<"inQue">>})
            \o EnQue("in", "MTE2", "V")
            \o DeQue("in", "MTE2", "V")
            \o AllocTensor("out", "MTE3", "V", first)
            \o Exec(AIV, "V", {<<"inQue">>}, {<<"inQue">>})
            \o Exec(AIV, "V", {<<"inQue">>}, {<<"outQue">>})
            \o EnQue("out", "V", "MTE3")
            \o FreeTensor("in", "V", "MTE2")
     ELSE AllocTensor("mov", "MTE3", "MTE2", first)
            \o Exec(AIV, "MTE2", rows, {<<"movQueBind">>})
            \o EnQue("mov", "MTE2", "MTE3")

CopyOut(r, tensor, batch, chunk) ==
  LET rows == Rows(<<"out", tensor>>, batch, chunk[1], chunk[2])
  IN IF r.bf16
     THEN DeQue("out", "V", "MTE3")
            \o Exec(AIV, "MTE3", {<<"outQue">>}, rows)
            \o FreeTensor("out", "MTE3", "V")
     ELSE DeQue("mov", "MTE2", "MTE3")
            \o Exec(AIV, "MTE3", {<<"movQueBind">>}, rows)
            \o FreeTensor("mov", "MTE3", "MTE2")

(* The zeros were written by the vector unit when the buffers were initialised;
   nothing makes the copy wait for that. *)
PadOut(tensor, batch, task) ==
  IF task.padCount = 0 THEN <<>>
  ELSE Exec(AIV, "MTE3", {<<"zeroTensor">>}, Rows(<<"out", tensor>>, batch, task.padFirst, task.padCount))

CopyData(r, tensor, core) ==
  LET task == SplitTask(r, r.lengths[tensor], core)
      chunks == Chunks(r, task)
      batchOf(b) ==
        PadOut(tensor, b, task)
          \o FlattenSeq([c \in DOMAIN chunks |->
               CopyIn(r, tensor, b, chunks[c], tensor = 1 /\ b = 0 /\ c = 1)
                 \o CopyOut(r, tensor, b, chunks[c])])
  IN FlattenSeq([b \in 1 .. r.b |-> batchOf(b - 1)])

DestroyNothing(r) == <<>>
DestroyPipe(r) ==
  IF r.bf16
  THEN AllocTensor("in", "V", "MTE2", FALSE) \o AllocTensor("out", "MTE3", "V", FALSE)
  ELSE AllocTensor("mov", "MTE3", "MTE2", FALSE)

(* Init and Process.  A core has rows of the query. *)
PreprocessCore(r, core) ==
  Exec(AIV, "V", {}, {<<"zeroTensor">>})
    \o FlattenSeq([tensor \in 1 .. 3 |-> CopyData(r, tensor, core)])
    \o DestroyPipe(r)

UnorderedZeros == {<<"V", "MTE3", <<"zeroTensor">>>>}
=============================================================================
