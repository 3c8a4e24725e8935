---------------------------- MODULE AdaArguments -----------------------------
(***************************************************************************)
(* What the host reads of a call of ada_block_sparse_attention             *)
(* (op_host/ada_block_sparse_attention_tiling.cpp): which layout, how many *)
(* batches, rows and columns, whether there is anything to do, and what it *)
(* refuses.  The macro that reports a wrong argument is empty (ops_error.h)*)
(* so that few of the checks the file contains are made.                   *)
(*                                                                         *)
(* The plug-in passes no mask, no quantization, no paging and a sparse     *)
(* mode of 0, so that the tokens a row sees before and after it are not    *)
(* limited.  Arguments are [aiv, query, key, value, layout, type, heads,   *)
(* keyHeads, precise, sparse, causal, lengths, lengthsKV, kept]: vector    *)
(* cores; the dimensions of the tensors, two to four of each; the layout;  *)
(* the element type; the numbers of heads, of which that of the query is   *)
(* not 0, since the host would divide by it; inner_precise; rows of a      *)
(* block; whether the mask is causal; the lengths passed, none, one or one *)
(* of every batch; and the blocks of keys the mask keeps for every batch,  *)
(* head and block of rows.                                                 *)
(***************************************************************************)
EXTENDS Integers, Sequences, FiniteSets, SequencesExt

(* SetInputLayout fails for a layout it does not know, which nobody looks at: the
   layout is then what it was initialised to. *)
InputLayout(a) ==
  CASE a.layout \in {"SH", "BSH", "NSD", "BSND", "BNSD", "TND", "NTD_TND"} -> a.layout
    [] a.layout = "BNSD_BSND" -> "BNSD"
    [] OTHER -> "BSH"

IsBsndOut(a) == a.layout = "BNSD_BSND"
TNDLike(a) == InputLayout(a) \in {"TND", "NTD_TND"}

Elements(dims) == FoldLeft(LAMBDA x, y : x * y, 1, dims)

(* The output has the dimensions of the query. *)
Empty(a) == 0 \in {Elements(a.key), Elements(a.value), Elements(a.query)}

(* CheckInputDimAndHeadNum: that the heads are those of the shapes is not checked. *)
RanksFit(a) ==
  LET ranks == {Len(a.query), Len(a.key), Len(a.value)}
  IN CASE InputLayout(a) \in {"BNSD", "BSND"} -> ranks = {4}
       [] InputLayout(a) = "NSD" -> ranks = {3}
       [] OTHER -> TRUE

(* SetTilingHeadNumRatio, which tensors without elements do not come to. *)
TilingAccepts(a) ==
  \/ Empty(a)
  \/ /\ a.heads >= 0 /\ a.keyHeads >= 0
     /\ RanksFit(a)
     /\ a.keyHeads # 0 => a.heads % a.keyHeads = 0 /\ a.heads \div a.keyHeads <= 64

-----------------------------------------------------------------------------
(* Tensors of two dimensions have the rows of all batches one after the other, and
   there are as many batches as lengths.  For TND the sizes are kept in other variables:
   the ones the kernel gets are what they were initialised to. *)
Batches(a) ==
  CASE TNDLike(a) -> 0
    [] Len(a.query) = 2 -> IF a.lengths = <<>> THEN 1 ELSE Len(a.lengths)
    [] InputLayout(a) = "NSD" -> 1
    [] OTHER -> a.query[1]

(* The dimension the rows are counted in is that of the query for the keys too. *)
RowAxis(a) ==
  CASE Len(a.query) = 2 -> 1
    [] InputLayout(a) = "BNSD" -> 3
    [] OTHER -> 2

Rows(a, dims) == IF TNDLike(a) THEN 0 ELSE dims[RowAxis(a)]

(* Columns of all heads. *)
Columns(a) ==
  CASE TNDLike(a) \/ InputLayout(a) = "NSD" -> a.heads * a.query[3]
    [] InputLayout(a) = "BNSD" -> a.query[2] * a.query[4]
    [] Len(a.query) = 4 -> a.query[3] * a.query[4]
    [] OTHER -> a.query[Len(a.query)]

(* CheckActualSeqLength: how many lengths the kernel is told of. *)
LengthsTold(a, lengths) == IF InputLayout(a) = "SH" THEN 0 ELSE Len(lengths)

(* The length of a batch: one that is passed holds for all. *)
HostLength(lengths, default, b) ==
  IF lengths = <<>> THEN default ELSE IF Len(lengths) = 1 THEN lengths[1] ELSE lengths[b + 1]

(* Whether the output has to be filled with zeros first. *)
NeedInit(a) ==
  \E b \in 0 .. Batches(a) - 1 :
    \/ HostLength(a.lengths, Rows(a, a.query), b) # Rows(a, a.query)
    \/ HostLength(a.lengthsKV, Rows(a, a.key), b) # Rows(a, a.key)

(* What the tiling is made from. *)
Request(a) ==
  [aiv |-> a.aiv, b |-> Batches(a), n |-> a.heads, nk |-> a.keyHeads, h |-> Columns(a),
   q |-> Rows(a, a.query), kv |-> Rows(a, a.key), layout |-> InputLayout(a),
   bsndOut |-> IsBsndOut(a), type |-> a.type, precise |-> a.precise, sparse |-> a.sparse,
   causal |-> a.causal, lengths |-> a.lengths, lengthsKV |-> a.lengthsKV, kept |-> a.kept,
   told |-> LengthsTold(a, a.lengths), toldKV |-> LengthsTold(a, a.lengthsKV),
   empty |-> Empty(a), needInit |-> NeedInit(a)]
=============================================================================
