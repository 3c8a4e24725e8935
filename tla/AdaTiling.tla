------------------------------ MODULE AdaTiling ------------------------------
(***************************************************************************)
(* The host's part of ada_block_sparse_attention                           *)
(* (op_host/ada_block_sparse_attention_tiling.cpp), on an Ascend 910B: the *)
(* program of the kernel, the parts it works in and the memory they take.  *)
(*                                                                         *)
(* A request is [aiv, b, n, nk, h, q, kv, layout, bsndOut, type, precise,  *)
(* sparse, causal, lengths, lengthsKV, kept, told, toldKV, empty,          *)
(* needInit]: batches; heads of the query and of the keys, 0 standing for  *)
(* the same; columns of all heads; rows of the query and of the keys;      *)
(* whether the output's layout is BSND while the query's is BNSD; how many *)
(* lengths the kernel is told of; whether a tensor has no elements;        *)
(* whether the output needs zeros; and the rest as it is passed.           *)
(***************************************************************************)
EXTENDS AdaArguments

Lesser(a, b) == IF a < b THEN a ELSE b
UpDiv(a, b) == (a + b - 1) \div b
AlignUp(a, b) == UpDiv(a, b) * b

(* SetTilingHeadNumRatio *)
HeadNumRatio(r) == IF r.nk = 0 THEN 1 ELSE r.n \div r.nk

(* RunBigKernelTilingWithParams: columns of a head. *)
HeadSize(r) == r.h \div r.n
AlignedHeadSize(r) == AlignUp(HeadSize(r), 16)

(* inner_precise: its first bit asks for speed; 4, an approximation, is neither. *)
HighPerformance(r) == r.precise # 4 /\ r.precise % 2 = 1
HighPrecision(r) == r.precise # 4 /\ r.precise % 2 = 0
FloatResult(r) == r.type = "BFloat16" \/ (r.type = "Half" /\ HighPrecision(r))
SoftmaxBytes(r) == IF r.type = "Half" /\ HighPerformance(r) THEN 2 ELSE 4

(* InferTilingMod *)
SplitD(r) == HeadSize(r) > 512
CvDiff(r) == ~SplitD(r) /\ HeadSize(r) % 16 = 0

(* Rows and columns of a step, and rows of a piece of it that is reduced at a time. *)
OuterFactor(r) == r.sparse
InnerFactor == 1024
SoftmaxOuter(r) == (16 * 1024) \div (InnerFactor * (IF FloatResult(r) THEN 2 ELSE 1))

(* SetSplitCoreMode *)
CubeCondition(r) ==
  /\ HeadSize(r) = 128
  /\ r.type \in {"Half", "BFloat16"}
  /\ r.lengths = <<>> /\ r.lengthsKV = <<>>
  /\ r.q = r.kv
  /\ CvDiff(r)

SplitOneN(r) == CubeCondition(r) /\ r.q >= 16 * 1024 /\ r.b * r.n >= 12
SplitNbs(r) ==
  /\ CubeCondition(r) /\ ~SplitOneN(r)
  /\ r.q >= 3 * 1024
  /\ r.b * r.n * UpDiv(r.q, 2 * OuterFactor(r)) >= r.aiv
  /\ HeadNumRatio(r) # 1 \/ r.b # 1 \/ r.q >= 8 * 1024

(* TilingGetTilingKeyAttentionAscendC, without the digit all keys begin with. *)
TilingKey(r) ==
  IF r.empty THEN 20
  ELSE IF SplitD(r) THEN (IF r.kv <= 512 THEN 300 ELSE 400)
  ELSE IF CvDiff(r)
       THEN 1012 + (IF r.type = "Half" /\ HighPrecision(r) THEN 600 ELSE 0)
                 + (IF r.type = "BFloat16" THEN 10100 ELSE 0)
                 + (IF r.layout \in {"BSH", "SH", "BSND"} THEN 100000 ELSE 0)
                 + (IF SplitOneN(r) \/ SplitNbs(r) THEN 2000000 ELSE 0)
       ELSE 11 + (IF r.type = "BFloat16" THEN 100 ELSE 0)
               + (IF r.layout \in {"BNSD", "NSD"} THEN 5 ELSE 0)

(* The branches of the kernel.  It does nothing for a key that has none. *)
Branches(type) ==
  IF type = "Half" THEN [BSH |-> {101012, 2101012}, BNSD |-> {1012, 2001012}]
  ELSE [BSH |-> {111112, 2111112}, BNSD |-> {11112, 2011112}]

KernelLayouts(r) ==
  {layout \in {"BSH", "BNSD"} : TilingKey(r) \in Branches(r.type)[layout]}
HasKernel(r) == KernelLayouts(r) # {}
KernelLayout(r) == CHOOSE layout \in KernelLayouts(r) : TRUE

(* CheckBmm1: the parts in which the matrix core makes the first product. *)
BaseK(r) == Lesser(HeadSize(r), 128)
BaseN(r) == ((16 * 1024) \div (64 * BaseK(r))) * 64

(* CheckBmm2: the parts of the second, which the library chooses unless they are set. *)
SecondIsSet(r) == SplitOneN(r) \/ SplitNbs(r)
SecondBaseN(r) == Lesser(HeadSize(r), 128)
SecondBaseK == 128

(* CVDiffSetTensorSize: elements of the local buffers. *)
MmResUbSize(r) == SoftmaxOuter(r) * InnerFactor
SoftmaxExpSize(r) == OuterFactor(r) * (32 \div SoftmaxBytes(r))
SoftmaxMaxSize(r) == OuterFactor(r) * 8
Bmm2ResUbSize(r) == OuterFactor(r) * AlignedHeadSize(r)

(* GetBSAWorkSpaceSize, without the 16 MB of the system. *)
Mm1ResSize(r) == OuterFactor(r) * InnerFactor
Mm2ResSize(r) == OuterFactor(r) * HeadSize(r)
UserWorkspace(r) ==
  r.aiv * 4 * (2 * Mm1ResSize(r) + 2 * Mm2ResSize(r)) + r.aiv * 2 * 2 * 64
=============================================================================
