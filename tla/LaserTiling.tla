---------------------------- MODULE LaserTiling -----------------------------
(***************************************************************************)
(* The host's part of laser_attention: what the attention layer passes     *)
(* (layers/flash_attn/ascend_laser_attention.py), what the tiling function *)
(* derives for the kernel (op_host/laser_attention_tiling.cpp) and how the *)
(* kernel lays out its workspace (op_kernel/laser_attention.cpp).          *)
(*                                                                         *)
(* A request is [aic, b, n, nk, q, kv]: matrix cores of the device, batch, *)
(* heads of the query and of the keys, lengths before padding.             *)
(***************************************************************************)
EXTENDS LaserAddress

SeqBase == 256           \* SEQLEN_BASE
Side == 128              \* BASE_BLOCK_SIDE_LEN
MinSelf == 4000          \* MIN_SEQLEN_SELF, MIN_SEQLEN_CROSS
BlocksPerCore == 64      \* block_per_core
RowsOfBlocks == 2        \* ky

(* pad *)
Padded(length) == CeilOf(length, SeqBase) * SeqBase

(* forward_attn_bnsd: pre_tokens carries the padding of the keys; without padding
   it is MAX_TOKEN, which the tiling function takes for none. *)
WindowLen(kv) == Padded(kv) - kv

-----------------------------------------------------------------------------
(* DoTiling *)
CoreNumPerGroup(aic, kLen) ==
  CASE kLen <= 4096 -> 1
    [] kLen > 4096 /\ kLen <= 8192 -> 2
    [] kLen > 8192 /\ kLen <= 16384 -> 4
    [] kLen > 16384 -> IF aic = 20 THEN 4 ELSE 8

CoreGroupNum(aic, kLen) == aic \div CoreNumPerGroup(aic, kLen)

(* y * f, the matrix cores the kernel counts on. *)
CountedCores(r) ==
  CoreNumPerGroup(r.aic, Padded(r.kv)) * CoreGroupNum(r.aic, Padded(r.kv))

(* The cores that run: SetBlockDim. *)
LaunchedCores(r) == IF r.aic = 25 THEN 24 ELSE r.aic

(* Tiling4LaserAttention ends early if the keys have no heads; the numbers it has
   not set stay zero.  CheckTiling rejects what is zero, and keys without heads
   have no length. *)
HeadGroupSize(r) == IF r.n # r.nk THEN r.n \div r.nk ELSE 1

CheckTiling(r) ==
  /\ r.b # 0
  /\ r.n # 0
  /\ Padded(r.q) # 0
  /\ Padded(r.kv) # 0

-----------------------------------------------------------------------------
(* LaserAttentionTilingFunc: bytes of the workspace, without the system's part. *)
WorkspaceSize(r) ==
  CountedCores(r) * 128 * 128 * 32 * 2 * 4
    + CountedCores(r) * 256 * 128 * 8 * 2 * 4 * 2
    + r.b * r.n * Padded(r.q) * 4

(* The kernel's areas of the workspace: first byte, bytes. *)
DiagArea(r) == 256 * 128 * 2 * MaxSwitchTime * CountedCores(r) * 4
RowmaxDiag(r) == [at |-> 0, size |-> DiagArea(r)]
RowsumDiag(r) == [at |-> DiagArea(r), size |-> DiagArea(r)]
ScoreArea(r) ==
  [at |-> 2 * DiagArea(r), size |-> WorkspaceSize(r) - 2 * DiagArea(r)]

BytesOfScore == Side * Side * 2
BytesOfDiag == Side * Side * 4

-----------------------------------------------------------------------------
(* CubeForward::Init and VectorForward::Init: the geometries of the two. *)
CubeGeometry(r) ==
  [cores |-> CountedCores(r), perCore |-> BlocksPerCore, ky |-> RowsOfBlocks,
   rows |-> Padded(r.q) \div Side, cols |-> Padded(r.kv) \div Side,
   heads |-> r.n, batches |-> r.b]

VectorGeometry(r) == [CubeGeometry(r) EXCEPT !.cores = LaunchedCores(r)]
=============================================================================
