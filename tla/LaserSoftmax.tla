---------------------------- MODULE LaserSoftmax ----------------------------
(***************************************************************************)
(* How a vector core of laser_attention takes the maximum and the sum of a *)
(* row of scores (op_kernel/VectorForward.h).  A section's row lies in the *)
(* buffer block by block; halves are folded onto each other until one      *)
(* block is left.  A number of blocks that cannot be halved is padded      *)
(* first, and sixteen blocks or more are folded apart from the rest.       *)
(*                                                                         *)
(* The content of a buffer's block is the bag of score blocks folded into  *)
(* it, written as a sequence: a maximum may count one twice, a sum may     *)
(* not.  Sections have at most 32 blocks, so the branches for 48 and 64    *)
(* are left out.                                                           *)
(***************************************************************************)
EXTENDS Integers, Sequences, FiniteSets, SequencesExt

BlockSide == 128       \* columns of a block: BASE_BLOCK_SIDE_LEN
BlocksForMax == 16     \* BLOCK_NUM_FOR_VMAX
ScoreBuffer == 16384   \* numbers a buffer holds: MAX_LENG_PER_UB_PROC
Align == 256           \* what the host pads sequences to: align_size

-----------------------------------------------------------------------------
(* Blocks that are added so that the tail can be halved. *)
PaddingToEven(blocks) == blocks % 2

Padding(blocks) ==
  LET tail == blocks % BlocksForMax
      full == CHOOSE p \in {2, 4, 8, 16} :
                tail <= p /\ \A q \in {2, 4, 8, 16} : tail <= q => p <= q
  IN IF tail = 0 THEN 0 ELSE full - tail

(* The score buffer of a section, padded with the operation's neutral element;
   what lies behind is left from another section. *)
ScoreBlocks(blocks, padding) ==
  [i \in 0 .. 31 |-> IF i < blocks THEN <<i>> ELSE IF i < blocks + padding THEN <<>> ELSE <<"stale">>]

(* vmax or vadd of len blocks onto buf, from dst on. *)
Fold(buf, dst, a, b, len) ==
  [i \in DOMAIN buf |-> IF i \in dst .. dst + len - 1 THEN a[i - dst] \o b[i - dst] ELSE buf[i]]

From(buf, first) == [i \in 0 .. 31 |-> IF first + i \in DOMAIN buf THEN buf[first + i] ELSE <<"stale">>]

(* cacl_max, cacl_wrap: fold n blocks onto n, then n \div 2 onto as many, down to
   one; start is where they begin. *)
Cacl(buf, start, n) ==
  FoldLeft(LAMBDA acc, h : Fold(acc, start, From(acc, start), From(acc, start + h), h),
           buf, SelectSeq(<<8, 4, 2, 1>>, LAMBDA h : h <= n))

Untouched == [i \in 0 .. 31 |-> <<"stale">>]

-----------------------------------------------------------------------------
(* process_cacl_max *)
MaxOfHalves(all, score) ==
  CASE all >= 32 -> Cacl(Fold(Untouched, 0, score, From(score, 16), 16), 0, 8)
    [] all >= 16 /\ all < 32 -> Cacl(Fold(Untouched, 0, score, From(score, 8), 8), 0, 4)
    [] all < 16 -> Untouched

MaxOfTail(all, score, rowmax) ==
  LET tail == all % 16
      done == all - tail
      start == IF all < 16 THEN 0 ELSE 1
      half == tail \div 2
      folded == Cacl(Fold(rowmax, start, From(score, done), From(score, done + half), half),
                     start, half \div 2)
  IN IF tail = 0 THEN rowmax
     ELSE IF all < 16 THEN folded
     ELSE Fold(folded, 0, folded, From(folded, 1), 1)

RowMax(blocks) ==
  LET all == blocks + Padding(blocks)
      score == ScoreBlocks(blocks, Padding(blocks))
  IN MaxOfTail(all, score, MaxOfHalves(all, score))[0]

-----------------------------------------------------------------------------
(* process_cacl_wrap, which process_calc_sum calls with an addition. *)
SumOfHalves(all, score) ==
  LET threshold == IF all >= 32 THEN 16 ELSE 8
  IN IF all < 16 THEN Untouched
     ELSE Cacl(Fold(Untouched, 0, score, From(score, threshold), threshold), 0, threshold \div 2)

SumOfTail(all, score, rowsum) ==
  LET tail == all % 16
      start == IF all >= 16 THEN 1 ELSE 0
      half == tail \div 2
      folded == Cacl(Fold(rowsum, start, From(score, all - tail), From(score, all - tail + half), half),
                     start, half \div 2)
  IN IF tail = 0 THEN rowsum
     ELSE IF all >= 16 THEN Fold(folded, 0, folded, From(folded, 1), 2)
     ELSE folded

RowSum(blocks) ==
  LET all == blocks + Padding(blocks)
      score == ScoreBlocks(blocks, Padding(blocks))
  IN SumOfTail(all, score, SumOfHalves(all, score))[0]

-----------------------------------------------------------------------------
(* __set_reverse_mask: the first column the mask keeps, for each outcome of the
   shift.  At 64 it shifts by -1, which may keep any column of the upper half. *)
ReverseMask(len) == IF len = 64 THEN 64 .. 128 ELSE {len}

(* process_line_phase_one_for_short_seq_max: the columns of the section that ends
   its rows that are set to -60000 because the host has padded the keys by
   windowLen, for each outcome.  The last two blocks count from 0 to 255. *)
Masked(windowLen) ==
  LET tailLen == (Align - windowLen) % BlockSide
      block == IF windowLen >= BlockSide THEN 0 ELSE BlockSide
      whole == IF windowLen >= BlockSide THEN BlockSide .. Align - 1 ELSE {}
  IN IF windowLen = 0 THEN {{}}
     ELSE IF tailLen = 0 THEN {whole}
     ELSE {whole \union (block + first .. block + BlockSide - 1) : first \in ReverseMask(tailLen)}
=============================================================================
