---------------------------- MODULE SparseReduce ----------------------------
(***************************************************************************)
(* The sums of sparse_block_estimate and what it keeps by them             *)
(* (op_kernel/sparse_block_estimate.h).  ColumnSum adds up the rows of a   *)
(* block of the mask, RowSum the columns of a row, each by folding the     *)
(* second half onto the first; ScoreCompute keeps the columns whose scores *)
(* are the largest and make up the threshold.                              *)
(*                                                                         *)
(* The content of a row or a column is what was added up in it, written as *)
(* a sequence.  Scores are whole numbers, so that sums are exact; the      *)
(* kernel's are rounded to half.                                           *)
(***************************************************************************)
EXTENDS Integers, Sequences, FiniteSets, SequencesExt

CONSTANTS
  Lanes,     \* columns an instruction adds at a time: 256 / sizeof(CT)
  Piece,     \* sorted scores that are first taken together: 16
  CapFrom    \* columns from which on row_sparse holds: 10

(* Add(src, src, src[from], count) *)
AddOnto(buf, from, count) ==
  [i \in DOMAIN buf |-> IF i < count THEN buf[i] \o buf[i + from] ELSE buf[i]]

(* AccumulateByRow, for a number of rows that is a power of two. *)
AccumulateByRow(buf, rowCount) ==
  FoldLeft(LAMBDA acc, h : AddOnto(acc, h, h), buf,
           SelectSeq(<<16, 8, 4, 2, 1>>, LAMBDA h : 2 * h <= rowCount))

(* ColumnSum: the rows beyond a power of two are folded onto the first ones. *)
ColumnSum(rowCount, reduceSize) ==
  LET buf == [i \in 0 .. 2 * reduceSize - 1 |-> <<i>>]
      masks == SelectSeq(<<16, 8, 4, 2, 1>>, LAMBDA h : h <= reduceSize /\ (rowCount \div h) % 2 = 1)
      mask == masks[1]
  IN AccumulateByRow(IF rowCount > mask THEN AddOnto(buf, mask, rowCount - mask) ELSE buf, mask)[0]

(* RowSum: whole groups of Lanes columns are folded, the last of an odd number being
   left for the next turn; one group is summed up as it is. *)
FoldGroups(acc) ==
  LET kept == (acc.groups + 1) \div 2
  IN IF acc.groups \div 2 = 0 THEN acc
     ELSE [groups |-> kept,
           buf |-> [i \in DOMAIN acc.buf |->
                     IF i < (acc.groups \div 2) * Lanes THEN acc.buf[i] \o acc.buf[i + kept * Lanes]
                     ELSE acc.buf[i]]]

RowSum(actualColumnCount) ==
  LET groups == actualColumnCount \div Lanes
      remain == actualColumnCount % Lanes
      buf == [i \in 0 .. actualColumnCount - 1 |-> <<i>>]
      start == [groups |-> groups,
                buf |-> IF groups > 0 /\ remain > 0 THEN AddOnto(buf, groups * Lanes, remain) ELSE buf]
      folded == FoldLeft(LAMBDA acc, i : FoldGroups(acc), start, [i \in 1 .. 8 |-> i])
      summed == IF actualColumnCount < Lanes THEN actualColumnCount ELSE Lanes
  IN FlattenSeq([i \in 1 .. summed |-> folded.buf[i - 1]])

-----------------------------------------------------------------------------
SumOf(scores) == FoldLeft(+, 0, scores)

(* What is sorted: columns that are kept anyway count as zero. *)
Ranked(o, scores) ==
  [i \in DOMAIN scores |->
    IF (o.setFirst /\ i = 1) \/ ((o.setDiag \/ ~o.causal) /\ i = Len(scores)) THEN 0 ELSE scores[i]]

Padded0(scores) ==
  scores \o [i \in 1 .. ((2 * Piece) - (Len(scores) % (2 * Piece))) % (2 * Piece) |-> 0]

(* The walk over the sorted scores: first by pieces, then one by one.  target is the
   threshold, a fraction <<p, q>>, of the sum; the last score taken is the guard. *)
Walked(sorted, target) ==
  LET q == target[2]
      Before(i) == SumOf(SubSeq(sorted, 1, i * Piece))
      over == {i \in 0 .. Len(sorted) \div Piece - 1 : Before(i + 1) * q > target[1]}
      blk == IF over = {} \/ Len(sorted) <= Piece THEN 0
             ELSE Piece * (CHOOSE i \in over : \A h \in over : i <= h)
      taken == IF Len(sorted) <= Piece THEN 0
               ELSE IF over = {} THEN SumOf(sorted) ELSE Before(blk \div Piece)
      Sum(i) == taken + SumOf(SubSeq(sorted, blk + 1, blk + i + 1))
      enough == {i \in 0 .. Piece - 1 : Sum(i) * q >= target[1]}
      last == IF enough = {} THEN Piece - 1 ELSE CHOOSE i \in enough : \A h \in enough : i <= h
  IN [cnt |-> blk + last, guard |-> sorted[blk + last + 1]]

(* ScoreCompute.  Options o: [threshold, rowSparse (fractions), setFirst, setDiag,
   causal]. *)
Guard(o, scores) ==
  LET ranked == Ranked(o, scores)
      sorted == SortSeq(Padded0(ranked), >)
      rs == SumOf(IF o.setDiag THEN SubSeq(ranked, 1, Len(ranked) - 1) ELSE ranked)
      walked == IF o.threshold[1] < o.threshold[2]
                THEN Walked(sorted, <<o.threshold[1] * rs, o.threshold[2]>>)
                ELSE [cnt |-> Len(scores), guard |-> 0]
      columns == Len(scores)
      kk == (columns * o.rowSparse[1]) \div o.rowSparse[2]
  IN IF walked.cnt * o.rowSparse[2] > columns * o.rowSparse[1] /\ columns >= CapFrom
     THEN sorted[kk]
     ELSE walked.guard

KeptColumns(o, scores) ==
  IF Len(scores) <= 2 /\ o.causal THEN DOMAIN scores
  ELSE {i \in DOMAIN scores :
          \/ Ranked(o, scores)[i] >= Guard(o, scores)
          \/ i = 1
          \/ i = Len(scores) /\ (o.setDiag \/ ~o.causal)}
=============================================================================
