---------------------------- MODULE LaserVector -----------------------------
(***************************************************************************)
(* A vector core of laser_attention (op_kernel/VectorForward.h): for half  *)
(* the rows of a section it turns the scores of the workspace into         *)
(* exp(score - max) in place, keeps the row maxima and row sums, and       *)
(* writes the diagonal matrices the matrix core rescales with: exp(old max *)
(* - new max) for a section that continues its rows, 1 / sum for one that  *)
(* ends them.                                                              *)
(*                                                                         *)
(* A section is [head, tail, half, diag]: whether it starts and ends its   *)
(* rows, which row of blocks it is, and its place among the diagonal       *)
(* matrices.  It is taken in turns of rowPerTime lines, alternating two    *)
(* buffers; 16 lines give a sixteenth of a diagonal matrix.  The mask      *)
(* copies of the triangle and of the sparse mode are left out: the host    *)
(* never asks for either.                                                  *)
(***************************************************************************)
EXTENDS AscendInstructions, SequencesExt

CONSTANTS
  VectorLines, \* lines of a section a vector core takes: 64
  RowPerTime,  \* lines of a turn: 4
  RowsPerDiag  \* lines of a part of the diagonal matrix: 16

LinesTurns == VectorLines \div RowPerTime
TurnsPerDiag == RowsPerDiag \div RowPerTime

VExec(core, reads, writes) == Exec(core, "V", reads, writes)

(* The part of the diagonal matrix under construction in turn t; a head section
   builds none. *)
BuildStep(head, t) == IF head THEN 0 ELSE t \div TurnsPerDiag

(* Buffers of the vector core. *)
UB(core, name, i) == <<core, name, i>>
ScoreLines(half, t) == <<"gm_S", half, t>>

-----------------------------------------------------------------------------
(* Copy in the lines of turn t, scale them, pad them, take their maxima; unless
   the section starts its rows, correct the maxima by those of the section before
   and derive the factor the old sums lose. *)
PhaseMax(core, s, t) ==
  LET pp == t % 2
      step == BuildStep(s.head, t)
      Buf(name) == UB(core, name, 0)
  IN Exec(core, "MTE2", {ScoreLines(s.half, t)}, {UB(core, "score", pp)})
       \o SetWait(core, "MTE2", "V", pp)
       \o VExec(core, {UB(core, "score", pp)},
                {UB(core, "score", pp), UB(core, "pad", pp), Buf("rowmax"), Buf("final"),
                 UB(core, "maxJ", t)})
       \o (IF s.head THEN <<>>
           ELSE VExec(core, {UB(core, "lastMaxJ", s.half), UB(core, "maxJ", t)},
                      {UB(core, "maxJ", t), UB(core, "subMax", t)})
                  \o SetFlag(core, "V", "S", step + 1))
       \o VExec(core, {UB(core, "maxJ", t)}, {Buf("record"), Buf("vbrcb")})

(* exp(score - max) is copied out while the vector unit sums it up. *)
ExpAndRowsum(core, s, t) ==
  LET pp == t % 2
      Buf(name) == UB(core, name, 0)
  IN VExec(core, {Buf("vbrcb"), UB(core, "score", pp)}, {UB(core, "score", pp)})
       \o SetWait(core, "V", "MTE3", pp)
       \o Exec(core, "MTE3", {UB(core, "score", pp)}, {ScoreLines(s.half, t)})
       \o VExec(core, {UB(core, "score", pp)},
                {UB(core, "pad", pp), Buf("rowmax"), Buf("final"), Buf("lj")})

(* Parts of the diagonal matrix. *)
DiagParts == 0 .. VectorLines \div RowsPerDiag - 1

(* The scalar unit writes the diagonal and has it copied out: for the row maxima
   (type 0) a part at a time, each when the part before it is gone, for the row
   sums (type 1) all at once. *)
FormDiagmat(core, type, vec, step, dst) ==
  LET parts == {UB(core, "diagmat", i) : i \in IF type = 0 THEN {step} ELSE DiagParts}
  IN (IF type = 0 THEN WaitFlag(core, "MTE3", "S", step + 1) ELSE <<>>)
       \o Exec(core, "S", {vec}, parts)
       \o SetWait(core, "S", "MTE3", step + 1)
       \o Exec(core, "MTE3", parts, {dst})
       \o (IF type = 0 THEN SetFlag(core, "MTE3", "S", step + 2) ELSE <<>>)

(* The factors of the turn move next to those before, and the last turn of a part
   of the diagonal matrix builds it. *)
Rescale(core, s, t) ==
  LET step == BuildStep(s.head, t)
      packed == UB(core, "subMax", t \div TurnsPerDiag)
  IN WaitFlag(core, "V", "S", step + 1)
       \o Exec(core, "S", {UB(core, "subMax", t)}, {packed})
       \o SetWait(core, "S", "V", step + 1)
       \o (IF (t + 1) % TurnsPerDiag # 0 THEN <<>>
           ELSE VExec(core, {packed}, {UB(core, "subMax32", step)})
                  \o SetWait(core, "V", "S", step + 1)
                  \o FormDiagmat(core, 0, UB(core, "subMax32", step), step,
                                 <<"rowmax_diag", s.diag, step>>))

LineTurn(core, s, t) ==
  WaitFlag(core, "MTE3", "MTE2", t % 2)
    \o PhaseMax(core, s, t)
    \o ExpAndRowsum(core, s, t)
    \o SetFlag(core, "MTE3", "MTE2", t % 2)
    \o (IF s.head THEN <<>> ELSE Rescale(core, s, t))

(* Maxima and sums of the lines so far, for the section that continues them: the
   next but one, since sections come in pairs, one for each row of blocks. *)
UpdateRowsum(core, s) ==
  VExec(core, {UB(core, "subMax32", i) : i \in DiagParts}
                \union {UB(core, "lastLj", s.half), UB(core, "lj32", 0)},
        {UB(core, "record", 0), UB(core, "lj32", 0)})

BackupMaxAndSum(core, s) ==
  VExec(core, {UB(core, "lj32", 0)} \union {UB(core, "maxJ", t) : t \in 0 .. LinesTurns - 1},
        {UB(core, "lastLj", s.half), UB(core, "lastMaxJ", s.half)})

AttentionScore(core, s) ==
  LET last == IF s.head THEN 0 ELSE VectorLines \div RowsPerDiag
  IN SetFlag(core, "MTE3", "MTE2", 0)
       \o SetFlag(core, "MTE3", "MTE2", 1)
       \o SetFlag(core, "MTE3", "S", 1)
       \o VExec(core, {}, {UB(core, "maxJ", t) : t \in 0 .. LinesTurns - 1}
                            \union {UB(core, "diagmat", i) : i \in DiagParts}
                            \union {UB(core, "lj", 0)})
       \o FlattenSeq([i \in 1 .. LinesTurns |-> LineTurn(core, s, i - 1)])
       \o WaitFlag(core, "MTE3", "S", last + 1)
       \o VExec(core, {UB(core, "lj", 0)}, {UB(core, "lj32", 0)})
       \o (IF s.head THEN <<>> ELSE UpdateRowsum(core, s))
       \o (IF s.tail THEN <<>> ELSE BackupMaxAndSum(core, s))
       \o WaitFlag(core, "MTE3", "MTE2", 0)
       \o WaitFlag(core, "MTE3", "MTE2", 1)

(* 1 / sum of a section that ends its rows. *)
RowsumDiag(core, s) ==
  VExec(core, {UB(core, "lj32", 0)}, {UB(core, "record", 0), UB(core, "diag32", 0)})
    \o SetWait(core, "V", "S", 0)
    \o FormDiagmat(core, 1, UB(core, "diag32", 0), 0, <<"rowsum_diag", s.diag, 0>>)
    \o SetWait(core, "MTE3", "V", 0)

VectorSection(core, s) ==
  AttentionScore(core, s) \o (IF s.tail THEN RowsumDiag(core, s) ELSE <<>>)
=============================================================================
